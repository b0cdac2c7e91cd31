--------------------------- MODULE AiQuotaProofs ----------------------------
(***************************************************************************)
(* Proofs about AiQuota, for any number of calls and keys and any limit.   *)
(***************************************************************************)
EXTENDS AiQuota, FiniteSetTheorems, TLAPS

(* The row of the workspace is locked by the call that is past the lock.   *)
LockHeld ==
  \A c \in Calls : call[c].pc \in {"sum", "insert"} <=> lock = c

(* A call that has not been answered has neither an event nor an answer.   *)
UnansweredHasNothing ==
  \A c \in Calls :
    call[c].pc # "answered" => event[c].status = "absent" /\ answer[c] = NoOne

LedgerInvariant ==
  /\ TypeOK
  /\ LockHeld
  /\ UnansweredHasNothing
  /\ OneEventPerKey

-----------------------------------------------------------------------------
LEMMA InitLedger == Init => LedgerInvariant
BY AiQuotaAssumption
DEF Init, LedgerInvariant, TypeOK, LockHeld, UnansweredHasNothing, OneEventPerKey, Call, Event,
    Steps, Statuses, Existing

(* A step that only moves a call on, keeping its key.                      *)
LEMMA MoveOn ==
  ASSUME LedgerInvariant, NEW c \in Calls, NEW step \in Steps \ {"idle"}, GoTo(c, step),
         call[c].pc # "idle"
  PROVE  /\ call' \in [Calls -> Call]
         /\ call'[c].pc = step
         /\ \A d \in Calls : d # c => call'[d] = call[d]
         /\ \A d \in Calls : call'[d].key = call[d].key
         /\ \A d \in Calls : call'[d].pc # "idle" => call'[d].key \in Keys
<1>1. call \in [Calls -> Call] /\ \A d \in Calls : call[d].pc # "idle" => call[d].key \in Keys
  BY DEF LedgerInvariant, TypeOK
<1>2. [call[c] EXCEPT !.pc = step] \in Call /\ [call[c] EXCEPT !.pc = step].pc = step
      /\ [call[c] EXCEPT !.pc = step].key = call[c].key
  BY <1>1 DEF Call
<1> QED
  BY <1>1, <1>2 DEF GoTo

LEMMA StepsNamed ==
  /\ {"lookup", "lock", "sum", "insert", "answered", "refused"} = Steps \ {"idle"}
  /\ {"reserved", "completed", "refunded"} = Statuses \ {"absent"}
BY DEF Steps, Statuses

LEMMA ReserveKeeps ==
  ASSUME LedgerInvariant, NEW c \in Calls, NEW k \in Keys, NEW t \in 1..MaxTokens,
         Reserve(c, k, t)
  PROVE  LedgerInvariant'
<1> USE DEF LedgerInvariant
<1>1. [pc |-> "lookup", key |-> k, tokens |-> t, month |-> month] \in Call
  BY AiQuotaAssumption, StepsNamed DEF Call, TypeOK
<1>2. call' = [call EXCEPT ![c] = [pc |-> "lookup", key |-> k, tokens |-> t, month |-> month]]
      /\ UNCHANGED <<month, event, lock, answer>> /\ call[c].pc = "idle"
  BY DEF Reserve
<1>3. call' \in [Calls -> Call] /\ call'[c].pc = "lookup" /\ call'[c].key = k
      /\ \A d \in Calls : d # c => call'[d] = call[d]
  BY <1>1, <1>2 DEF TypeOK
<1>4. TypeOK'
  BY <1>2, <1>3 DEF TypeOK, Existing
<1>5. LockHeld' /\ UnansweredHasNothing'
  BY <1>2, <1>3 DEF LockHeld, UnansweredHasNothing
<1>6. OneEventPerKey'
  <2>1. answer[c] = NoOne
    BY <1>2 DEF UnansweredHasNothing
  <2> QED BY <1>2, <1>3, <2>1 DEF OneEventPerKey, Existing
<1> QED BY <1>4, <1>5, <1>6

LEMMA LookupKeeps ==
  ASSUME LedgerInvariant, NEW c \in Calls, Lookup(c)
  PROVE  LedgerInvariant'
<1> USE DEF LedgerInvariant
<1>0. call[c].pc = "lookup" /\ UNCHANGED <<month, event, lock>>
  BY DEF Lookup
<1>1. CASE GoTo(c, "lock") /\ UNCHANGED answer
  <2>1. /\ call' \in [Calls -> Call] /\ call'[c].pc = "lock"
        /\ \A d \in Calls : d # c => call'[d] = call[d]
        /\ \A d \in Calls : call'[d].key = call[d].key
        /\ \A d \in Calls : call'[d].pc # "idle" => call'[d].key \in Keys
    BY <1>0, <1>1, MoveOn, StepsNamed
  <2> QED
    BY <1>0, <1>1, <2>1 DEF TypeOK, Existing, LockHeld, UnansweredHasNothing, OneEventPerKey
<1>2. ASSUME NEW e \in WithKey(call[c].key), answer' = [answer EXCEPT ![c] = e],
             GoTo(c, "answered")
      PROVE  LedgerInvariant'
  <2>1. /\ call' \in [Calls -> Call] /\ call'[c].pc = "answered"
        /\ \A d \in Calls : d # c => call'[d] = call[d]
        /\ \A d \in Calls : call'[d].key = call[d].key
        /\ \A d \in Calls : call'[d].pc # "idle" => call'[d].key \in Keys
    BY <1>0, <1>2, MoveOn, StepsNamed
  <2>2. e \in Calls /\ e \in Existing /\ event[e].key = call[c].key
    BY DEF WithKey, Existing
  <2>3. answer' \in [Calls -> Calls \cup {NoOne}] /\ answer'[c] = e
        /\ \A d \in Calls : d # c => answer'[d] = answer[d]
    BY <1>2, <2>2 DEF TypeOK
  <2>4. TypeOK'
    BY <1>0, <2>1, <2>3 DEF TypeOK, Existing
  <2>5. LockHeld' /\ UnansweredHasNothing'
    BY <1>0, <2>1, <2>3 DEF LockHeld, UnansweredHasNothing
  <2>6. OneEventPerKey'
    BY <1>0, <2>1, <2>2, <2>3 DEF OneEventPerKey, Existing
  <2> QED BY <2>4, <2>5, <2>6
<1> QED
  BY <1>1, <1>2 DEF Lookup

(* The statements under the lock that write no event, and a lost call.     *)
LEMMA LockStepsKeep ==
  ASSUME LedgerInvariant, NEW c \in Calls, LockWorkspace(c) \/ CheckLimit(c) \/ Lose(c)
  PROVE  LedgerInvariant'
<1> USE DEF LedgerInvariant
<1>0. UNCHANGED <<month, event, answer>>
  BY DEF LockWorkspace, CheckLimit, Lose
<1>1. PICK step \in {"sum", "insert", "refused"} : GoTo(c, step)
  BY DEF LockWorkspace, CheckLimit, Lose
<1>2. call[c].pc \notin {"idle", "answered"}
  BY DEF LockWorkspace, CheckLimit, Lose, Ended
<1>3. /\ call' \in [Calls -> Call] /\ call'[c].pc = step
      /\ \A d \in Calls : d # c => call'[d] = call[d]
      /\ \A d \in Calls : call'[d].key = call[d].key
      /\ \A d \in Calls : call'[d].pc # "idle" => call'[d].key \in Keys
  BY <1>1, <1>2, MoveOn, StepsNamed
<1>4. lock' \in Calls \cup {NoOne} /\ LockHeld'
  <2>1. CASE LockWorkspace(c)
    <3>1. call'[c].pc = "sum" /\ lock = NoOne /\ lock' = c
      BY <2>1, <1>2, MoveOn, StepsNamed DEF LockWorkspace
    <3> QED BY <1>3, <3>1, AiQuotaAssumption DEF LockHeld
  <2>2. CASE call'[c].pc = "refused" /\ Unlock(c)
    BY <1>3, <2>2, AiQuotaAssumption DEF LockHeld, Unlock, TypeOK
  <2>3. CASE call[c].pc = "sum" /\ call'[c].pc = "insert" /\ UNCHANGED lock
    BY <1>3, <2>3 DEF LockHeld, TypeOK
  <2>4. CASE CheckLimit(c)
    <3>1. call[c].pc = "sum"
          /\ \/ GoTo(c, "refused") /\ Unlock(c)
             \/ GoTo(c, "insert") /\ UNCHANGED lock
      BY <2>4 DEF CheckLimit
    <3>2. GoTo(c, "refused") => call'[c].pc = "refused"
      BY <1>2, MoveOn, StepsNamed
    <3>3. GoTo(c, "insert") => call'[c].pc = "insert"
      BY <1>2, MoveOn, StepsNamed
    <3> QED BY <2>2, <2>3, <3>1, <3>2, <3>3
  <2>5. CASE Lose(c)
    <3>1. call'[c].pc = "refused" /\ Unlock(c)
      BY <2>5, <1>2, MoveOn, StepsNamed DEF Lose
    <3> QED BY <2>2, <3>1
  <2> QED BY <2>1, <2>4, <2>5
<1>5. TypeOK'
  BY <1>0, <1>3, <1>4 DEF TypeOK, Existing
<1>6. UnansweredHasNothing'
  BY <1>0, <1>2, <1>3 DEF UnansweredHasNothing
<1>7. OneEventPerKey'
  BY <1>0, <1>3 DEF OneEventPerKey, Existing
<1> QED BY <1>4, <1>5, <1>6, <1>7

LEMMA InsertKeeps ==
  ASSUME LedgerInvariant, NEW c \in Calls, Insert(c)
  PROVE  LedgerInvariant'
<1> USE DEF LedgerInvariant
<1>0. call[c].pc = "insert" /\ UNCHANGED month /\ Unlock(c)
  BY DEF Insert
<1>1. PICK step \in {"refused", "answered"} : GoTo(c, step)
  BY DEF Insert
<1>2. /\ call' \in [Calls -> Call] /\ call'[c].pc = step
      /\ \A d \in Calls : d # c => call'[d] = call[d]
      /\ \A d \in Calls : call'[d].key = call[d].key
      /\ \A d \in Calls : call'[d].pc # "idle" => call'[d].key \in Keys
  BY <1>0, <1>1, MoveOn, StepsNamed
<1>3. lock' \in Calls \cup {NoOne} /\ LockHeld'
  BY <1>0, <1>2, AiQuotaAssumption DEF LockHeld, Unlock, TypeOK
<1>4. CASE UNCHANGED <<event, answer>>
  BY <1>0, <1>2, <1>3, <1>4 DEF TypeOK, Existing, UnansweredHasNothing, OneEventPerKey
<1>5. CASE ~ UNCHANGED <<event, answer>>
  <2> DEFINE new == [status |-> "reserved", key |-> call[c].key, reserved |-> call[c].tokens,
                     used |-> 0, month |-> call[c].month]
  <2>1. /\ WithKey(call[c].key) = {}
        /\ event' = [event EXCEPT ![c] = new] /\ answer' = [answer EXCEPT ![c] = c]
        /\ GoTo(c, "answered")
    BY <1>5 DEF Insert
  <2>2. call'[c].pc = "answered"
    BY <1>0, <2>1, MoveOn, StepsNamed
  <2>3. new \in Event /\ call[c].key \in Keys
    BY <1>0, StepsNamed DEF Event, TypeOK, Call
  <2>4. /\ event' \in [Calls -> Event] /\ event'[c] = new
        /\ \A d \in Calls : d # c => event'[d] = event[d]
        /\ answer' \in [Calls -> Calls \cup {NoOne}] /\ answer'[c] = c
        /\ \A d \in Calls : d # c => answer'[d] = answer[d]
    BY <2>1, <2>3 DEF TypeOK
  <2>5. Existing' = Existing \cup {c} /\ c \notin Existing
    BY <1>0, <2>4 DEF Existing, UnansweredHasNothing
  <2>6. TypeOK'
    <3>1. \A d \in Existing' : event'[d].key \in Keys
      BY <2>3, <2>4, <2>5 DEF TypeOK, Existing
    <3> QED BY <1>0, <1>2, <1>3, <2>4, <3>1 DEF TypeOK
  <2>7. UnansweredHasNothing'
    BY <1>2, <2>2, <2>4 DEF UnansweredHasNothing
  <2>8. OneEventPerKey'
    <3>1. \A e \in Existing : event[e].key # call[c].key
      BY <2>1 DEF WithKey
    <3>2. \A d \in Calls : d # c /\ answer[d] # NoOne => answer[d] \in Existing /\ answer[d] # c
      BY <2>5 DEF OneEventPerKey
    <3>3. \A e \in Existing : e \in Calls
      BY DEF Existing
    <3> QED BY <1>2, <2>4, <2>5, <3>1, <3>2, <3>3 DEF OneEventPerKey
  <2> QED BY <1>3, <2>6, <2>7, <2>8
<1> QED BY <1>4, <1>5

LEMMA SettlementKeeps ==
  ASSUME LedgerInvariant, NEW e \in Calls, (\E u \in 0..MaxUsed : Complete(e, u)) \/ Refund(e)
  PROVE  LedgerInvariant'
<1> USE DEF LedgerInvariant
<1>0. UNCHANGED <<month, call, lock, answer>> /\ event[e].status # "absent"
      /\ event[e] \in Event
  BY DEF Complete, Refund, TypeOK
<1> DEFINE Settled ==
      /\ event' \in [Calls -> Event] /\ event'[e].key = event[e].key
      /\ event'[e].status # "absent" /\ \A f \in Calls : f # e => event'[f] = event[f]
<1>1. Settled
  <2>1. ASSUME NEW u \in 0..MaxUsed, Complete(e, u)
        PROVE  Settled
    <3>1. event' = [event EXCEPT ![e] = [event[e] EXCEPT !.status = "completed", !.used = u]]
      BY <2>1 DEF Complete, TypeOK
    <3>2. [event[e] EXCEPT !.status = "completed", !.used = u] \in Event
      <4>1. u \in Nat /\ "completed" \in Statuses
        BY AiQuotaAssumption, StepsNamed
      <4> QED BY <1>0, <4>1 DEF Event
    <3> QED BY <1>0, <3>1, <3>2 DEF TypeOK, Event
  <2>2. ASSUME Refund(e)
        PROVE  Settled
    <3>1. event' = [event EXCEPT ![e] = [event[e] EXCEPT !.status = "refunded", !.reserved = 0,
                                                         !.used = 0]]
      BY <2>2 DEF Refund, TypeOK
    <3>2. [event[e] EXCEPT !.status = "refunded", !.reserved = 0, !.used = 0] \in Event
      BY <1>0, StepsNamed DEF Event
    <3> QED BY <1>0, <3>1, <3>2 DEF TypeOK, Event
  <2> QED BY <2>1, <2>2
<1>2. Existing' = Existing
  BY <1>0, <1>1 DEF Existing
<1>3. \A f \in Existing : event'[f].key = event[f].key /\ f \in Calls
  BY <1>1 DEF Existing
<1>4. TypeOK' /\ LockHeld'
  BY <1>0, <1>1, <1>2, <1>3 DEF TypeOK, LockHeld
<1>5. UnansweredHasNothing' /\ OneEventPerKey'
  BY <1>0, <1>1, <1>2, <1>3 DEF UnansweredHasNothing, OneEventPerKey
<1> QED BY <1>4, <1>5

LEMMA LedgerStep == LedgerInvariant /\ [Next]_vars => LedgerInvariant'
<1> SUFFICES ASSUME LedgerInvariant, [Next]_vars PROVE LedgerInvariant'
  OBVIOUS
<1>1. CASE NextMonth \/ UNCHANGED vars
  <2>1. UNCHANGED <<call, event, lock, answer>> /\ month' \in Nat
    BY <1>1 DEF NextMonth, vars, LedgerInvariant, TypeOK
  <2> QED BY <2>1 DEF LedgerInvariant, TypeOK, LockHeld, UnansweredHasNothing,
                      OneEventPerKey, Existing
<1> QED
  BY <1>1, ReserveKeeps, LookupKeeps, LockStepsKeep, InsertKeeps, SettlementKeeps
  DEF Next, Step

LEMMA LedgerInvariantHolds == Spec => []LedgerInvariant
BY LedgerStep, InitLedger, PTL DEF Spec

(* Every variable of AiQuota keeps its type.                               *)
THEOREM LedgerTypeCorrect == Spec => []TypeOK
<1>1. LedgerInvariant => TypeOK
  BY DEF LedgerInvariant
<1> QED BY <1>1, LedgerInvariantHolds, PTL

(* One event per idempotency key, and every answer for a key is that one.  *)
THEOREM Idempotent == Spec => []OneEventPerKey
<1>1. LedgerInvariant => OneEventPerKey
  BY DEF LedgerInvariant
<1> QED BY <1>1, LedgerInvariantHolds, PTL

(* Two calls are never between the lock and the INSERT together.           *)
THEOREM ReservationsAreSerial ==
  Spec => [](\A c, d \in Calls :
               {call[c].pc, call[d].pc} \subseteq {"sum", "insert"} => c = d)
<1>1. LedgerInvariant =>
        \A c, d \in Calls : {call[c].pc, call[d].pc} \subseteq {"sum", "insert"} => c = d
  BY DEF LedgerInvariant, LockHeld
<1> QED BY <1>1, LedgerInvariantHolds, PTL

(* An event is settled once.                                               *)
THEOREM SettlementIsFinal == Spec => SettledOnce
<1> DEFINE Settles == \A e \in Calls :
             /\ event[e].status = "completed" =>
                  event'[e] = event[e] \/ event'[e].status = "refunded"
             /\ event[e].status = "refunded"  => event'[e] = event[e]
             /\ event[e].status = "reserved"  => event'[e].status # "absent"
<1>1. LedgerInvariant /\ [Next]_vars => [Settles]_vars
  <2> SUFFICES ASSUME LedgerInvariant, Next PROVE Settles
    OBVIOUS
  <2>0. event \in [Calls -> Event]
    BY DEF LedgerInvariant, TypeOK
  <2>1. ASSUME NEW c \in Calls, Insert(c) PROVE Settles
    <3>1. event[c].status = "absent"
      BY <2>1 DEF LedgerInvariant, UnansweredHasNothing, Insert
    <3>2. \A d \in Calls : d # c => event'[d] = event[d]
      BY <2>0, <2>1 DEF Insert
    <3> QED BY <3>1, <3>2
  <2>2. ASSUME NEW c \in Calls, NEW u \in 0..MaxUsed, Complete(c, u) PROVE Settles
    <3>1. event[c].status = "reserved" /\ event'[c].status = "completed"
          /\ \A d \in Calls : d # c => event'[d] = event[d]
      BY <2>0, <2>2 DEF Complete, Event
    <3> QED BY <3>1
  <2>3. ASSUME NEW c \in Calls, Refund(c) PROVE Settles
    <3>1. event[c].status \in {"reserved", "completed"} /\ event'[c].status = "refunded"
          /\ \A d \in Calls : d # c => event'[d] = event[d]
      BY <2>0, <2>3 DEF Refund, Event
    <3> QED BY <3>1
  <2>4. CASE UNCHANGED event
    BY <2>4
  <2>5. CASE NextMonth
    BY <2>4, <2>5 DEF NextMonth
  <2>6. ASSUME NEW c \in Calls,
               \/ \E k \in Keys, t \in 1..MaxTokens : Reserve(c, k, t)
               \/ Lookup(c) \/ LockWorkspace(c) \/ CheckLimit(c) \/ Lose(c)
        PROVE  UNCHANGED event
    BY <2>6 DEF Reserve, Lookup, LockWorkspace, CheckLimit, Lose
  <2> QED BY <2>1, <2>2, <2>3, <2>4, <2>5, <2>6 DEF Next, Step
<1> QED
  BY <1>1, LedgerInvariantHolds, PTL DEF Spec, SettledOnce
-----------------------------------------------------------------------------
(* The sum over the ledger.  MapThenSumSet is a recursive function on the  *)
(* subsets of its argument, which removes a chosen element in every call:  *)
(* what it computes is proved by induction on finite sets, here from the   *)
(* fact that a set of subsets of a finite set has a minimal member.        *)

Pick(T) == CHOOSE x \in T : TRUE

(* F is the recursive function of the sum of f, on the subsets of S.       *)
Sums(F, f, S) ==
  F = [T \in SUBSET S |-> IF T = {} THEN 0 ELSE f[Pick(T)] + F[T \ {Pick(T)}]]

Sum(f, S) == (CHOOSE F : Sums(F, f, S))[S]

LEMMA SubsetInduction ==
  ASSUME NEW S, IsFiniteSet(S), NEW P,
         \A T \in SUBSET S : (\A U \in SUBSET T : U # T => U \in P) => T \in P
  PROVE  \A T \in SUBSET S : T \in P
<1> DEFINE Bad == (SUBSET S) \ P
<1> SUFFICES ASSUME Bad # {} PROVE FALSE
  OBVIOUS
<1>1. PICK T \in Bad : \A U \in Bad : <<U, T>> \notin StrictSubsetOrdering(S)
  <2>1. IsWellFoundedOn(StrictSubsetOrdering(S), SUBSET S)
    <3>1. IsWellFoundedOn(StrictSubsetOrdering(S), FiniteSubsetsOf(S))
      BY FS_StrictSubsetOrderingWellFounded
    <3> QED BY <3>1, FS_FiniteSubsetsOfFinite
  <2>2. Bad \subseteq SUBSET S
    OBVIOUS
  <2> HIDE DEF Bad
  <2> QED BY <2>1, <2>2, WFMin
<1>2. \A U \in SUBSET T : U # T => U \in P
  BY <1>1 DEF StrictSubsetOrdering
<1> QED BY <1>1, <1>2

LEMMA Picked == ASSUME NEW T, T # {} PROVE Pick(T) \in T
BY DEF Pick

LEMMA SumsUnique ==
  ASSUME NEW f, NEW S, NEW T \in SUBSET S, IsFiniteSet(T), NEW F, NEW G, Sums(F, f, S), Sums(G, f, T)
  PROVE  \A U \in SUBSET T : F[U] = G[U]
<1> DEFINE P == {U \in SUBSET T : F[U] = G[U]}
<1>1. ASSUME NEW U \in SUBSET T, \A V \in SUBSET U : V # U => V \in P
      PROVE  U \in P
  <2>1. /\ F[U] = IF U = {} THEN 0 ELSE f[Pick(U)] + F[U \ {Pick(U)}]
        /\ G[U] = IF U = {} THEN 0 ELSE f[Pick(U)] + G[U \ {Pick(U)}]
    BY DEF Sums
  <2>2. U # {} => F[U \ {Pick(U)}] = G[U \ {Pick(U)}]
    BY <1>1, Picked
  <2> QED BY <2>1, <2>2
<1>2. \A U \in SUBSET T : U \in P
  <2> HIDE DEF P
  <2> QED BY <1>1, SubsetInduction
<1> QED BY <1>2

LEMMA SumsExist ==
  ASSUME NEW f, NEW S, IsFiniteSet(S)
  PROVE  \E F : Sums(F, f, S)
<1> DEFINE P == {T \in SUBSET S : \E F : Sums(F, f, T)}
<1>1. ASSUME NEW T \in SUBSET S, \A U \in SUBSET T : U # T => U \in P
      PROVE  T \in P
  <2> DEFINE G(U) == CHOOSE F : Sums(F, f, U)
             H    == [U \in SUBSET T |-> IF U = {} THEN 0
                                         ELSE f[Pick(U)] + G(U \ {Pick(U)})[U \ {Pick(U)}]]
  <2>1. ASSUME NEW U \in SUBSET T, U # T PROVE Sums(G(U), f, U)
    <3>1. \E F : Sums(F, f, U)
      BY <1>1, <2>1
    <3> QED BY <3>1, Zenon
  <2>2. ASSUME NEW V \in SUBSET T, V # T PROVE H[V] = G(V)[V]
    <3>1. G(V)[V] = IF V = {} THEN 0 ELSE f[Pick(V)] + G(V)[V \ {Pick(V)}]
      <4> HIDE DEF G
      <4> QED BY <2>1, <2>2 DEF Sums
    <3>2. V # {} => G(V)[V \ {Pick(V)}] = G(V \ {Pick(V)})[V \ {Pick(V)}]
      <4> SUFFICES ASSUME V # {} PROVE G(V)[V \ {Pick(V)}] = G(V \ {Pick(V)})[V \ {Pick(V)}]
        OBVIOUS
      <4> DEFINE W == V \ {Pick(V)}
      <4>1. W \in SUBSET V /\ W \in SUBSET T /\ W # T
        BY <2>2, Picked
      <4>2. Sums(G(V), f, V) /\ Sums(G(W), f, W)
        BY <2>1, <2>2, <4>1
      <4>3. IsFiniteSet(W)
        BY <4>1, FS_Subset
      <4> HIDE DEF G, W
      <4>4. \A A, B : Sums(A, f, V) /\ Sums(B, f, W) => A[W] = B[W]
        BY <4>1, <4>3, SumsUnique
      <4> QED BY <4>2, <4>4 DEF W
    <3>3. H[V] = IF V = {} THEN 0 ELSE f[Pick(V)] + G(V \ {Pick(V)})[V \ {Pick(V)}]
      OBVIOUS
    <3> HIDE DEF H, G
    <3> QED BY <3>1, <3>2, <3>3
  <2>3. Sums(H, f, T)
    <3>1. \A U \in SUBSET T : U # {} => H[U \ {Pick(U)}] = G(U \ {Pick(U)})[U \ {Pick(U)}]
      <4> HIDE DEF G, H
      <4> QED BY <2>2, Picked
    <3>2. \A U \in SUBSET T : H[U] = IF U = {} THEN 0 ELSE f[Pick(U)] + H[U \ {Pick(U)}]
      <4>1. \A U \in SUBSET T : H[U] = IF U = {} THEN 0 ELSE f[Pick(U)] + G(U \ {Pick(U)})[U \ {Pick(U)}]
        OBVIOUS
      <4> HIDE DEF G, H
      <4> QED BY <3>1, <4>1
    <3>3. H = [U \in SUBSET T |-> H[U]]
      OBVIOUS
    <3> HIDE DEF G, H
    <3> QED BY <3>2, <3>3 DEF Sums
  <2> QED BY <2>3
<1>2. \A T \in SUBSET S : T \in P
  <2> HIDE DEF P
  <2> QED BY <1>1, SubsetInduction
<1> QED BY <1>2

(* Any such function gives the sum.                                        *)
LEMMA SumIs ==
  ASSUME NEW f, NEW S, IsFiniteSet(S), NEW F, Sums(F, f, S)
  PROVE  \A T \in SUBSET S : Sum(f, T) = F[T]
<1> SUFFICES ASSUME NEW T \in SUBSET S PROVE Sum(f, T) = F[T]
  OBVIOUS
<1>0. IsFiniteSet(T)
  BY FS_Subset
<1> DEFINE G == CHOOSE H : Sums(H, f, T)
<1>1. Sums(G, f, T)
  <2>1. \E H : Sums(H, f, T)
    BY <1>0, SumsExist
  <2> QED BY <2>1, Zenon
<1>2. Sum(f, T) = G[T]
  BY DEF Sum
<1> HIDE DEF G
<1> QED BY <1>0, <1>1, <1>2, SumsUnique

LEMMA SumByPick ==
  ASSUME NEW f, NEW S, IsFiniteSet(S)
  PROVE  Sum(f, S) = IF S = {} THEN 0 ELSE f[Pick(S)] + Sum(f, S \ {Pick(S)})
<1>1. PICK F : Sums(F, f, S)
  BY SumsExist
<1>2. F[S] = IF S = {} THEN 0 ELSE f[Pick(S)] + F[S \ {Pick(S)}]
  BY <1>1 DEF Sums
<1>3. Sum(f, S) = F[S] /\ Sum(f, S \ {Pick(S)}) = F[S \ {Pick(S)}]
  BY <1>1, SumIs
<1> QED BY <1>2, <1>3

LEMMA SumNat ==
  ASSUME NEW C, NEW f \in [C -> Nat], NEW S \in SUBSET C, IsFiniteSet(S)
  PROVE  Sum(f, S) \in Nat
<1> DEFINE P == {T \in SUBSET S : Sum(f, T) \in Nat}
<1>1. ASSUME NEW T \in SUBSET S, \A U \in SUBSET T : U # T => U \in P
      PROVE  T \in P
  <2>1. T # {} => Sum(f, T \ {Pick(T)}) \in Nat /\ f[Pick(T)] \in Nat
    BY <1>1, Picked
  <2>2. Sum(f, T) = IF T = {} THEN 0 ELSE f[Pick(T)] + Sum(f, T \ {Pick(T)})
    BY SumByPick, FS_Subset
  <2> QED BY <2>1, <2>2
<1>2. \A T \in SUBSET S : T \in P
  <2> HIDE DEF P
  <2> QED BY <1>1, SubsetInduction
<1> QED BY <1>2

(* The sum does not depend on the order of the elements.                   *)
LEMMA SumAny ==
  ASSUME NEW C, NEW f \in [C -> Nat], NEW S \in SUBSET C, IsFiniteSet(S)
  PROVE  \A x \in S : Sum(f, S) = f[x] + Sum(f, S \ {x})
<1> DEFINE P == {T \in SUBSET S : \A x \in T : Sum(f, T) = f[x] + Sum(f, T \ {x})}
<1>0. \A T \in SUBSET S : IsFiniteSet(T) /\ Sum(f, T) \in Nat
  BY SumNat, FS_Subset
<1>1. ASSUME NEW T \in SUBSET S, \A U \in SUBSET T : U # T => U \in P
      PROVE  T \in P
  <2> SUFFICES ASSUME NEW x \in T PROVE Sum(f, T) = f[x] + Sum(f, T \ {x})
    OBVIOUS
  <2> DEFINE y == Pick(T)
  <2>1. y \in T
    BY Picked
  <2>2. Sum(f, T) = f[y] + Sum(f, T \ {y})
    BY <1>0, SumByPick
  <2>3. CASE x = y
    BY <2>2, <2>3
  <2>4. CASE x # y
    <3> HIDE DEF y
    <3>1. Sum(f, T \ {y}) = f[x] + Sum(f, (T \ {y}) \ {x})
      BY <1>1, <2>1, <2>4
    <3>2. Sum(f, T \ {x}) = f[y] + Sum(f, (T \ {x}) \ {y})
      BY <1>1, <2>1, <2>4
    <3>3. (T \ {y}) \ {x} = (T \ {x}) \ {y}
      OBVIOUS
    <3>4. f[x] \in Nat /\ f[y] \in Nat /\ Sum(f, (T \ {x}) \ {y}) \in Nat
      BY <1>0, <2>1
    <3>5. Sum(f, (T \ {y}) \ {x}) = Sum(f, (T \ {x}) \ {y})
      BY <3>3
    <3> QED BY <2>2, <3>1, <3>2, <3>4, <3>5
  <2> QED BY <2>3, <2>4
<1>2. \A T \in SUBSET S : T \in P
  <2> HIDE DEF P
  <2> QED BY <1>1, SubsetInduction
<1> QED BY <1>2

(* More elements, and larger ones, give a larger sum.                      *)
LEMMA SumMonotone ==
  ASSUME NEW C, NEW f \in [C -> Nat], NEW g \in [C -> Nat],
         NEW T \in SUBSET C, IsFiniteSet(T), NEW S \in SUBSET T, \A x \in S : f[x] <= g[x]
  PROVE  Sum(f, S) <= Sum(g, T)
<1> DEFINE P == {U \in SUBSET T : Sum(f, S \cap U) <= Sum(g, U)}
<1>1. ASSUME NEW U \in SUBSET T, \A V \in SUBSET U : V # U => V \in P
      PROVE  U \in P
  <2> DEFINE x == Pick(U)
             V == U \ {x}
  <2>0. \A W \in SUBSET T : IsFiniteSet(W) /\ Sum(f, W) \in Nat /\ Sum(g, W) \in Nat
    BY SumNat, FS_Subset
  <2>1. CASE U = {}
    <3>1. S \cap U = {}
      BY <2>1
    <3>2. Sum(f, {}) = 0 /\ Sum(g, {}) = 0
      BY SumByPick, FS_EmptySet
    <3> QED BY <2>1, <3>1, <3>2
  <2>2. CASE U # {}
    <3>1. x \in U
      BY <2>2, Picked
    <3>2. Sum(g, U) = g[x] + Sum(g, V) /\ Sum(f, S \cap V) <= Sum(g, V)
      BY <1>1, <2>0, <2>2, <3>1, SumByPick
    <3>3. CASE x \in S
      <4>1. (S \cap U) \ {x} = S \cap V /\ x \in S \cap U
        BY <3>1, <3>3
      <4>2. Sum(f, S \cap U) = f[x] + Sum(f, S \cap V)
        <5>1. S \cap U \in SUBSET C /\ IsFiniteSet(S \cap U)
          BY <2>0
        <5> HIDE DEF x, V
        <5> QED BY <4>1, <5>1, SumAny
      <4>3. f[x] <= g[x] /\ f[x] \in Nat /\ g[x] \in Nat
        BY <3>3
      <4>4. Sum(f, S \cap V) \in Nat /\ Sum(g, V) \in Nat
        BY <2>0
      <4> HIDE DEF x, V
      <4> QED BY <3>2, <4>2, <4>3, <4>4
    <3>4. CASE x \notin S
      <4>1. S \cap U = S \cap V
        BY <3>4
      <4>2. g[x] \in Nat /\ Sum(f, S \cap V) \in Nat /\ Sum(g, V) \in Nat
        BY <2>0, <3>1
      <4> HIDE DEF x, V
      <4> QED BY <3>2, <4>1, <4>2
    <3> QED BY <3>3, <3>4
  <2> QED BY <2>1, <2>2
<1>2. \A U \in SUBSET T : U \in P
  <2> HIDE DEF P
  <2> QED BY <1>1, SubsetInduction
<1>3. S \cap T = S
  OBVIOUS
<1> QED BY <1>2, <1>3
-----------------------------------------------------------------------------
(* The limit of the month.  The events are finitely many at any time,      *)
(* whatever Calls is; the call that is about to insert has checked that    *)
(* there is room for its tokens, and, as it holds the lock, no other call  *)
(* inserts before it.  complete may record more than was reserved, which   *)
(* is why Granted, not Charge, is what stays below the limit.              *)

GrantedNow == [e \in Calls |-> Granted(e)]
ChargedNow == [e \in Calls |-> Charge(e)]

OfMonth(m)    == {e \in Calls : event[e].month = m}
SinceMonth(m) == {e \in Calls : event[e].month >= m}

(* An event that does not exist has no month, a call under way has one.    *)
MonthsStamped ==
  /\ month # 0
  /\ \A c \in Calls : call[c].pc # "idle" => call[c].month # 0
  /\ \A e \in Calls : event[e].status = "absent" => event[e].month = 0

RoomChecked ==
  \A c \in Calls : call[c].pc = "insert" =>
    Sum(GrantedNow, OfMonth(call[c].month)) + call[c].tokens <= Limit

MonthsWithinLimit == \A m \in Nat \ {0} : Sum(GrantedNow, OfMonth(m)) <= Limit

QuotaInvariant ==
  /\ LedgerInvariant
  /\ IsFiniteSet(Existing)
  /\ MonthsStamped
  /\ RoomChecked
  /\ MonthsWithinLimit

LEMMA AmountsTyped ==
  TypeOK => /\ GrantedNow \in [Calls -> Nat] /\ ChargedNow \in [Calls -> Nat]
            /\ \A e \in Calls : GrantedNow[e] <= ChargedNow[e]
<1> SUFFICES ASSUME TypeOK, NEW e \in Calls
             PROVE  Granted(e) \in Nat /\ Charge(e) \in Nat /\ Granted(e) <= Charge(e)
  BY DEF GrantedNow, ChargedNow
<1>1. event[e] \in Event
  BY DEF TypeOK
<1>2. /\ event[e].status \in {"absent", "reserved", "completed", "refunded"}
      /\ event[e].reserved \in Nat /\ event[e].used \in Nat
  BY <1>1 DEF Event, Statuses
<1> QED BY <1>2 DEF Granted, Charge

LEMMA MonthsFinite ==
  QuotaInvariant => \A m \in Nat \ {0} : /\ IsFiniteSet(OfMonth(m)) /\ IsFiniteSet(SinceMonth(m))
                                         /\ OfMonth(m) \subseteq SinceMonth(m)
<1> SUFFICES ASSUME QuotaInvariant, NEW m \in Nat \ {0}
             PROVE  /\ IsFiniteSet(OfMonth(m)) /\ IsFiniteSet(SinceMonth(m))
                    /\ OfMonth(m) \subseteq SinceMonth(m)
  OBVIOUS
<1>1. \A e \in Calls : event[e].month \in Nat
  BY DEF QuotaInvariant, LedgerInvariant, TypeOK, Event
<1>2. OfMonth(m) \subseteq SinceMonth(m)
  BY <1>1 DEF OfMonth, SinceMonth
<1>3. SinceMonth(m) \subseteq Existing
  BY <1>1 DEF QuotaInvariant, MonthsStamped, SinceMonth, Existing
<1> QED
  BY <1>2, <1>3, FS_Subset DEF QuotaInvariant

(* The SUM of reserve_ai_usage, and the sum of WithinLimit.                *)
LEMMA UsageIsSum ==
  ASSUME NEW S \in SUBSET Calls, IsFiniteSet(S)
  PROVE  MapThenSumSet(Charge, S) = Sum(ChargedNow, S)
<1> DEFINE F == CHOOSE F : F = [T \in SUBSET S |-> IF T = {} THEN 0 ELSE Charge(Pick(T)) + F[T \ {Pick(T)}]]
<1>1. MapThenSumSet(Charge, S) = F[S]
  BY Zenon DEF MapThenSumSet, MapThenFoldSet, Pick
<1>2. \A T \in SUBSET S : T # {} => ChargedNow[Pick(T)] = Charge(Pick(T))
  BY Picked DEF ChargedNow
<1>3. \A G : Sums(G, ChargedNow, S) <=>
             G = [T \in SUBSET S |-> IF T = {} THEN 0 ELSE Charge(Pick(T)) + G[T \ {Pick(T)}]]
  BY <1>2 DEF Sums
<1>4. Sums(F, ChargedNow, S)
  <2>1. \E G : G = [T \in SUBSET S |-> IF T = {} THEN 0 ELSE Charge(Pick(T)) + G[T \ {Pick(T)}]]
    BY <1>3, SumsExist
  <2>2. F = [T \in SUBSET S |-> IF T = {} THEN 0 ELSE Charge(Pick(T)) + F[T \ {Pick(T)}]]
    BY <2>1, Zenon
  <2> HIDE DEF F
  <2> QED BY <1>3, <2>2
<1> HIDE DEF F
<1> QED BY <1>1, <1>4, SumIs

LEMMA GrantedIsSum ==
  ASSUME NEW S \in SUBSET Calls, IsFiniteSet(S)
  PROVE  MapThenSumSet(Granted, S) = Sum(GrantedNow, S)
<1> DEFINE F == CHOOSE F : F = [T \in SUBSET S |-> IF T = {} THEN 0 ELSE Granted(Pick(T)) + F[T \ {Pick(T)}]]
<1>1. MapThenSumSet(Granted, S) = F[S]
  BY Zenon DEF MapThenSumSet, MapThenFoldSet, Pick
<1>2. \A T \in SUBSET S : T # {} => GrantedNow[Pick(T)] = Granted(Pick(T))
  BY Picked DEF GrantedNow
<1>3. \A G : Sums(G, GrantedNow, S) <=>
             G = [T \in SUBSET S |-> IF T = {} THEN 0 ELSE Granted(Pick(T)) + G[T \ {Pick(T)}]]
  BY <1>2 DEF Sums
<1>4. Sums(F, GrantedNow, S)
  <2>1. \E G : G = [T \in SUBSET S |-> IF T = {} THEN 0 ELSE Granted(Pick(T)) + G[T \ {Pick(T)}]]
    BY <1>3, SumsExist
  <2>2. F = [T \in SUBSET S |-> IF T = {} THEN 0 ELSE Granted(Pick(T)) + F[T \ {Pick(T)}]]
    BY <2>1, Zenon
  <2> HIDE DEF F
  <2> QED BY <1>3, <2>2
<1> HIDE DEF F
<1> QED BY <1>1, <1>4, SumIs
LEMMA InitQuota == Init => QuotaInvariant
<1> SUFFICES ASSUME Init PROVE QuotaInvariant
  OBVIOUS
<1>1. LedgerInvariant
  BY InitLedger
<1>2. MonthsStamped /\ RoomChecked /\ Existing = {} /\ \A m \in Nat \ {0} : OfMonth(m) = {}
  BY DEF Init, MonthsStamped, RoomChecked, Existing, OfMonth
<1>3. Sum(GrantedNow, {}) = 0 /\ IsFiniteSet({})
  BY SumByPick, FS_EmptySet
<1> QED
  BY <1>1, <1>2, <1>3, AiQuotaAssumption DEF QuotaInvariant, MonthsWithinLimit

(* A step that adds no event and raises no amount keeps every month within *)
(* the limit; the calls about to insert must still have room.              *)
LEMMA NoNewEvent ==
  ASSUME QuotaInvariant, LedgerInvariant', MonthsStamped', Existing' = Existing,
         \A e \in Calls : event'[e].month = event[e].month /\ GrantedNow'[e] <= GrantedNow[e],
         \A c \in Calls : call'[c].pc = "insert" =>
           Sum(GrantedNow, OfMonth(call'[c].month)) + call'[c].tokens <= Limit
  PROVE  QuotaInvariant'
<1>1. /\ GrantedNow \in [Calls -> Nat] /\ GrantedNow' \in [Calls -> Nat]
  <2>1. (TypeOK => GrantedNow \in [Calls -> Nat])'
    BY AmountsTyped, PTL
  <2> QED BY <2>1, AmountsTyped DEF QuotaInvariant, LedgerInvariant
<1>2. ASSUME NEW m \in Nat \ {0}
      PROVE  /\ Sum(GrantedNow, OfMonth(m))' <= Sum(GrantedNow, OfMonth(m))
             /\ Sum(GrantedNow, OfMonth(m))' \in Nat /\ Sum(GrantedNow, OfMonth(m)) \in Nat
  <2>1. OfMonth(m)' = OfMonth(m) /\ OfMonth(m) \in SUBSET Calls /\ IsFiniteSet(OfMonth(m))
    BY MonthsFinite DEF OfMonth
  <2>2. Sum(GrantedNow', OfMonth(m)) <= Sum(GrantedNow, OfMonth(m))
    BY <1>1, <2>1, SumMonotone
  <2>3. Sum(GrantedNow', OfMonth(m)) \in Nat /\ Sum(GrantedNow, OfMonth(m)) \in Nat
    BY <1>1, <2>1, SumNat
  <2> QED BY <2>1, <2>2, <2>3
<1>3. MonthsWithinLimit'
  BY <1>2, AiQuotaAssumption DEF QuotaInvariant, MonthsWithinLimit
<1>4. RoomChecked'
  <2> SUFFICES ASSUME NEW c \in Calls, call'[c].pc = "insert"
               PROVE  Sum(GrantedNow, OfMonth(call[c].month))' + call'[c].tokens <= Limit
    BY DEF RoomChecked
  <2>1. call'[c].month \in Nat \ {0} /\ call'[c].tokens \in Nat
    BY DEF MonthsStamped, LedgerInvariant, TypeOK, Call
  <2> QED BY <1>2, <2>1, AiQuotaAssumption
<1> QED BY <1>3, <1>4 DEF QuotaInvariant

(* The steps of a call before its INSERT, and the month.                   *)
LEMMA CallStep ==
  ASSUME QuotaInvariant, [Next]_vars, UNCHANGED event
  PROVE  QuotaInvariant'
<1>0. LedgerInvariant' /\ call \in [Calls -> Call]
  BY LedgerStep DEF QuotaInvariant, LedgerInvariant, TypeOK
<1>1. Existing' = Existing /\ GrantedNow' = GrantedNow
  BY DEF Existing, GrantedNow, Granted
<1>2. \A e \in Calls : GrantedNow[e] \in Nat
  BY AmountsTyped DEF QuotaInvariant, LedgerInvariant
<1>3. \A e \in Calls : event[e].status = "absent" => event[e].month = 0
  BY DEF QuotaInvariant, MonthsStamped
<1> DEFINE Stamped == \A d \in Calls : call'[d].pc # "idle" => call'[d].month # 0
           Room    == \A d \in Calls : call'[d].pc = "insert" =>
                        Sum(GrantedNow, OfMonth(call'[d].month)) + call'[d].tokens <= Limit
<1>3a. /\ \A d \in Calls : call[d].pc # "idle" => call[d].month # 0
       /\ \A d \in Calls : call[d].pc = "insert" =>
          Sum(GrantedNow, OfMonth(call[d].month)) + call[d].tokens <= Limit
  BY DEF QuotaInvariant, MonthsStamped, RoomChecked
<1>4. ASSUME UNCHANGED call PROVE Stamped /\ Room
  BY <1>3a, <1>4
<1>5. ASSUME NEW c \in Calls, NEW step \in Steps, GoTo(c, step), call[c].pc # "idle",
             step = "insert" => Sum(GrantedNow, OfMonth(call[c].month)) + call[c].tokens <= Limit
      PROVE  Stamped /\ Room
  <2>1. \A d \in Calls : /\ call'[d].month = call[d].month /\ call'[d].tokens = call[d].tokens
                         /\ call'[d].pc = IF d = c THEN step ELSE call[d].pc
    BY <1>0, <1>5 DEF GoTo, Call
  <2> QED BY <1>3a, <1>5, <2>1
<1>6. ASSUME NEW c \in Calls, NEW k \in Keys, NEW t \in 1..MaxTokens, Reserve(c, k, t)
      PROVE  Stamped /\ Room
  <2>1. /\ call'[c].pc = "lookup" /\ call'[c].month = month /\ month # 0
        /\ \A d \in Calls : d # c => call'[d] = call[d]
    BY <1>0, <1>6 DEF Reserve, QuotaInvariant, MonthsStamped
  <2> QED BY <1>3a, <2>1
<1>7. ASSUME NEW c \in Calls, CheckLimit(c) PROVE Stamped /\ Room
  <2>1. CASE GoTo(c, "refused")
    BY <1>5, <1>7, <2>1, StepsNamed DEF CheckLimit
  <2>2. CASE GoTo(c, "insert") /\ ~(UsageSince(call[c].month) + call[c].tokens > Limit)
    <3> DEFINE m == call[c].month
    <3>1. m \in Nat \ {0} /\ call[c].tokens \in Nat /\ call[c].pc = "sum"
      BY <1>0, <1>7 DEF Call, QuotaInvariant, MonthsStamped, CheckLimit
    <3>2. /\ OfMonth(m) \subseteq SinceMonth(m) /\ SinceMonth(m) \in SUBSET Calls
          /\ IsFiniteSet(SinceMonth(m)) /\ IsFiniteSet(OfMonth(m))
      BY <3>1, MonthsFinite DEF SinceMonth
    <3>3. /\ GrantedNow \in [Calls -> Nat] /\ ChargedNow \in [Calls -> Nat]
          /\ \A e \in Calls : GrantedNow[e] <= ChargedNow[e]
      BY AmountsTyped DEF QuotaInvariant, LedgerInvariant
    <3>4. UsageSince(m) = Sum(ChargedNow, SinceMonth(m))
      BY <3>2, UsageIsSum DEF UsageSince, SinceMonth
    <3>5. Sum(GrantedNow, OfMonth(m)) <= Sum(ChargedNow, SinceMonth(m))
      BY <3>2, <3>3, SumMonotone
    <3>6. Sum(GrantedNow, OfMonth(m)) \in Nat /\ Sum(ChargedNow, SinceMonth(m)) \in Nat
      BY <3>2, <3>3, SumNat
    <3>7. Sum(GrantedNow, OfMonth(m)) + call[c].tokens <= Limit
      BY <2>2, <3>1, <3>4, <3>5, <3>6, AiQuotaAssumption
    <3> QED BY <1>5, <2>2, <3>1, <3>7, StepsNamed
  <2> QED BY <1>7, <2>1, <2>2 DEF CheckLimit
<1>8. Stamped /\ Room
  <2>1. ASSUME NEW c \in Calls, Lookup(c) \/ LockWorkspace(c) \/ Insert(c) \/ Lose(c) PROVE Stamped /\ Room
    <3>1. call[c].pc # "idle" /\ \E step \in {"lock", "sum", "answered", "refused"} : GoTo(c, step)
      BY <2>1 DEF Lookup, LockWorkspace, Insert, Lose
    <3> QED BY <1>5, <3>1, StepsNamed
  <2>2. ASSUME NEW c \in Calls, (\E u \in 0..MaxUsed : Complete(c, u)) \/ Refund(c) PROVE UNCHANGED call
    BY <2>2 DEF Complete, Refund
  <2> QED BY <1>4, <1>6, <1>7, <2>1, <2>2 DEF Next, NextMonth, Step, vars
<1>9. MonthsStamped'
  <2>0. month \in Nat /\ month # 0
    BY DEF QuotaInvariant, LedgerInvariant, TypeOK, MonthsStamped
  <2>1. month' # 0
    <3>1. CASE NextMonth
      BY <2>0, <3>1 DEF NextMonth
    <3>2. CASE UNCHANGED month
      BY <2>0, <3>2
    <3>3. NextMonth \/ UNCHANGED month
      BY DEF Next, Reserve, Step, Lookup, LockWorkspace, CheckLimit, Insert, Lose, Complete, Refund, vars
    <3> QED BY <3>1, <3>2, <3>3
  <2> QED BY <1>3, <1>8, <2>1 DEF MonthsStamped
<1> QED BY <1>0, <1>1, <1>2, <1>8, <1>9, NoNewEvent

LEMMA SettleStep ==
  ASSUME QuotaInvariant, [Next]_vars, NEW e \in Calls, (\E u \in 0..MaxUsed : Complete(e, u)) \/ Refund(e)
  PROVE  QuotaInvariant'
<1>0. LedgerInvariant' /\ event \in [Calls -> Event] /\ UNCHANGED call
  BY LedgerStep DEF QuotaInvariant, LedgerInvariant, TypeOK, Complete, Refund
<1>1. /\ event'[e].month = event[e].month /\ event[e].status \in {"reserved", "completed"}
      /\ event'[e].status # "absent" /\ Granted(e)' <= Granted(e)
      /\ \A f \in Calls : f # e => event'[f] = event[f]
  <2>0. event[e] \in Event
    BY <1>0
  <2>1. ASSUME NEW u \in 0..MaxUsed, Complete(e, u) PROVE <1>1
    <3>1. /\ event[e].status = "reserved" /\ event'[e].status = "completed" /\ event'[e].used = u
          /\ event'[e].reserved = event[e].reserved /\ event'[e].month = event[e].month
          /\ \A f \in Calls : f # e => event'[f] = event[f]
      BY <1>0, <2>1 DEF Complete, Event
    <3>2. u \in Nat /\ event[e].reserved \in Nat
      BY <2>0, AiQuotaAssumption DEF Event
    <3>3. Granted(e)' <= Granted(e)
      BY <3>1, <3>2 DEF Granted
    <3> QED BY <3>1, <3>3
  <2>2. CASE Refund(e)
    <3>1. /\ event[e].status \in {"reserved", "completed"} /\ event'[e].status = "refunded"
          /\ event'[e].month = event[e].month
          /\ \A f \in Calls : f # e => event'[f] = event[f]
      BY <1>0, <2>2 DEF Refund, Event
    <3>2. event[e].used \in Nat /\ event[e].reserved \in Nat
      BY <2>0 DEF Event
    <3>3. Granted(e)' <= Granted(e)
      BY <3>1, <3>2 DEF Granted
    <3> QED BY <3>1, <3>3
  <2> QED BY <2>1, <2>2
<1>2. Existing' = Existing
  BY <1>1 DEF Existing
<1>3. \A f \in Calls : event'[f].month = event[f].month /\ GrantedNow'[f] <= GrantedNow[f]
  <2> SUFFICES ASSUME NEW f \in Calls PROVE event'[f].month = event[f].month /\ Granted(f)' <= Granted(f)
    BY DEF GrantedNow
  <2>1. f # e => Granted(f)' = Granted(f) /\ Granted(f) \in Nat
    BY <1>1, AmountsTyped DEF Granted, GrantedNow, QuotaInvariant, LedgerInvariant
  <2> QED BY <1>1, <2>1
<1>4. MonthsStamped'
  <2>1. UNCHANGED month
    BY DEF Complete, Refund
  <2> QED BY <1>0, <1>1, <2>1 DEF QuotaInvariant, MonthsStamped
<1> QED
  BY <1>0, <1>2, <1>3, <1>4, NoNewEvent DEF QuotaInvariant, RoomChecked

(* The INSERT uses the room that was checked, and nobody else has any.     *)
LEMMA ReservedStep ==
  ASSUME QuotaInvariant, [Next]_vars, NEW c \in Calls, Insert(c), event' # event
  PROVE  QuotaInvariant'
<1> DEFINE m == call[c].month
<1>0. /\ LedgerInvariant' /\ event \in [Calls -> Event] /\ call \in [Calls -> Call]
      /\ call[c].pc = "insert" /\ event[c].status = "absent" /\ event[c].month = 0
      /\ call[c].tokens \in Nat /\ m \in Nat \ {0}
  BY LedgerStep DEF QuotaInvariant, LedgerInvariant, UnansweredHasNothing, MonthsStamped, TypeOK, Insert, Call
<1>1. /\ GoTo(c, "answered")
      /\ event' = [event EXCEPT ![c] = [status |-> "reserved", key |-> call[c].key,
                                        reserved |-> call[c].tokens, used |-> 0, month |-> m]]
  BY DEF Insert
<1>2. /\ event'[c].status = "reserved" /\ event'[c].month = m /\ event'[c].reserved = call[c].tokens
      /\ \A e \in Calls : e # c => event'[e] = event[e]
  BY <1>0, <1>1
<1>3. /\ \A d \in Calls : call'[d].month = call[d].month
      /\ \A d \in Calls : call'[d].pc = IF d = c THEN "answered" ELSE call[d].pc
  BY <1>0, <1>1 DEF GoTo, Call
<1>4. IsFiniteSet(Existing')
  <2>1. Existing' = Existing \cup {c}
    BY <1>0, <1>2 DEF Existing
  <2> QED BY <2>1, FS_AddElement DEF QuotaInvariant
<1>5. MonthsStamped'
  BY <1>0, <1>2, <1>3 DEF QuotaInvariant, MonthsStamped, Insert
<1>6. RoomChecked'
  <2>1. \A d \in Calls : call[d].pc = "insert" => d = c
    BY <1>0 DEF QuotaInvariant, LedgerInvariant, LockHeld
  <2> QED BY <1>3, <2>1 DEF RoomChecked
<1>7. /\ GrantedNow \in [Calls -> Nat] /\ GrantedNow' \in [Calls -> Nat]
      /\ GrantedNow'[c] = call[c].tokens /\ \A e \in Calls : e # c => GrantedNow'[e] = GrantedNow[e]
  <2>1. (TypeOK => GrantedNow \in [Calls -> Nat])'
    BY AmountsTyped, PTL
  <2>2. Granted(c)' = call[c].tokens /\ \A e \in Calls : e # c => Granted(e)' = Granted(e)
    BY <1>2 DEF Granted
  <2> QED BY <1>0, <2>1, <2>2, AmountsTyped DEF QuotaInvariant, LedgerInvariant, GrantedNow
<1>8. ASSUME NEW k \in Nat \ {0} PROVE Sum(GrantedNow, OfMonth(k))' <= Limit
  <2> DEFINE S == OfMonth(k)
  <2>1. /\ S \in SUBSET Calls /\ IsFiniteSet(S) /\ c \notin S /\ Sum(GrantedNow, S) <= Limit
    BY <1>0, MonthsFinite DEF OfMonth, QuotaInvariant, MonthsWithinLimit
  <2>2. OfMonth(k)' = IF k = m THEN S \cup {c} ELSE S
    BY <1>0, <1>2 DEF OfMonth
  <2>3. Sum(GrantedNow', S) <= Sum(GrantedNow, S) /\ Sum(GrantedNow', S) \in Nat /\ Sum(GrantedNow, S) \in Nat
    <3>1. \A e \in S : GrantedNow'[e] <= GrantedNow[e]
      BY <1>7, <2>1
    <3> HIDE DEF S
    <3> QED BY <1>7, <2>1, <3>1, SumMonotone, SumNat
  <2>4. CASE k # m
    BY <2>1, <2>2, <2>3, <2>4, AiQuotaAssumption
  <2>5. CASE k = m
    <3>1. Sum(GrantedNow', S \cup {c}) = call[c].tokens + Sum(GrantedNow', S)
      <4>1. S \cup {c} \in SUBSET Calls /\ IsFiniteSet(S \cup {c}) /\ (S \cup {c}) \ {c} = S
        BY <2>1, FS_AddElement
      <4> HIDE DEF S
      <4>2. Sum(GrantedNow', S \cup {c}) = GrantedNow'[c] + Sum(GrantedNow', (S \cup {c}) \ {c})
        BY <1>7, <4>1, SumAny
      <4> QED BY <1>7, <4>1, <4>2
    <3>2. Sum(GrantedNow, S) + call[c].tokens <= Limit
      BY <1>0, <2>5 DEF QuotaInvariant, RoomChecked
    <3> QED BY <1>0, <2>2, <2>3, <2>5, <3>1, <3>2, AiQuotaAssumption
  <2> QED BY <2>4, <2>5
<1> QED
  BY <1>0, <1>4, <1>5, <1>6, <1>8 DEF QuotaInvariant, MonthsWithinLimit

LEMMA QuotaStep == QuotaInvariant /\ [Next]_vars => QuotaInvariant'
<1> SUFFICES ASSUME QuotaInvariant, [Next]_vars PROVE QuotaInvariant'
  OBVIOUS
<1>1. CASE UNCHANGED event
  BY <1>1, CallStep
<1>2. ASSUME NEW c \in Calls, Lookup(c) \/ LockWorkspace(c) \/ CheckLimit(c) \/ Lose(c)
                              \/ \E k \in Keys, t \in 1..MaxTokens : Reserve(c, k, t)
      PROVE  UNCHANGED event
  BY <1>2 DEF Lookup, LockWorkspace, CheckLimit, Lose, Reserve
<1> QED
  BY <1>1, <1>2, SettleStep, ReservedStep DEF Next, NextMonth, Step, vars

LEMMA QuotaInvariantHolds == Spec => []QuotaInvariant
BY InitQuota, QuotaStep, PTL DEF Spec

(* What is granted of a month stays within its limit, however the calls of *)
(* reserve interleave and the events are completed and refunded.           *)
THEOREM QuotaIsKept == Spec => []WithinLimit
<1>1. QuotaInvariant => WithinLimit
  <2> SUFFICES ASSUME QuotaInvariant, NEW m \in 1..month
               PROVE  MapThenSumSet(Granted, {e \in Calls : event[e].month = m}) <= Limit
    BY DEF WithinLimit
  <2>1. m \in Nat \ {0}
    BY DEF QuotaInvariant, LedgerInvariant, TypeOK
  <2>2. MapThenSumSet(Granted, OfMonth(m)) = Sum(GrantedNow, OfMonth(m))
    BY <2>1, MonthsFinite, GrantedIsSum DEF OfMonth
  <2> QED BY <2>1, <2>2 DEF QuotaInvariant, MonthsWithinLimit, OfMonth
<1> QED BY <1>1, QuotaInvariantHolds, PTL

-----------------------------------------------------------------------------
(* The ledger as its callers see it (module TokenLedger).                  *)

(* The tokens the abstract ledger counts are those granted here.           *)
LEMMA LedgerCounts ==
  ASSUME NEW m \in Nat, IsFiniteSet(OfMonth(m))
  PROVE  Ledger!GrantedIn(m) = Sum(GrantedNow, OfMonth(m))
<1> DEFINE S == OfMonth(m)
           F == CHOOSE F : F = [T \in SUBSET S |-> IF T = {} THEN 0
                                                   ELSE Ledger!TokensOf(Pick(T)) + F[T \ {Pick(T)}]]
<1>1. Ledger!GrantedIn(m) = F[S]
  <2>1. {g \in Calls : Grants[g].month = m} = S
    BY DEF Grants, OfMonth
  <2> QED BY <2>1, Zenon DEF Ledger!MapThenSumSet, Ledger!MapThenFoldSet, Pick, Ledger!GrantedIn
<1>2. \A T \in SUBSET S : T # {} => GrantedNow[Pick(T)] = Ledger!TokensOf(Pick(T))
  BY Picked DEF GrantedNow, Grants, Ledger!TokensOf, OfMonth
<1>3. \A G : Sums(G, GrantedNow, S) <=>
             G = [T \in SUBSET S |-> IF T = {} THEN 0 ELSE Ledger!TokensOf(Pick(T)) + G[T \ {Pick(T)}]]
  BY <1>2 DEF Sums
<1>4. Sums(F, GrantedNow, S)
  <2>1. \E G : G = [T \in SUBSET S |-> IF T = {} THEN 0 ELSE Ledger!TokensOf(Pick(T)) + G[T \ {Pick(T)}]]
    BY <1>3, SumsExist
  <2>2. F = [T \in SUBSET S |-> IF T = {} THEN 0 ELSE Ledger!TokensOf(Pick(T)) + F[T \ {Pick(T)}]]
    BY <2>1, Zenon
  <2> HIDE DEF F
  <2> QED BY <1>3, <2>2
<1> HIDE DEF F
<1> QED BY <1>1, <1>4, SumIs

LEMMA InitImplementsLedger == Init => Ledger!Init
<1> SUFFICES ASSUME Init PROVE Ledger!Init
  OBVIOUS
<1>1. Asked = [c \in Calls |-> [key |-> NoKey, tokens |-> 0, month |-> 0]]
  BY DEF Init, Asked
<1>2. Grants = [c \in Calls |-> [status |-> "absent", key |-> NoKey, tokens |-> 0, month |-> 0]]
  BY DEF Init, Grants, Granted
<1> QED BY <1>1, <1>2 DEF Init, Ledger!Init

(* A call that moves on has asked what it asked before.                    *)
LEMMA AskedStays ==
  ASSUME LedgerInvariant, NEW c \in Calls, NEW step \in Steps, GoTo(c, step)
  PROVE  Asked' = Asked
<1>1. call \in [Calls -> Call]
  BY DEF LedgerInvariant, TypeOK
<1>2. \A d \in Calls : /\ call'[d].key = call[d].key /\ call'[d].tokens = call[d].tokens
                       /\ call'[d].month = call[d].month
  BY <1>1 DEF GoTo, Call
<1> QED BY <1>2 DEF Asked

(* A call past its beginning and not answered is waiting.                  *)
LEMMA UnansweredWaits ==
  ASSUME LedgerInvariant, NEW c \in Calls, call[c].pc \notin {"idle", "answered"}
  PROVE  Ledger!Waiting(c)
BY AiQuotaAssumption DEF LedgerInvariant, TypeOK, UnansweredHasNothing, Ledger!Waiting, Asked

LEMMA GrantsStay ==
  ASSUME UNCHANGED event
  PROVE  Grants' = Grants
BY DEF Grants, Granted

LEMMA InsertGrants ==
  ASSUME QuotaInvariant, NEW c \in Calls, Insert(c)
  PROVE  [Ledger!Next]_(Ledger!ledgerVars)
<1>0. /\ LedgerInvariant /\ event \in [Calls -> Event] /\ call \in [Calls -> Call]
      /\ call[c].pc = "insert" /\ month' = month
  BY DEF QuotaInvariant, LedgerInvariant, TypeOK, Insert
<1>1. Asked' = Asked
  BY <1>0, AskedStays DEF Insert, Steps
<1>2. CASE WithKey(call[c].key) # {}
  <2>1. Grants' = Grants /\ answer' = answer
    BY <1>2, GrantsStay DEF Insert
  <2> QED BY <1>0, <1>1, <2>1 DEF Ledger!ledgerVars
<1>3. CASE WithKey(call[c].key) = {}
  <2>1. /\ event' = [event EXCEPT ![c] = [status |-> "reserved", key |-> call[c].key,
                                          reserved |-> call[c].tokens, used |-> 0,
                                          month |-> call[c].month]]
        /\ answer' = [answer EXCEPT ![c] = c]
    BY <1>3 DEF Insert
  <2>2. Ledger!Waiting(c)
    BY <1>0, UnansweredWaits
  <2>3. \A g \in Ledger!Made : Grants[g].key # Asked[c].key
    BY <1>3 DEF Ledger!Made, Grants, Asked, WithKey, Existing
  <2>4. Ledger!GrantedIn(Asked[c].month) + Asked[c].tokens <= Limit
    <3>1. call[c].month \in Nat \ {0}
      BY <1>0 DEF QuotaInvariant, MonthsStamped, Call
    <3>2. Ledger!GrantedIn(call[c].month) = Sum(GrantedNow, OfMonth(call[c].month))
      BY <3>1, MonthsFinite, LedgerCounts
    <3>3. Asked[c].month = call[c].month /\ Asked[c].tokens = call[c].tokens
      BY DEF Asked
    <3> QED BY <1>0, <3>2, <3>3 DEF QuotaInvariant, RoomChecked
  <2>5. Grants' = [Grants EXCEPT ![c] = [status |-> "reserved", key |-> Asked[c].key,
                                         tokens |-> Asked[c].tokens, month |-> Asked[c].month]]
    <3>1. \A g \in Calls : g # c => event'[g] = event[g] /\ Granted(g)' = Granted(g)
      BY <1>0, <2>1 DEF Granted
    <3>2. /\ event'[c].status = "reserved" /\ event'[c].key = call[c].key
          /\ event'[c].month = call[c].month /\ Granted(c)' = call[c].tokens
      BY <1>0, <2>1 DEF Granted
    <3>3. \A g \in Calls :
            Grants'[g] = [status |-> event'[g].status, key |-> event'[g].key,
                          tokens |-> Granted(g)', month |-> event'[g].month]
      BY DEF Grants
    <3> QED BY <3>1, <3>2, <3>3 DEF Grants, Asked
  <2>6. Ledger!Grant(c)
    BY <1>0, <1>1, <2>1, <2>2, <2>3, <2>4, <2>5 DEF Ledger!Grant
  <2> QED BY <2>6 DEF Ledger!Next
<1> QED BY <1>2, <1>3

LEMMA LookupRepeats ==
  ASSUME QuotaInvariant, NEW c \in Calls, Lookup(c)
  PROVE  [Ledger!Next]_(Ledger!ledgerVars)
<1>0. /\ LedgerInvariant /\ call[c].pc = "lookup" /\ month' = month /\ Grants' = Grants
  BY GrantsStay DEF QuotaInvariant, Lookup
<1>1. Asked' = Asked
  BY <1>0, AskedStays DEF Lookup, Steps
<1>2. CASE WithKey(call[c].key) # {}
  <2>1. PICK e \in WithKey(call[c].key) : answer' = [answer EXCEPT ![c] = e]
    BY <1>2 DEF Lookup
  <2>2. e \in Ledger!Made /\ Grants[e].key = Asked[c].key
    BY DEF WithKey, Existing, Ledger!Made, Grants, Asked
  <2>3. Ledger!Repeat(c)
    BY <1>0, <1>1, <2>1, <2>2, UnansweredWaits DEF Ledger!Repeat
  <2> QED BY <2>3 DEF Ledger!Next
<1>3. CASE WithKey(call[c].key) = {}
  BY <1>0, <1>1, <1>3 DEF Lookup, Ledger!ledgerVars
<1> QED BY <1>2, <1>3

LEMMA SettlementSettles ==
  ASSUME QuotaInvariant, NEW e \in Calls, (\E u \in 0..MaxUsed : Complete(e, u)) \/ Refund(e)
  PROVE  [Ledger!Next]_(Ledger!ledgerVars)
<1>0. /\ event \in [Calls -> Event] /\ event[e] \in Event
      /\ UNCHANGED <<month, call, answer>> /\ Asked' = Asked
  BY DEF QuotaInvariant, LedgerInvariant, TypeOK, Complete, Refund, Asked
<1>1. ASSUME NEW g \in Calls
      PROVE  Grants'[g] = [status |-> event'[g].status, key |-> event'[g].key,
                           tokens |-> Granted(g)', month |-> event'[g].month]
  BY DEF Grants
<1>2. ASSUME NEW u \in 0..MaxUsed, Complete(e, u)
      PROVE  Ledger!Settle(e)
  <2>1. /\ event[e].status = "reserved" /\ event'[e].status = "completed" /\ event'[e].used = u
        /\ event'[e].reserved = event[e].reserved /\ event'[e].month = event[e].month
        /\ event'[e].key = event[e].key
        /\ \A g \in Calls : g # e => event'[g] = event[g] /\ Granted(g)' = Granted(g)
    BY <1>0, <1>2 DEF Complete, Event, Granted
  <2>2. u \in Nat /\ event[e].reserved \in Nat
    BY <1>0, AiQuotaAssumption DEF Event
  <2>3. Granted(e) = event[e].reserved /\ Granted(e)' \in 0..Granted(e)
    BY <2>1, <2>2 DEF Granted
  <2>4. Grants[e].status = "reserved" /\ Grants[e].tokens = Granted(e)
    BY <2>1 DEF Grants
  <2>5. Grants' = [Grants EXCEPT ![e].status = "completed", ![e].tokens = Granted(e)']
    BY <1>1, <2>1 DEF Grants
  <2> QED BY <1>0, <2>3, <2>4, <2>5 DEF Ledger!Settle
<1>3. ASSUME Refund(e)
      PROVE  Ledger!GiveBack(e)
  <2>1. /\ event[e].status \in {"reserved", "completed"} /\ event'[e].status = "refunded"
        /\ event'[e].month = event[e].month /\ event'[e].key = event[e].key
        /\ \A g \in Calls : g # e => event'[g] = event[g] /\ Granted(g)' = Granted(g)
    BY <1>0, <1>3 DEF Refund, Event, Granted
  <2>2. Granted(e)' = 0
    BY <2>1 DEF Granted
  <2>3. Grants[e].status \in {"reserved", "completed"}
    BY <2>1 DEF Grants
  <2>4. Grants' = [Grants EXCEPT ![e].status = "refunded", ![e].tokens = 0]
    BY <1>1, <2>1, <2>2 DEF Grants
  <2> QED BY <1>0, <2>3, <2>4 DEF Ledger!GiveBack
<1> QED BY <1>2, <1>3 DEF Ledger!Next

LEMMA ReserveAsks ==
  ASSUME QuotaInvariant, NEW c \in Calls, NEW k \in Keys, NEW t \in 1..MaxTokens, Reserve(c, k, t),
         call[c].key = NoKey
  PROVE  [Ledger!Next]_(Ledger!ledgerVars)
<1>1. Asked[c].key = NoKey /\ Grants' = Grants /\ UNCHANGED <<month, answer>>
  BY GrantsStay DEF Asked, Reserve
<1>2. Asked' = [Asked EXCEPT ![c] = [key |-> k, tokens |-> t, month |-> month]]
  <2>1. call \in [Calls -> Call]
    BY DEF QuotaInvariant, LedgerInvariant, TypeOK
  <2>2. /\ call'[c].key = k /\ call'[c].tokens = t /\ call'[c].month = month
        /\ \A d \in Calls : d # c => call'[d] = call[d]
    BY <2>1 DEF Reserve
  <2> QED BY <2>2 DEF Asked
<1>3. Ledger!Ask(c, k, t)
  BY <1>1, <1>2 DEF Ledger!Ask
<1> QED BY <1>3 DEF Ledger!Next

(* A call that has not begun has no key.                                   *)
IdleHasNoKey == \A c \in Calls : call[c].pc = "idle" => call[c].key = NoKey

LEMMA IdleStep ==
  ASSUME LedgerInvariant, IdleHasNoKey, [Next]_vars
  PROVE  IdleHasNoKey'
<1>0. call \in [Calls -> Call]
  BY DEF LedgerInvariant, TypeOK
<1>1. CASE UNCHANGED call
  BY <1>1 DEF IdleHasNoKey
<1>2. ASSUME NEW c \in Calls, NEW step \in Steps \ {"idle"}, GoTo(c, step) PROVE IdleHasNoKey'
  BY <1>0, <1>2 DEF IdleHasNoKey, GoTo, Call
<1>3. ASSUME NEW c \in Calls, NEW k \in Keys, NEW t \in 1..MaxTokens, Reserve(c, k, t) PROVE IdleHasNoKey'
  BY <1>0, <1>3 DEF IdleHasNoKey, Reserve
<1>4. ASSUME NEW c \in Calls, Step(c) \/ Lose(c)
      PROVE  \E step \in Steps \ {"idle"} : GoTo(c, step)
  BY <1>4, StepsNamed DEF Step, Lookup, LockWorkspace, CheckLimit, Insert, Lose
<1>5. ASSUME NEW e \in Calls, (\E u \in 0..MaxUsed : Complete(e, u)) \/ Refund(e) PROVE UNCHANGED call
  BY <1>5 DEF Complete, Refund
<1> QED BY <1>1, <1>2, <1>3, <1>4, <1>5 DEF Next, NextMonth, vars

(* reserve is atomic: whatever runs between the statements of a call, and  *)
(* whichever of them is its last, the ledger and the answers change as in  *)
(* TokenLedger, in one step at the INSERT or at the lookup that finds the  *)
(* key.                                                                    *)
THEOREM ImplementsLedger == Spec => LedgerIsKept
<1>1. Init => IdleHasNoKey
  BY DEF Init, IdleHasNoKey
<1>2. QuotaInvariant /\ IdleHasNoKey /\ [Next]_vars => [Ledger!Next]_(Ledger!ledgerVars)
  <2> SUFFICES ASSUME QuotaInvariant, IdleHasNoKey, [Next]_vars
               PROVE  [Ledger!Next]_(Ledger!ledgerVars)
    OBVIOUS
  <2>0. LedgerInvariant
    BY DEF QuotaInvariant
  <2>1. CASE UNCHANGED vars
    BY <2>1, GrantsStay DEF vars, Asked, Ledger!ledgerVars
  <2>2. CASE NextMonth
    <3>1. month' = month + 1 /\ UNCHANGED <<Asked, Grants, answer>>
      BY <2>2, GrantsStay DEF NextMonth, Asked
    <3> QED BY <3>1 DEF Ledger!Next, Ledger!NextMonth
  <2>3. ASSUME NEW c \in Calls, LockWorkspace(c) \/ CheckLimit(c) \/ Lose(c)
        PROVE  UNCHANGED Ledger!ledgerVars
    <3>1. UNCHANGED <<month, event, answer>> /\ \E step \in Steps : GoTo(c, step)
      BY <2>3, StepsNamed DEF LockWorkspace, CheckLimit, Lose
    <3> QED BY <2>0, <3>1, AskedStays, GrantsStay DEF Ledger!ledgerVars
  <2>4. ASSUME NEW c \in Calls, NEW k \in Keys, NEW t \in 1..MaxTokens, Reserve(c, k, t)
        PROVE  [Ledger!Next]_(Ledger!ledgerVars)
    BY <2>4, ReserveAsks DEF IdleHasNoKey, Reserve
  <2> QED
    BY <2>1, <2>2, <2>3, <2>4, LookupRepeats, InsertGrants, SettlementSettles DEF Next, Step
<1>3. LedgerInvariant /\ IdleHasNoKey /\ [Next]_vars => IdleHasNoKey'
  BY IdleStep
<1>4. Spec => []IdleHasNoKey
  BY <1>1, <1>3, LedgerInvariantHolds, PTL DEF Spec
<1> QED
  BY <1>2, <1>4, InitImplementsLedger, QuotaInvariantHolds, PTL DEF Spec, Ledger!Spec, LedgerIsKept
=============================================================================
