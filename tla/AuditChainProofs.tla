-------------------------- MODULE AuditChainProofs --------------------------
(***************************************************************************)
(* Proofs about AuditChain, for any number of sign-ins and of unhashed     *)
(* events.                                                                 *)
(***************************************************************************)
EXTENDS AuditChain, TLAPS

(* The advisory lock is exclusive, and held from the SELECT to the COMMIT. *)
LockHeld ==
  \A s \in SignIns : pc[s] \in {"read", "insert"} => lock = s

(* The predecessor a sign-in has read is committed.                        *)
TailResolves ==
  \A s \in SignIns :
    pc[s] = "insert" /\ tail[s] # Genesis => \E j \in 1..Len(log) : log[j].hash = tail[s]

(* In order, it is still the right predecessor for the next row.           *)
TailIsCurrent ==
  InOrder => \A s \in SignIns : pc[s] = "insert" => Continues(log, tail[s], Len(log) + 1)

ChainInvariant ==
  /\ TypeOK
  /\ Len(log) > 0
  /\ LockHeld
  /\ LinksResolve
  /\ TailResolves
  /\ TailIsCurrent
  /\ LinearInOrder

-----------------------------------------------------------------------------
LEMMA AppendRow ==
  ASSUME NEW seq \in Seq(Row), NEW row \in Row
  PROVE  /\ Append(seq, row) \in Seq(Row)
         /\ DOMAIN seq = 1..Len(seq)
         /\ DOMAIN Append(seq, row) = 1..(Len(seq) + 1)
         /\ Len(Append(seq, row)) = Len(seq) + 1
         /\ \A i \in 1..Len(seq) : Append(seq, row)[i] = seq[i]
         /\ Append(seq, row)[Len(seq) + 1] = row
OBVIOUS

LEMMA StepTypeOK == TypeOK /\ [Next]_vars => TypeOK'
<1> SUFFICES ASSUME TypeOK, [Next]_vars PROVE TypeOK'
  OBVIOUS
<1>0. {"start", "login", "begin", "lock", "read", "insert", "answer", "done", "failed"} = Steps
  BY DEF Steps
<1>1. ASSUME NEW s \in SignIns,
             CreateSession(s) \/ RecordLogin(s) \/ Begin(s) \/ Acquire(s) \/ Answer(s) \/ Fail(s)
      PROVE  TypeOK'
  <2>1. pc' \in [SignIns -> Steps]
    BY <1>0, <1>1 DEF TypeOK, CreateSession, RecordLogin, Begin, Acquire, Answer, Fail, GoTo
  <2>2. clock' \in Nat /\ at' \in [SignIns -> Nat]
    BY <1>1 DEF TypeOK, CreateSession, RecordLogin, Begin, Acquire, Answer, Fail
  <2>3. lock' \in SignIns \cup {NoOne} /\ sessions' \subseteq SignIns
    BY <1>1 DEF TypeOK, CreateSession, RecordLogin, Begin, Acquire, Answer, Fail
  <2> QED
    BY <1>1, <2>1, <2>2, <2>3 DEF TypeOK, CreateSession, RecordLogin, Begin, Acquire, Answer, Fail
<1>2. ASSUME NEW s \in SignIns, ReadTail(s)
      PROVE  TypeOK'
  <2>1. PICK i \in DOMAIN log : tail' = [tail EXCEPT ![s] = HashOrGenesis(log[i].hash)]
    BY <1>2 DEF ReadTail
  <2>2. log[i] \in Row
    BY <2>1 DEF TypeOK
  <2>3. HashOrGenesis(log[i].hash) \in SignIns \cup {Genesis}
    BY <2>2 DEF HashOrGenesis, Row
  <2>4. tail' \in [SignIns -> SignIns \cup {Genesis}]
    BY <2>1, <2>3 DEF TypeOK
  <2> QED BY <1>0, <1>2, <2>4 DEF TypeOK, ReadTail, GoTo
<1>3. ASSUME NEW s \in SignIns, Commit(s)
      PROVE  TypeOK'
  <2>1. [hash |-> s, prev |-> tail[s], at |-> at[s]] \in Row
    BY DEF TypeOK, Row
  <2>2. log' \in Seq(Row)
    BY <1>3, <2>1, AppendRow DEF Commit, TypeOK
  <2> QED BY <1>0, <1>3, <2>2 DEF TypeOK, Commit, GoTo
<1>4. CASE WorkspaceEvent
  <2>1. [hash |-> NoHash, prev |-> Genesis, at |-> clock] \in Row
    BY DEF TypeOK, Row
  <2>2. log' \in Seq(Row)
    BY <1>4, <2>1, AppendRow DEF WorkspaceEvent, TypeOK
  <2> QED BY <1>4, <2>2 DEF TypeOK, WorkspaceEvent
<1>5. CASE UNCHANGED vars
  BY <1>5 DEF TypeOK, vars
<1> QED
  BY <1>1, <1>2, <1>3, <1>4, <1>5 DEF Next, Step

(* Appending a row leaves what was said of the others as it was.           *)
LEMMA AppendKeepsContinues ==
  ASSUME TypeOK, NEW row \in Row, log' = Append(log, row),
         NEW h, NEW k \in 1..(Len(log) + 1), Continues(log, h, k)
  PROVE  Continues(log', h, k)
<1>1. Len(log) \in Nat /\ \A i \in 1..(k - 1) : i \in 1..Len(log) /\ log'[i] = log[i]
  <2>1. Len(log) \in Nat /\ \A i \in 1..Len(log) : log'[i] = log[i]
    BY AppendRow DEF TypeOK
  <2> QED BY <2>1
<1>2. CASE h = Genesis /\ k > 1 /\ ~Hashed(log[k - 1])
  <2>1. k - 1 \in 1..(k - 1)
    BY <1>1, <1>2
  <2> QED BY <1>1, <1>2, <2>1 DEF Continues, Hashed
<1>3. ASSUME NEW j \in 1..(k - 1), Hashed(log[j]), log[j].hash = h,
             \A i \in (j + 1)..(k - 1) : ~Hashed(log[i])
      PROVE  Continues(log', h, k)
  <2>1. \A i \in (j + 1)..(k - 1) : i \in 1..(k - 1)
    BY <1>1
  <2> QED BY <1>1, <1>3, <2>1 DEF Continues, Hashed
<1> QED
  BY <1>2, <1>3 DEF Continues

LEMMA AppendKeepsOrder ==
  ASSUME TypeOK, NEW row \in Row, log' = Append(log, row), InOrder'
  PROVE  InOrder
<1>1. /\ DOMAIN log = 1..Len(log) /\ DOMAIN log' = 1..(Len(log) + 1)
      /\ \A i \in 1..Len(log) : log'[i] = log[i] /\ Len(log) \in Nat
  BY AppendRow DEF TypeOK
<1> QED
  BY <1>1 DEF InOrder

LEMMA AppendKeepsLinks ==
  ASSUME TypeOK, LinksResolve, NEW row \in Row, log' = Append(log, row),
         row.hash # NoHash /\ row.prev # Genesis
           => \E j \in 1..Len(log) : log[j].hash = row.prev
  PROVE  LinksResolve'
<1>1. /\ DOMAIN log = 1..Len(log) /\ DOMAIN log' = 1..(Len(log) + 1)
      /\ \A i \in 1..Len(log) : log'[i] = log[i]
      /\ log'[Len(log) + 1] = row /\ Len(log) \in Nat
  BY AppendRow DEF TypeOK
<1> SUFFICES ASSUME NEW k \in 1..(Len(log) + 1), log'[k].hash # NoHash,
                    log'[k].prev # Genesis
             PROVE  \E j \in 1..(k - 1) : log'[j].hash = log'[k].prev
  BY <1>1 DEF LinksResolve, Hashed
<1>2. CASE k = Len(log) + 1
  BY <1>1, <1>2
<1>3. CASE k \in 1..Len(log)
  BY <1>1, <1>3 DEF LinksResolve, Hashed
<1> QED BY <1>1, <1>2, <1>3

LEMMA AppendKeepsLinear ==
  ASSUME TypeOK, LinearInOrder, NEW row \in Row, log' = Append(log, row),
         InOrder /\ row.hash # NoHash => Continues(log, row.prev, Len(log) + 1)
  PROVE  LinearInOrder'
<1>1. /\ DOMAIN log = 1..Len(log) /\ DOMAIN log' = 1..(Len(log) + 1)
      /\ \A i \in 1..Len(log) : log'[i] = log[i]
      /\ log'[Len(log) + 1] = row /\ Len(log) \in Nat
  BY AppendRow DEF TypeOK
<1> SUFFICES ASSUME InOrder', NEW k \in 1..(Len(log) + 1), log'[k].hash # NoHash
             PROVE  Continues(log', log'[k].prev, k)
  BY <1>1 DEF LinearInOrder, Hashed
<1>2. InOrder
  BY AppendKeepsOrder
<1>3. Continues(log, log'[k].prev, k)
  <2>1. CASE k = Len(log) + 1
    BY <1>1, <1>2, <2>1
  <2>2. CASE k \in 1..Len(log)
    BY <1>1, <1>2, <2>2 DEF LinearInOrder, Hashed
  <2> QED BY <1>1, <2>1, <2>2
<1> QED BY <1>3, AppendKeepsContinues

-----------------------------------------------------------------------------
(* A step that leaves the log alone keeps everything said of the log.      *)
LEMMA SameLog ==
  ASSUME UNCHANGED log
  PROVE  /\ LinksResolve => LinksResolve'
         /\ LinearInOrder => LinearInOrder'
         /\ InOrder' => InOrder
BY DEF LinksResolve, LinearInOrder, InOrder

LEMMA ReadTailKeepsInvariant ==
  ASSUME ChainInvariant, TypeOK', NEW s \in SignIns, ReadTail(s)
  PROVE  ChainInvariant'
<1> USE DEF ChainInvariant
<1>1. PICK i \in DOMAIN log :
        Latest(i) /\ tail' = [tail EXCEPT ![s] = HashOrGenesis(log[i].hash)]
  BY DEF ReadTail
<1>2. /\ DOMAIN log = 1..Len(log) /\ Len(log) \in Nat /\ i \in 1..Len(log)
      /\ \A j \in 1..Len(log) : log[j] \in Row
  BY <1>1 DEF TypeOK
<1>3. pc' = [pc EXCEPT ![s] = "insert"] /\ UNCHANGED <<log, lock>>
  BY DEF ReadTail, GoTo
<1>4. tail'[s] = HashOrGenesis(log[i].hash) /\ \A q \in SignIns : q # s => tail'[q] = tail[q]
  BY <1>1 DEF TypeOK
<1>5. LockHeld'
  BY <1>3 DEF LockHeld, TypeOK, ReadTail
<1>6. TailResolves'
  BY <1>2, <1>3, <1>4 DEF TailResolves, TypeOK, HashOrGenesis
<1>7. TailIsCurrent'
  <2> SUFFICES ASSUME InOrder', NEW q \in SignIns, pc'[q] = "insert"
               PROVE  Continues(log, tail'[q], Len(log) + 1)
    BY <1>3 DEF TailIsCurrent
  <2>1. InOrder
    BY <1>3, SameLog
  <2>2. CASE q = s
    <3>1. i = Len(log)
      <4> SUFFICES ASSUME i < Len(log) PROVE FALSE
        BY <1>2
      <4>1. log[i].at < log[Len(log)].at
        BY <1>2, <2>1 DEF InOrder
      <4>2. log[Len(log)].at <= log[i].at
        BY <1>1, <1>2 DEF Latest
      <4>3. log[i].at \in Nat /\ log[Len(log)].at \in Nat
        BY <1>2 DEF Row
      <4> QED BY <4>1, <4>2, <4>3
    <3>2. Continues(log, tail'[s], Len(log) + 1)
      <4>1. CASE log[Len(log)].hash = NoHash
        BY <1>2, <1>4, <3>1, <4>1 DEF Continues, Hashed, HashOrGenesis
      <4>2. CASE log[Len(log)].hash # NoHash
        BY <1>2, <1>4, <3>1, <4>2 DEF Continues, Hashed, HashOrGenesis
      <4> QED BY <4>1, <4>2
    <3> QED BY <2>2, <3>2
  <2>3. CASE q # s
    <3>1. pc[q] = "insert" /\ tail'[q] = tail[q]
      BY <1>3, <1>4, <2>3 DEF TypeOK
    <3> QED BY <2>1, <3>1 DEF TailIsCurrent
  <2> QED BY <2>2, <2>3
<1> QED BY <1>3, <1>5, <1>6, <1>7, SameLog

LEMMA CommitKeepsInvariant ==
  ASSUME ChainInvariant, TypeOK', NEW s \in SignIns, Commit(s)
  PROVE  ChainInvariant'
<1> USE DEF ChainInvariant
<1> DEFINE row == [hash |-> s, prev |-> tail[s], at |-> at[s]]
<1>1. row \in Row /\ log' = Append(log, row) /\ row.hash # NoHash
  BY AuditChainAssumption DEF TypeOK, Row, Commit
<1>2. \A q \in SignIns : pc'[q] \notin {"read", "insert"}
  BY DEF Commit, GoTo, TypeOK, LockHeld
<1>3. Len(log') > 0
  BY <1>1, AppendRow DEF TypeOK
<1>4. LinksResolve'
  <2>1. row.prev # Genesis => \E j \in 1..Len(log) : log[j].hash = row.prev
    BY DEF Commit, TailResolves
  <2> QED BY <1>1, <2>1, AppendKeepsLinks
<1>5. LinearInOrder'
  <2>1. InOrder => Continues(log, row.prev, Len(log) + 1)
    BY DEF Commit, TailIsCurrent
  <2> QED BY <1>1, <2>1, AppendKeepsLinear
<1> QED
  BY <1>2, <1>3, <1>4, <1>5 DEF LockHeld, TailResolves, TailIsCurrent

LEMMA EventKeepsInvariant ==
  ASSUME ChainInvariant, TypeOK', WorkspaceEvent
  PROVE  ChainInvariant'
<1> USE DEF ChainInvariant
<1> DEFINE row == [hash |-> NoHash, prev |-> Genesis, at |-> clock]
<1>1. row \in Row /\ log' = Append(log, row) /\ UNCHANGED <<lock, pc, tail>>
  BY DEF TypeOK, Row, WorkspaceEvent
<1>2. /\ Len(log') = Len(log) + 1 /\ Len(log) \in Nat
      /\ \A i \in 1..Len(log) : log'[i] = log[i]
      /\ log'[Len(log) + 1] = row
  BY <1>1, AppendRow DEF TypeOK
<1>3. LinksResolve' /\ LinearInOrder'
  BY <1>1, AppendKeepsLinks, AppendKeepsLinear
<1>4. LockHeld' /\ TailResolves'
  BY <1>1, <1>2 DEF LockHeld, TailResolves
<1>5. TailIsCurrent'
  <2>0. Len(log') + 1 = Len(log) + 2
    BY <1>2
  <2> SUFFICES ASSUME InOrder', NEW q \in SignIns, pc[q] = "insert"
               PROVE  Continues(log', tail[q], Len(log) + 2)
    BY <1>1, <2>0 DEF TailIsCurrent
  <2>1. Continues(log, tail[q], Len(log) + 1)
    BY <1>1, AppendKeepsOrder DEF TailIsCurrent
  <2>2. CASE tail[q] = Genesis
    BY <1>1, <1>2, <2>2 DEF Continues, Hashed
  <2>3. CASE tail[q] # Genesis
    <3>1. PICK j \in 1..Len(log) : /\ log[j].hash # NoHash /\ log[j].hash = tail[q]
                                   /\ \A i \in (j + 1)..Len(log) : log[i].hash = NoHash
      BY <1>2, <2>1, <2>3 DEF Continues, Hashed
    <3>2. \A i \in (j + 1)..(Len(log) + 1) : log'[i].hash = NoHash
      BY <1>2, <3>1
    <3>3. j \in 1..((Len(log) + 2) - 1) /\ log'[j].hash # NoHash /\ log'[j].hash = tail[q]
          /\ \A i \in (j + 1)..((Len(log) + 2) - 1) : log'[i].hash = NoHash
      BY <1>2, <3>1, <3>2
    <3> QED BY <1>1, <3>3 DEF Continues, Hashed
  <2> QED BY <2>2, <2>3
<1> QED BY <1>2, <1>3, <1>4, <1>5

LEMMA OthersKeepInvariant ==
  ASSUME ChainInvariant, TypeOK',
         \/ \E s \in SignIns : \/ CreateSession(s) \/ RecordLogin(s) \/ Begin(s)
                               \/ Acquire(s) \/ Answer(s) \/ Fail(s)
         \/ UNCHANGED vars
  PROVE  ChainInvariant'
<1> USE DEF ChainInvariant
<1>1. UNCHANGED <<log, tail>>
  BY DEF CreateSession, RecordLogin, Begin, Acquire, Answer, Fail, vars
<1>2. \A q \in SignIns : pc'[q] = "insert" => pc[q] = "insert"
  BY DEF CreateSession, RecordLogin, Begin, Acquire, Answer, Fail, vars, GoTo, TypeOK
<1>3. LockHeld'
  <2>1. CASE \E s \in SignIns : CreateSession(s) \/ RecordLogin(s) \/ Begin(s)
    BY <2>1 DEF CreateSession, RecordLogin, Begin, GoTo, TypeOK, LockHeld
  <2>2. CASE \E s \in SignIns : Acquire(s)
    BY <2>2, AuditChainAssumption DEF Acquire, GoTo, TypeOK, LockHeld
  <2>3. CASE \E s \in SignIns : Answer(s) \/ Fail(s)
    BY <2>3 DEF Answer, Fail, GoTo, TypeOK, LockHeld
  <2>4. CASE UNCHANGED vars
    BY <2>4 DEF vars, LockHeld
  <2> QED BY <2>1, <2>2, <2>3, <2>4
<1>4. LinksResolve' /\ LinearInOrder'
  BY <1>1, SameLog
<1>5. TailResolves'
  BY <1>1, <1>2 DEF TailResolves
<1>6. TailIsCurrent'
  BY <1>1, <1>2, SameLog DEF TailIsCurrent
<1> QED BY <1>1, <1>3, <1>4, <1>5, <1>6

LEMMA ChainInvariantHolds == Spec => []ChainInvariant
<1>1. Init => ChainInvariant
  <2> SUFFICES ASSUME Init PROVE ChainInvariant
    OBVIOUS
  <2>1. TypeOK
    <3>1. [hash |-> NoHash, prev |-> Genesis, at |-> 0] \in Row
      BY DEF Row
    <3> QED BY <3>1 DEF Init, TypeOK, Steps
  <2>2. DOMAIN log = 1..1 /\ Len(log) = 1 /\ log[1].hash = NoHash
    BY DEF Init
  <2>3. LockHeld /\ TailResolves /\ TailIsCurrent
    BY DEF Init, LockHeld, TailResolves, TailIsCurrent
  <2>4. LinksResolve /\ LinearInOrder
    BY <2>2 DEF LinksResolve, LinearInOrder, Hashed
  <2> QED BY <2>1, <2>2, <2>3, <2>4 DEF ChainInvariant
<1>2. ChainInvariant /\ [Next]_vars => ChainInvariant'
  <2> SUFFICES ASSUME ChainInvariant, [Next]_vars PROVE ChainInvariant'
    OBVIOUS
  <2>1. TypeOK'
    BY StepTypeOK DEF ChainInvariant
  <2> QED
    BY <2>1, ReadTailKeepsInvariant, CommitKeepsInvariant, EventKeepsInvariant,
       OthersKeepInvariant DEF Next, Step
<1> QED BY <1>1, <1>2, PTL DEF Spec

(* Every variable of AuditChain keeps its type: no NULL prev_hash.         *)
THEOREM ChainTypeCorrect == Spec => []TypeOK
<1>1. ChainInvariant => TypeOK
  BY DEF ChainInvariant
<1> QED BY <1>1, ChainInvariantHolds, PTL

(* Every link of the chain leads to a committed event.                     *)
THEOREM NoDanglingLink == Spec => []LinksResolve
<1>1. ChainInvariant => LinksResolve
  BY DEF ChainInvariant
<1> QED BY <1>1, ChainInvariantHolds, PTL

(* As long as sign-ins commit in the order they began, the chain does not  *)
(* fork.                                                                   *)
THEOREM NoForkInOrder == Spec => []LinearInOrder
<1>1. ChainInvariant => LinearInOrder
  BY DEF ChainInvariant
<1> QED BY <1>1, ChainInvariantHolds, PTL
-----------------------------------------------------------------------------
(* A sign-in past its first commit has its session; its event is there     *)
(* when its transaction was committed, and not before.                     *)
Recorded ==
  \A s \in SignIns :
    /\ pc[s] # "start" => s \in sessions
    /\ pc[s] \in {"answer", "done"} => \E k \in DOMAIN log : log[k].hash = s
    /\ pc[s] \notin {"answer", "done", "failed"} => \A k \in DOMAIN log : log[k].hash # s
    /\ \A k, l \in DOMAIN log : log[k].hash = s /\ log[l].hash = s => k = l

LEMMA CommitRecords ==
  ASSUME TypeOK, Recorded, NEW s \in SignIns, Commit(s)
  PROVE  Recorded'
<1> DEFINE row == [hash |-> s, prev |-> tail[s], at |-> at[s]]
<1>1. row \in Row /\ log' = Append(log, row) /\ UNCHANGED sessions
  BY DEF TypeOK, Row, Commit
<1>2. /\ pc[s] = "insert" /\ pc'[s] = "answer"
      /\ \A q \in SignIns : q # s => pc'[q] = pc[q]
  BY DEF Commit, GoTo, TypeOK
<1>3. /\ DOMAIN log = 1..Len(log) /\ DOMAIN log' = 1..(Len(log) + 1) /\ Len(log) \in Nat
      /\ \A i \in 1..Len(log) : log'[i] = log[i]
      /\ log'[Len(log) + 1].hash = s
  BY <1>1, AppendRow DEF TypeOK
<1>4. \A i \in 1..Len(log) : log'[i].hash # s
  BY <1>2, <1>3 DEF Recorded
<1> SUFFICES ASSUME NEW q \in SignIns
             PROVE  /\ pc'[q] # "start" => q \in sessions'
                    /\ pc'[q] \in {"answer", "done"} => \E k \in DOMAIN log' : log'[k].hash = q
                    /\ pc'[q] \notin {"answer", "done", "failed"} => \A k \in DOMAIN log' : log'[k].hash # q
                    /\ \A k, l \in DOMAIN log' : log'[k].hash = q /\ log'[l].hash = q => k = l
  BY DEF Recorded
<1>5. CASE q = s
  <2>1. \A k \in 1..(Len(log) + 1) : log'[k].hash = s => k = Len(log) + 1
    BY <1>3, <1>4
  <2> QED BY <1>1, <1>2, <1>3, <1>5, <2>1 DEF Recorded
<1>6. CASE q # s
  <2>1. \A k \in 1..(Len(log) + 1) : log'[k].hash = q => k \in 1..Len(log) /\ log[k].hash = q
    BY <1>3, <1>6
  <2>2. pc'[q] = pc[q]
    BY <1>2, <1>6
  <2> QED BY <1>1, <1>3, <2>1, <2>2 DEF Recorded
<1> QED BY <1>5, <1>6

LEMMA EventRecordsNobody ==
  ASSUME TypeOK, Recorded, WorkspaceEvent
  PROVE  Recorded'
<1> DEFINE row == [hash |-> NoHash, prev |-> Genesis, at |-> clock]
<1>1. row \in Row /\ log' = Append(log, row) /\ UNCHANGED <<pc, sessions>>
  BY DEF TypeOK, Row, WorkspaceEvent
<1>2. /\ DOMAIN log = 1..Len(log) /\ DOMAIN log' = 1..(Len(log) + 1) /\ Len(log) \in Nat
      /\ \A i \in 1..Len(log) : log'[i] = log[i]
      /\ log'[Len(log) + 1].hash = NoHash
  BY <1>1, AppendRow DEF TypeOK
<1>3. \A q \in SignIns, k \in 1..(Len(log) + 1) :
        log'[k].hash = q => k \in 1..Len(log) /\ log[k].hash = q
  BY <1>2, AuditChainAssumption
<1> QED BY <1>1, <1>2, <1>3 DEF Recorded

LEMMA OthersRecordNothing ==
  ASSUME TypeOK, Recorded,
         \/ \E s \in SignIns : \/ CreateSession(s) \/ RecordLogin(s) \/ Begin(s)
                               \/ Acquire(s) \/ ReadTail(s) \/ Answer(s) \/ Fail(s)
         \/ UNCHANGED vars
  PROVE  Recorded'
<1>1. UNCHANGED log
  BY DEF CreateSession, RecordLogin, Begin, Acquire, ReadTail, Answer, Fail, vars
<1>2. CASE UNCHANGED vars
  BY <1>2 DEF vars, Recorded
<1>3. CASE \E s \in SignIns : \/ CreateSession(s) \/ RecordLogin(s) \/ Begin(s)
                               \/ Acquire(s) \/ ReadTail(s) \/ Answer(s) \/ Fail(s)
  <2> PICK s \in SignIns : \/ CreateSession(s) \/ RecordLogin(s) \/ Begin(s)
                            \/ Acquire(s) \/ ReadTail(s) \/ Answer(s) \/ Fail(s)
    BY <1>3
  <2>1. /\ pc'[s] \in {"answer", "done"} => pc[s] \in {"answer", "done"}
        /\ pc'[s] \notin {"answer", "done", "failed"} => pc[s] \notin {"answer", "done", "failed"}
        /\ \A q \in SignIns : q # s => pc'[q] = pc[q]
        /\ sessions \subseteq sessions'
        /\ s \in sessions'
    BY DEF CreateSession, RecordLogin, Begin, Acquire, ReadTail, Answer, Fail, GoTo, TypeOK, Recorded, Ended
  <2> QED BY <1>1, <2>1 DEF Recorded
<1> QED BY <1>2, <1>3

(* A sign-in that was answered has its session and exactly one event, and  *)
(* an event belongs to a sign-in that was answered or lost its answer,     *)
(* whatever fails in between.                                              *)
THEOREM AnsweredIsRecorded == Spec => []AnsweredSignInsAreRecorded
<1>1. Init => Recorded
  <2> SUFFICES ASSUME Init PROVE Recorded
    OBVIOUS
  <2>1. DOMAIN log = 1..1 /\ log[1].hash = NoHash
    BY DEF Init
  <2>2. \A q \in SignIns : pc[q] = "start"
    BY DEF Init
  <2> QED BY <2>1, <2>2, AuditChainAssumption DEF Recorded
<1>2. TypeOK /\ Recorded /\ [Next]_vars => Recorded'
  BY CommitRecords, EventRecordsNobody, OthersRecordNothing DEF Next, Step
<1>3. Recorded => AnsweredSignInsAreRecorded
  <2> SUFFICES ASSUME Recorded, NEW s \in SignIns
               PROVE  LET rows == {k \in DOMAIN log : log[k].hash = s}
                      IN  /\ pc[s] = "done" => rows # {}
                          /\ rows # {} => s \in sessions /\ pc[s] \in {"answer"} \cup Ended
                          /\ \A k, l \in rows : k = l
    BY DEF AnsweredSignInsAreRecorded
  <2> DEFINE rows == {k \in DOMAIN log : log[k].hash = s}
  <2>1. pc[s] = "done" => rows # {}
    BY DEF Recorded
  <2>2. rows # {} => pc[s] \in {"answer", "done", "failed"}
    BY DEF Recorded
  <2>3. rows # {} => s \in sessions /\ pc[s] \in {"answer"} \cup Ended
    BY <2>2 DEF Recorded, Ended
  <2>4. \A k, l \in rows : k = l
    BY DEF Recorded
  <2> QED BY <2>1, <2>3, <2>4
<1> QED BY <1>1, <1>2, <1>3, ChainTypeCorrect, PTL DEF Spec
=============================================================================
