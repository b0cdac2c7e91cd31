---------------------------- MODULE ContentProofs ---------------------------
(***************************************************************************)
(* The services beside notes and pages, and the pages of the browser: the  *)
(* budget check, the single use of states and nonces, the merge of reviews, *)
(* the isolation of the stored rows, the listing of tasks, and the sign-out, *)
(* for every value of the constants.  The modules share no state; each part *)
(* has its own invariant, and the composition that TLC runs implements each. *)
(***************************************************************************)
EXTENDS MCContent, NotesProofs, FiniteSetTheorems, TLAPS

-----------------------------------------------------------------------------
(* Budgets: any number of concurrent expenses, months, currencies and limits. *)

USE BudgetsAssumption

(* The row lock: one transaction at a time works under the budget, and the *)
(* limit it read is the limit in force until it ends.                      *)
OneHolder ==
  /\ \A c, d \in Calls : HoldsBudget(c) /\ HoldsBudget(d) => c = d
  /\ \A c \in Calls : HoldsBudget(c) => budget.exists /\ calls[c].limit = budget.limit
  /\ \A c \in Calls : calls[c].pc = "locked" => calls[c].underBudget

(* The sum compared includes at least what was checked.                    *)
SumCoversChecked == \A m \in Months : checked[m] <= spent[m]

(* What passed the comparison still fits when it is inserted, although     *)
(* expenses that are not checked may be inserted before it.                *)
PassedStillFits ==
  \A c \in Calls : HoldsBudget(c) /\ calls[c].pc = "inserting" =>
    checked[calls[c].month] + calls[c].amount <= budget.limit

BudgetInv ==
  /\ BudgetsTypeOK
  /\ OneHolder
  /\ SumCoversChecked
  /\ PassedStillFits
  /\ CheckedWithinLimit

LEMMA InitBudget == BudgetsInit => BudgetInv
  BY DEF BudgetsInit, BudgetInv, BudgetsTypeOK, BudgetRow, Call, OneHolder, HoldsBudget, SumCoversChecked,
         PassedStillFits, CheckedWithinLimit

LEMMA BeginStep ==
  ASSUME BudgetInv, NEW a \in Actors, NEW c \in Calls, NEW amount \in Amounts, NEW month \in Months,
         NEW currency \in Currencies, ExpenseBegin(a, c, amount, month, currency)
  PROVE  BudgetInv'
  <1> DEFINE call == [pc |-> IF BudgetIn(currency) THEN "locked" ELSE "inserting", amount |-> amount,
                      month |-> month, currency |-> currency, underBudget |-> BudgetIn(currency),
                      limit |-> budget.limit]
  <1>0. /\ budget \in BudgetRow /\ calls \in [Calls -> Call] /\ amount \in Nat
        /\ BudgetIn(currency) => \A d \in Calls : ~HoldsBudget(d)
        /\ calls' = [calls EXCEPT ![c] = call] /\ UNCHANGED <<budget, spent, checked>>
    BY DEF ExpenseBegin, LockBudget, BudgetInv, BudgetsTypeOK
  <1>1. BudgetIn(currency) \in BOOLEAN /\ (BudgetIn(currency) => budget.exists)
    BY <1>0 DEF BudgetIn, BudgetRow
  <1>2. call \in Call
    BY <1>0, <1>1 DEF BudgetRow, Call
  <1>3. /\ calls'[c] = call
        /\ \A d \in Calls \ {c} : calls'[d] = calls[d]
    BY <1>0
  <1>4. BudgetsTypeOK'
    BY <1>0, <1>2 DEF BudgetInv, BudgetsTypeOK
  <1>5. OneHolder'
    BY <1>0, <1>1, <1>3 DEF BudgetInv, OneHolder, HoldsBudget
  <1>6. (SumCoversChecked /\ PassedStillFits /\ CheckedWithinLimit)'
    BY <1>0, <1>1, <1>3 DEF BudgetInv, SumCoversChecked, PassedStillFits, CheckedWithinLimit, HoldsBudget
  <1> QED
    BY <1>4, <1>5, <1>6 DEF BudgetInv

LEMMA CheckStep == ASSUME BudgetInv, NEW c \in Calls, ExpenseCheck(c) PROVE BudgetInv'
  <1>0. /\ budget \in BudgetRow /\ calls \in [Calls -> Call]
        /\ spent \in [Months -> Nat] /\ checked \in [Months -> Nat]
        /\ calls' = [calls EXCEPT ![c].pc = IF Exceeds(c) THEN "idle" ELSE "inserting"]
        /\ calls[c].pc = "locked" /\ UNCHANGED <<budget, spent, checked>>
    BY DEF ExpenseCheck, BudgetInv, BudgetsTypeOK
  <1>1. /\ calls'[c] \in Call
        /\ calls'[c].amount = calls[c].amount /\ calls'[c].month = calls[c].month
        /\ calls'[c].limit = calls[c].limit /\ calls'[c].underBudget = calls[c].underBudget
        /\ calls'[c].pc = IF Exceeds(c) THEN "idle" ELSE "inserting"
        /\ \A d \in Calls \ {c} : calls'[d] = calls[d]
    BY <1>0 DEF Call
  <1>2. BudgetsTypeOK'
    BY <1>0, <1>1 DEF BudgetInv, BudgetsTypeOK
  <1>3. OneHolder'
    BY <1>0, <1>1 DEF BudgetInv, OneHolder, HoldsBudget
  <1>4. PassedStillFits'
    <2>1. ~Exceeds(c) => checked[calls[c].month] + calls[c].amount <= budget.limit
      <3>1. calls[c].month \in Months /\ calls[c].amount \in Nat /\ budget.limit \in Nat
        BY <1>0 DEF Call, BudgetRow
      <3>2. calls[c].limit = budget.limit
        BY <1>0 DEF BudgetInv, OneHolder, HoldsBudget
      <3>3. checked[calls[c].month] <= spent[calls[c].month]
        BY <3>1 DEF BudgetInv, SumCoversChecked
      <3> QED
        BY <1>0, <3>1, <3>2, <3>3 DEF Exceeds
    <2> QED
      BY <1>0, <1>1, <2>1 DEF BudgetInv, PassedStillFits, HoldsBudget
  <1>5. (SumCoversChecked /\ CheckedWithinLimit)'
    BY <1>0 DEF BudgetInv, SumCoversChecked, CheckedWithinLimit
  <1> QED
    BY <1>2, <1>3, <1>4, <1>5 DEF BudgetInv

LEMMA InsertStep == ASSUME BudgetInv, NEW c \in Calls, ExpenseInsert(c) PROVE BudgetInv'
  <1> DEFINE month  == calls[c].month
             amount == calls[c].amount
  <1>0. /\ budget \in BudgetRow /\ calls \in [Calls -> Call]
        /\ spent \in [Months -> Nat] /\ checked \in [Months -> Nat]
        /\ month \in Months /\ amount \in Nat /\ budget.limit \in Nat
    BY DEF BudgetInv, BudgetsTypeOK, Call, BudgetRow
  <1>1. /\ calls[c].pc = "inserting"
        /\ spent' = [spent EXCEPT ![month] = @ + amount]
        /\ checked' = IF calls[c].underBudget THEN [checked EXCEPT ![month] = @ + amount] ELSE checked
        /\ calls' = [calls EXCEPT ![c].pc = "idle"] /\ UNCHANGED budget
    BY DEF ExpenseInsert
  <1>2. /\ calls'[c] \in Call /\ calls'[c].pc = "idle"
        /\ \A d \in Calls \ {c} : calls'[d] = calls[d]
    BY <1>0, <1>1 DEF Call
  <1>3. BudgetsTypeOK'
    BY <1>0, <1>1, <1>2 DEF BudgetInv, BudgetsTypeOK
  <1>4. OneHolder'
    BY <1>1, <1>2 DEF BudgetInv, OneHolder, HoldsBudget
  <1>5. \A m \in Months : /\ spent'[m] = IF m = month THEN spent[m] + amount ELSE spent[m]
                          /\ checked'[m] = IF m = month /\ calls[c].underBudget THEN checked[m] + amount ELSE checked[m]
    BY <1>0, <1>1
  <1>6. SumCoversChecked'
    BY <1>0, <1>5 DEF BudgetInv, SumCoversChecked
  <1>7. CheckedWithinLimit'
    <2>1. calls[c].underBudget => checked[month] + amount <= budget.limit
      BY <1>1 DEF BudgetInv, PassedStillFits, HoldsBudget
    <2> QED
      BY <1>0, <1>1, <1>5, <2>1 DEF BudgetInv, CheckedWithinLimit
  <1>8. PassedStillFits'
    <2> SUFFICES ASSUME NEW d \in Calls, HoldsBudget(d)', calls'[d].pc = "inserting"
                 PROVE  checked'[calls'[d].month] + calls'[d].amount <= budget'.limit
      BY DEF PassedStillFits
    <2>1. d # c /\ calls'[d] = calls[d] /\ HoldsBudget(d)
      BY <1>2 DEF HoldsBudget
    <2>2. ~calls[c].underBudget
      BY <1>1, <2>1 DEF BudgetInv, OneHolder, HoldsBudget
    <2> QED
      BY <1>0, <1>1, <2>1, <2>2 DEF BudgetInv, PassedStillFits
  <1> QED
    BY <1>3, <1>4, <1>6, <1>7, <1>8 DEF BudgetInv

LEMMA AbortStep == ASSUME BudgetInv, NEW c \in Calls, ExpenseAbort(c) PROVE BudgetInv'
  <1>0. /\ calls \in [Calls -> Call]
        /\ calls' = [calls EXCEPT ![c].pc = "idle"] /\ UNCHANGED <<budget, spent, checked>>
    BY DEF ExpenseAbort, BudgetInv, BudgetsTypeOK
  <1>1. /\ calls'[c] \in Call /\ calls'[c].pc = "idle"
        /\ \A d \in Calls \ {c} : calls'[d] = calls[d]
    BY <1>0 DEF Call
  <1> QED
    BY <1>0, <1>1 DEF BudgetInv, BudgetsTypeOK, OneHolder, HoldsBudget, SumCoversChecked, PassedStillFits,
                      CheckedWithinLimit

LEMMA SetBudgetStep ==
  ASSUME BudgetInv, NEW a \in Actors, NEW limit \in Limits, NEW currency \in Currencies,
         SetBudget(a, limit, currency)
  PROVE  BudgetInv'
  <1>0. /\ \A c \in Calls : ~HoldsBudget(c)
        /\ budget' = [exists |-> TRUE, limit |-> limit, currency |-> currency]
        /\ checked' = [m \in Months |-> 0] /\ UNCHANGED <<spent, calls>>
    BY DEF SetBudget, UpsertBudget
  <1>1. BudgetsTypeOK'
    BY <1>0 DEF BudgetInv, BudgetsTypeOK, BudgetRow
  <1>2. (OneHolder /\ PassedStillFits)'
    BY <1>0 DEF BudgetInv, OneHolder, PassedStillFits, HoldsBudget
  <1>3. (SumCoversChecked /\ CheckedWithinLimit)'
    BY <1>0 DEF BudgetInv, BudgetsTypeOK, SumCoversChecked, CheckedWithinLimit
  <1> QED
    BY <1>1, <1>2, <1>3 DEF BudgetInv

LEMMA BudgetStep == BudgetInv /\ [BudgetsNext]_budgetsVars => BudgetInv'
  <1> SUFFICES ASSUME BudgetInv, [BudgetsNext]_budgetsVars PROVE BudgetInv'
    OBVIOUS
  <1>1. CASE UNCHANGED budgetsVars
    BY <1>1 DEF budgetsVars, BudgetInv, BudgetsTypeOK, OneHolder, HoldsBudget, SumCoversChecked,
                PassedStillFits, CheckedWithinLimit
  <1> QED
    BY <1>1, BeginStep, CheckStep, InsertStep, AbortStep, SetBudgetStep DEF BudgetsNext

LEMMA AlwaysBudget == BudgetsSpec => []BudgetInv
  BY InitBudget, BudgetStep, PTL DEF BudgetsSpec

(* Types of the budget, the sums and the transactions.                     *)
THEOREM BudgetsTypeCorrect == BudgetsSpec => []BudgetsTypeOK
  <1> BudgetInv => BudgetsTypeOK
    BY DEF BudgetInv
  <1> QED
    BY AlwaysBudget, PTL

(* However many expenses race, those that passed the check of the present  *)
(* budget stay within its limit.                                           *)
THEOREM BudgetHolds == BudgetsSpec => []CheckedWithinLimit
  <1> BudgetInv => CheckedWithinLimit
    BY DEF BudgetInv
  <1> QED
    BY AlwaysBudget, PTL

HIDE BudgetsAssumption

-----------------------------------------------------------------------------
(* Tokens: any number of callbacks and deliveries, at every point of the code. *)

Took(d) == deliveries[d].pc \in {"taken", "processed", "crashed"}

(* An accepted state is consumed, and stays so; who took a nonce has it in *)
(* the table, alone.                                                       *)
TokensInv ==
  /\ TokensTypeOK
  /\ \A c \in Callbacks : callbacks[c].pc = "accepted" => oauthStates[callbacks[c].state].consumed
  /\ ReplayRefused
  /\ \A d \in Deliveries : Took(d) => deliveries[d].nonce \in nonces
  /\ \A c, d \in Deliveries : Took(c) /\ Took(d) /\ deliveries[c].nonce = deliveries[d].nonce => c = d

LEMMA InitTokens == TokensInit => TokensInv
  BY DEF TokensInit, TokensInv, TokensTypeOK, StoredState, Callback, Delivery, ReplayRefused, Took

LEMMA OauthStep == ASSUME TokensInv, OauthNext PROVE TokensInv'
  <1> USE DEF TokensInv
  <1>0. /\ oauthStates \in [States -> StoredState] /\ callbacks \in [Callbacks -> Callback]
        /\ UNCHANGED <<nonces, deliveries>>
    BY DEF TokensTypeOK, OauthNext, StoreState, StateExpires, CallbackCheck, CallbackConsume, CallbackFails
  <1>1. \A d \in Deliveries : Took(d)' <=> Took(d)
    BY <1>0 DEF Took
  <1>2. ASSUME NEW s \in States, StoreState(s) \/ StateExpires(s)
        PROVE  TokensInv'
    <2>1. oauthStates' \in [States -> StoredState] /\ UNCHANGED callbacks
      BY <1>0, <1>2 DEF StoreState, StateExpires, StoredState
    <2>2. \A q \in States : oauthStates[q].consumed => oauthStates'[q].consumed
      BY <1>0, <1>2 DEF StoreState, StateExpires, StoredState
    <2> QED
      BY <1>0, <1>1, <2>1, <2>2 DEF TokensTypeOK, Callback, ReplayRefused
  <1>3. ASSUME NEW c \in Callbacks, NEW s \in States, CallbackCheck(c, s)
        PROVE  TokensInv'
    <2> DEFINE new == [pc |-> IF IsValid(oauthStates[s]) THEN "checked" ELSE "refused", state |-> s,
                       replay |-> Accepted(s)]
    <2>1. callbacks' = [callbacks EXCEPT ![c] = new] /\ UNCHANGED oauthStates
      BY <1>3 DEF CallbackCheck
    <2>2. Accepted(s) \in BOOLEAN /\ (Accepted(s) => ~IsValid(oauthStates[s]))
      BY DEF Accepted, IsValid
    <2>3. new \in Callback /\ (new.replay => new.pc = "refused") /\ new.pc # "accepted"
      BY <2>2 DEF Callback
    <2> QED
      BY <1>0, <1>1, <2>1, <2>3 DEF TokensTypeOK, ReplayRefused
  <1>4. ASSUME NEW c \in Callbacks, CallbackConsume(c) \/ \E committed \in BOOLEAN : CallbackFails(c, committed)
        PROVE  TokensInv'
    <2> DEFINE s == callbacks[c].state
    <2>1. /\ callbacks[c].pc = "checked" /\ s \in States
          /\ \/ /\ callbacks' = [callbacks EXCEPT ![c].pc = "accepted"]
                /\ oauthStates' = [oauthStates EXCEPT ![s].consumed = TRUE]
             \/ /\ callbacks' = [callbacks EXCEPT ![c].pc = "refused"]
                /\ oauthStates' \in {oauthStates, [oauthStates EXCEPT ![s].consumed = TRUE]}
      BY <1>0, <1>4 DEF CallbackConsume, CallbackFails, Callback
    <2>2. CASE UNCHANGED oauthStates
      <3>1. callbacks' = [callbacks EXCEPT ![c].pc = "refused"] \/ oauthStates[s].consumed
        BY <1>0, <2>1, <2>2 DEF StoredState
      <3> QED
        BY <1>0, <1>1, <2>1, <2>2, <3>1 DEF TokensTypeOK, ReplayRefused, Callback
    <2>3. CASE oauthStates' = [oauthStates EXCEPT ![s].consumed = TRUE]
      <3>1. oauthStates' \in [States -> StoredState] /\ oauthStates'[s].consumed
        BY <1>0, <2>1, <2>3 DEF StoredState
      <3>2. \A q \in States : q # s => oauthStates'[q] = oauthStates[q]
        BY <1>0, <2>3
      <3>3. \A q \in States : oauthStates[q].consumed => oauthStates'[q].consumed
        BY <3>1, <3>2
      <3>4. callbacks' \in [Callbacks -> Callback] /\ callbacks'[c].state = s
        BY <1>0, <2>1 DEF Callback
      <3>5. /\ ~callbacks[c].replay /\ callbacks'[c].replay = callbacks[c].replay
            /\ \A d \in Callbacks : d # c => callbacks'[d] = callbacks[d]
        BY <1>0, <2>1 DEF Callback, ReplayRefused
      <3> QED
        BY <1>0, <1>1, <3>1, <3>3, <3>4, <3>5 DEF TokensTypeOK, ReplayRefused, Callback
    <2> QED
      BY <2>1, <2>2, <2>3
  <1> QED
    BY <1>2, <1>3, <1>4 DEF OauthNext

LEMMA WebhookStep == ASSUME TokensInv, WebhookNext PROVE TokensInv'
  <1> USE DEF TokensInv
  <1>0. /\ deliveries \in [Deliveries -> Delivery] /\ nonces \subseteq Nonces
        /\ UNCHANGED <<oauthStates, callbacks>>
    BY DEF TokensTypeOK, WebhookNext, Process, RecordIfNew
  <1>1. ASSUME NEW d \in Deliveries, Process(d)
        PROVE  TokensInv'
    <2>1. /\ deliveries' \in [Deliveries -> Delivery] /\ UNCHANGED nonces
          /\ \A c \in Deliveries : deliveries'[c].nonce = deliveries[c].nonce
      BY <1>0, <1>1 DEF Process, Delivery
    <2>2. \A c \in Deliveries : Took(c)' <=> Took(c)
      BY <1>0, <1>1 DEF Process, Delivery, Took
    <2> QED
      BY <1>0, <2>1, <2>2 DEF TokensTypeOK, ReplayRefused
  <1>2. ASSUME NEW d \in Deliveries, NEW n \in Nonces, RecordIfNew(d, n)
        PROVE  TokensInv'
    <2>1. /\ deliveries' \in [Deliveries -> Delivery] /\ nonces' = nonces \cup {n}
          /\ deliveries'[d].nonce = n
          /\ \A c \in Deliveries : c # d => deliveries'[c] = deliveries[c]
      BY <1>0, <1>2 DEF RecordIfNew, Delivery
    <2>2. Took(d)' => n \notin nonces
      BY <1>0, <1>2 DEF RecordIfNew, Took
    <2>3. \A c \in Deliveries : c # d => (Took(c)' <=> Took(c))
      BY <2>1 DEF Took
    <2> QED
      BY <1>0, <2>1, <2>2, <2>3 DEF TokensTypeOK, ReplayRefused
  <1> QED
    BY <1>1, <1>2 DEF WebhookNext

LEMMA AlwaysTokens == TokensSpec => []TokensInv
  <1>1. ASSUME TokensInv, UNCHANGED tokensVars PROVE TokensInv'
    BY <1>1 DEF TokensInv, tokensVars, TokensTypeOK, ReplayRefused, Took
  <1>2. TokensInv /\ [TokensNext]_tokensVars => TokensInv'
    BY <1>1, OauthStep, WebhookStep DEF TokensNext
  <1> QED
    BY <1>2, InitTokens, PTL DEF TokensSpec

(* A callback that comes after its state was accepted is refused.          *)
THEOREM ReplaysAreRefused == TokensSpec => []ReplayRefused
  <1>1. TokensInv => ReplayRefused
    BY DEF TokensInv
  <1> QED
    BY <1>1, AlwaysTokens, PTL

(* No webhook is processed twice.                                          *)
THEOREM NoncesAreUsedOnce == TokensSpec => []NonceProcessedOnce
  <1>1. TokensInv => NonceProcessedOnce
    BY DEF TokensInv, NonceProcessedOnce, Took
  <1> QED
    BY <1>1, AlwaysTokens, PTL

-----------------------------------------------------------------------------
(* Journal: a review keeps what was filled in.                             *)

JournalInv == JournalTypeOK /\ SubmittedFieldsSurvive

LEMMA ReviewStep ==
  ASSUME JournalInv, NEW a \in Actors, NEW date \in Dates, NEW fields \in SUBSET ReviewFields,
         ReviewWrite(a, date, fields)
  PROVE  JournalInv'
  <1> USE DEF JournalInv, JournalTypeOK
  <1> DEFINE k == <<a.user, date>>
             row == [exists |-> TRUE, workspace |-> IF reviews[k].exists THEN reviews[k].workspace ELSE a.workspace,
                     filled |-> reviews[k].filled \cup fields]
  <1>1. /\ k \in JournalUsers \X Dates /\ a.workspace \in JournalPlaces
        /\ reviews[k] \in ReviewRow
    BY DEF JournalUsers, JournalPlaces
  <1>2. row \in ReviewRow
    BY <1>1 DEF ReviewRow
  <1>3. /\ reviews' = [reviews EXCEPT ![k] = row]
        /\ submitted' = submitted \cup {<<a.user, date, f>> : f \in fields}
        /\ UNCHANGED <<checkins, xp, imports>>
    BY DEF ReviewWrite, ReviewUpsert, Merge
  <1>4. reviews' \in [JournalUsers \X Dates -> ReviewRow]
    BY <1>2, <1>3
  <1>5. \A j \in JournalUsers \X Dates : reviews[j].filled \subseteq reviews'[j].filled
    BY <1>3
  <1>6. fields \subseteq reviews'[k].filled
    BY <1>1, <1>3
  <1>7. submitted' \subseteq JournalUsers \X Dates \X ReviewFields
    BY <1>1, <1>3
  <1>8. ASSUME NEW t \in submitted'
        PROVE  t[3] \in reviews'[<<t[1], t[2]>>].filled
    <2>1. CASE t \in submitted
      <3>1. <<t[1], t[2]>> \in JournalUsers \X Dates
        BY <2>1
      <3> QED
        BY <1>5, <2>1, <3>1 DEF SubmittedFieldsSurvive
    <2>2. CASE \E f \in fields : t = <<a.user, date, f>>
      BY <1>6, <2>2
    <2> QED
      BY <1>3, <1>8, <2>1, <2>2
  <1> QED
    BY <1>3, <1>4, <1>7, <1>8 DEF SubmittedFieldsSurvive

(* Check-ins, awards and imports leave the reviews alone.                  *)
LEMMA CountStep ==
  ASSUME JournalInv, NEW a \in Actors,
         \/ \E h \in Habits, date \in Dates : Checkin(a, h, date)
         \/ \E delta \in Deltas : XpAward(a, delta)
         \/ ImportStart(a)
  PROVE  JournalInv'
  <1>0. /\ a.user \in JournalUsers /\ a.workspace \in JournalPlaces
        /\ UNCHANGED <<reviews, submitted>>
    BY DEF Checkin, CreateCheckin, XpAward, XpRepoAward, ImportStart, ImportRepoCreate, JournalUsers, JournalPlaces
  <1>1. checkins' \subseteq CheckinRow
    BY <1>0 DEF Checkin, CreateCheckin, XpAward, XpRepoAward, ImportStart, ImportRepoCreate, CheckinRow,
                JournalInv, JournalTypeOK
  <1>2. xp' \in [JournalPlaces \X JournalUsers -> Int]
    <2>1. CASE UNCHANGED xp
      BY <2>1 DEF JournalInv, JournalTypeOK
    <2>2. ASSUME NEW delta \in Deltas, XpAward(a, delta) PROVE xp' \in [JournalPlaces \X JournalUsers -> Int]
      <3> DEFINE k == <<a.workspace, a.user>>
      <3>1. xp[k] + delta \in Int /\ xp' = [xp EXCEPT ![k] = xp[k] + delta]
        BY <2>2 DEF XpAward, XpRepoAward, JournalInv, JournalTypeOK
      <3> QED BY <3>1 DEF JournalInv, JournalTypeOK
    <2> QED
      BY <2>1, <2>2 DEF Checkin, CreateCheckin, ImportStart, ImportRepoCreate
  <1>3. imports' \in [JournalPlaces -> Nat]
    BY <1>0 DEF Checkin, CreateCheckin, XpAward, XpRepoAward, ImportStart, ImportRepoCreate,
                JournalInv, JournalTypeOK
  <1> QED
    BY <1>0, <1>1, <1>2, <1>3 DEF JournalInv, JournalTypeOK, SubmittedFieldsSurvive

LEMMA AlwaysJournal == JournalSpec => []JournalInv
  <1>1. JournalInit => JournalInv
    <2> SUFFICES ASSUME JournalInit PROVE JournalInv
      OBVIOUS
    <2> DEFINE w == CHOOSE place \in JournalPlaces : TRUE
               Blank == [exists : {FALSE}, workspace : {w}, filled : {{}}]
    <2>0. /\ reviews \in [JournalUsers \X Dates -> Blank]
          /\ xp = [k \in JournalPlaces \X JournalUsers |-> 0] /\ imports = [p \in JournalPlaces |-> 0]
      BY Zenon DEF JournalInit
    <2>1. /\ reviews \in [JournalUsers \X Dates -> Blank] /\ submitted = {} /\ checkins = {}
          /\ xp \in [JournalPlaces \X JournalUsers -> Int] /\ imports \in [JournalPlaces -> Nat]
      <3> HIDE DEF Blank
      <3>1. submitted = {} /\ checkins = {}
        BY Zenon DEF JournalInit
      <3>2. xp \in [JournalPlaces \X JournalUsers -> Int]
        BY <2>0
      <3>3. imports \in [JournalPlaces -> Nat]
        BY <2>0
      <3> QED
        BY <2>0, <3>1, <3>2, <3>3
    <2>2. ASSUME NEW k \in JournalUsers \X Dates PROVE Blank \subseteq ReviewRow
      <3>1. PICK a \in Actors : TRUE
        BY <2>2 DEF JournalUsers
      <3>2. a.workspace \in JournalPlaces
        BY DEF JournalPlaces
      <3>3. w \in JournalPlaces
        BY <3>2
      <3> QED
        BY <3>3 DEF ReviewRow
    <2> HIDE DEF Blank
    <2>3. reviews \in [JournalUsers \X Dates -> ReviewRow]
      BY <2>1, <2>2
    <2> QED
      BY <2>1, <2>3 DEF JournalInv, JournalTypeOK, SubmittedFieldsSurvive
  <1>2. JournalInv /\ [JournalNext]_journalVars => JournalInv'
    <2> SUFFICES ASSUME JournalInv, [JournalNext]_journalVars PROVE JournalInv'
      OBVIOUS
    <2>1. CASE UNCHANGED journalVars
      BY <2>1 DEF journalVars, JournalInv, JournalTypeOK, SubmittedFieldsSurvive
    <2> QED
      BY <2>1, ReviewStep, CountStep DEF JournalNext
  <1> QED
    BY <1>1, <1>2, PTL DEF JournalSpec

(* A field somebody has filled in stays filled in.                         *)
THEOREM FieldsSurvive == JournalSpec => []SubmittedFieldsSurvive
  <1>1. JournalInv => SubmittedFieldsSurvive
    BY DEF JournalInv
  <1> QED
    BY <1>1, AlwaysJournal, PTL

-----------------------------------------------------------------------------
(* Browser: any number of tabs, tokens and requests.                       *)

USE BrowserAssumption

Forms == {"signin", "signup", "reset", "onboarding", "app", "locale"}

(* Only a page with a form or a button waits for answers; what was signed  *)
(* out is revoked, and a page requested with it is still loading.          *)
OnlyFormsWait == \A t \in Tabs : tabs[t].page \notin Forms => tabs[t].pending = {}

SignedOutRevoked == \A k \in signedOut : k \in SessionTokens /\ tokens[k] = "revoked"

StaleIsLoading ==
  \A t \in Tabs : tabs[t].stale => tabs[t].page = "loading" /\ tabs[t].token \in signedOut

BrowserInv == BrowserTypeOK /\ OnlyFormsWait /\ SignedOutRevoked /\ StaleIsLoading

LEMMA InitBrowser == BrowserInit => BrowserInv
  <1> SUFFICES ASSUME BrowserInit PROVE BrowserInv
    OBVIOUS
  <1>1. Fresh("signin", NoToken, FALSE) \in Tab
    BY DEF Fresh, Tab, Shown, Guarded, MaybeToken
  <1>2. sent \in [1..0 -> Sent] /\ 0 \in 0..MaxRequests
    BY DEF BrowserInit
  <1>3. BrowserTypeOK
    BY <1>1, <1>2 DEF BrowserInit, BrowserTypeOK, MaybeToken
  <1> QED
    BY <1>3 DEF BrowserInit, BrowserInv, OnlyFormsWait, SignedOutRevoked, StaleIsLoading, Fresh

(* A tab whose new state is in order, whatever else it is.                 *)
InOrder(tab) ==
  /\ tab \in Tab
  /\ tab.page \notin Forms => tab.pending = {}
  /\ tab.stale => tab.page = "loading" /\ tab.token \in signedOut

LEMMA TabsInOrder == BrowserInv => \A t \in Tabs : InOrder(tabs[t])
  BY DEF BrowserInv, BrowserTypeOK, OnlyFormsWait, StaleIsLoading, InOrder

(* A step that changes one tab only.                                       *)
LEMMA TabStep ==
  ASSUME BrowserInv, NEW t \in Tabs, NEW tab, InOrder(tab),
         tabs' = [tabs EXCEPT ![t] = tab], UNCHANGED <<cookie, tokens, signedOut, sent>>
  PROVE  BrowserInv'
  <1>1. tabs' \in [Tabs -> Tab]
    BY DEF BrowserInv, BrowserTypeOK, InOrder
  <1>2. \A s \in Tabs : tabs'[s] = IF s = t THEN tab ELSE tabs[s]
    BY DEF BrowserInv, BrowserTypeOK
  <1> QED
    BY <1>1, <1>2 DEF BrowserInv, BrowserTypeOK, OnlyFormsWait, SignedOutRevoked, StaleIsLoading, InOrder

LEMMA LoadInOrder == ASSUME BrowserInv, NEW page \in Shown PROVE InOrder(Load(page))
  <1>1. cookie \in MaybeToken
    BY DEF BrowserInv, BrowserTypeOK
  <1>2. ASSUME NEW p \in Shown, NEW token \in MaybeToken, NEW stale \in BOOLEAN,
               stale => p = "loading" /\ token \in signedOut, NEW w \in Guarded
        PROVE  InOrder([Fresh(p, token, stale) EXCEPT !.wanted = w])
    BY <1>2 DEF InOrder, Fresh, Tab, SentIds
  <1>3. CASE page \in Guarded
    <2>1. (cookie \in signedOut) \in BOOLEAN /\ "loading" \in Shown
      BY DEF Shown
    <2> QED
      BY <1>1, <1>2, <1>3, <2>1 DEF Load
  <1>4. CASE page \notin Guarded
    <2>1. InOrder(Fresh(page, NoToken, FALSE))
      BY DEF InOrder, Fresh, Tab, SentIds, MaybeToken, Guarded
    <2> QED
      BY <1>4, <2>1 DEF Load
  <1> QED
    BY <1>3, <1>4

LEMMA VisitStep ==
  ASSUME BrowserInv, NEW t \in Tabs, NEW page \in Shown, Visit(t, page)
  PROVE  BrowserInv'
  BY LoadInOrder, TabStep DEF Visit

LEMMA LeaveStep == ASSUME BrowserInv, NEW t \in Tabs, Leave(t) PROVE BrowserInv'
  <1>1. tabs[t].leaving \in Shown
    BY DEF BrowserInv, BrowserTypeOK, Tab, Leave
  <1> QED
    BY <1>1, VisitStep DEF Leave

(* The page that was wanted is shown to a session that is live, and so was *)
(* not signed out.                                                         *)
LEMMA GuardedStep ==
  ASSUME BrowserInv, NEW t \in Tabs, AppPage(t) \/ SettingsLayout(t)
  PROVE  BrowserInv'
  <1>0. /\ tabs[t].page = "loading" /\ InOrder(tabs[t])
        /\ UNCHANGED <<cookie, tokens, signedOut, sent>>
    BY TabsInOrder DEF AppPage, SettingsLayout
  <1>1. CASE GetSession(t) /\ Granted(t)
    <2> DEFINE tab == [tabs[t] EXCEPT !.page = tabs[t].wanted, !.wanted = "app", !.token = NoToken]
    <2>1. tabs[t].token \notin signedOut
      BY <1>1 DEF GetSession, BrowserInv, SignedOutRevoked
    <2>2. ~tabs[t].stale /\ tabs[t].pending = {}
      BY <1>0, <2>1 DEF InOrder, Forms
    <2>3. InOrder(tab)
      BY <1>0, <2>2 DEF InOrder, Tab, Guarded, Shown, MaybeToken
    <2> QED
      BY <1>0, <1>1, <2>3, TabStep DEF Granted
  <1>2. CASE \E page \in {"signin", "elsewhere"} : tabs' = [tabs EXCEPT ![t] = Load(page)]
    <2>1. {"signin", "elsewhere"} \subseteq Shown
      BY DEF Shown
    <2> QED
      BY <1>0, <1>2, <2>1, LoadInOrder, TabStep
  <1> QED
    BY <1>1, <1>2 DEF AppPage, SettingsLayout, RequireSession

(* A fetch, by a page with a form.                                         *)
LEMMA FetchStep ==
  ASSUME BrowserInv, NEW t \in Tabs, NEW to \in Endpoints, NEW form, InOrder(form),
         form.page \in Forms, Fetch(t, to, form)
  PROVE  BrowserInv'
  <1> DEFINE i == Count + 1
             new == [pc |-> "sent", to |-> to, tab |-> t, token |-> cookie, answer |-> "none", setCookie |-> "keep"]
             tab == [form EXCEPT !.pending = @ \cup {i}]
  <1>1. PICK n \in 0..MaxRequests : sent \in [1..n -> Sent]
    BY DEF BrowserInv, BrowserTypeOK
  <1>2. Count \in 0..MaxRequests /\ DOMAIN sent = 1..Count
    BY <1>1 DEF Count
  <1>3. i \in SentIds /\ i \in 0..MaxRequests /\ Count \in Nat
    BY <1>2 DEF Fetch, SentIds
  <1>4. new \in Sent
    BY DEF Sent, BrowserInv, BrowserTypeOK
  <1>5. sent' = [j \in 1..i |-> IF j < i THEN sent[j] ELSE new]
    BY DEF Fetch
  <1>6. sent' \in [1..i -> Sent]
    <2>1. \A j \in 1..i : j < i => sent[j] \in Sent
      BY <1>1, <1>2, <1>3
    <2> QED
      BY <1>4, <1>5, <2>1
  <1>7. tabs' = [tabs EXCEPT ![t] = tab] /\ UNCHANGED <<cookie, tokens, signedOut>>
    BY DEF Fetch
  <1>8. InOrder(tab)
    BY <1>3 DEF InOrder, Tab
  <1>9. tabs' \in [Tabs -> Tab] /\ \A s \in Tabs : tabs'[s] = IF s = t THEN tab ELSE tabs[s]
    BY <1>7, <1>8 DEF BrowserInv, BrowserTypeOK, InOrder
  <1>10. BrowserTypeOK'
    BY <1>3, <1>6, <1>7, <1>9 DEF BrowserInv, BrowserTypeOK
  <1> QED
    BY <1>7, <1>8, <1>9, <1>10 DEF BrowserInv, OnlyFormsWait, SignedOutRevoked, StaleIsLoading, InOrder

LEMMA FormStep ==
  ASSUME BrowserInv, NEW t \in Tabs,
         \/ HandleEmailAuth(t) \/ SignupSubmit(t) \/ ResetSubmit(t) \/ OnboardingSubmit(t)
         \/ SignOutButton(t) \/ LocaleSwitcher(t)
  PROVE  BrowserInv'
  <1>1. InOrder(tabs[t]) /\ tabs[t] \in Tab
    BY TabsInOrder DEF InOrder
  <1>2. InOrder(Submitting(tabs[t])) /\ Submitting(tabs[t]).page = tabs[t].page
    BY <1>1 DEF InOrder, Submitting, Tab
  <1>3. tabs[t].page \in Forms
    BY DEF HandleEmailAuth, SignupSubmit, ResetSubmit, OnboardingSubmit, SignOutButton, LocaleSwitcher,
           SigninEnabled, SignupEnabled, ResetEnabled, OnboardingEnabled, Forms
  <1>4. {"signin", "signup", "reset", "workspaces", "signout", "me"} = Endpoints /\ tabs[t].mode \in Endpoints
    BY <1>1 DEF Endpoints, Tab
  <1> QED
    BY <1>1, <1>2, <1>3, <1>4, FetchStep
       DEF HandleEmailAuth, SignupSubmit, ResetSubmit, OnboardingSubmit, SignOutButton, LocaleSwitcher

LEMMA ButtonStep ==
  ASSUME BrowserInv, NEW t \in Tabs, HandleOAuth(t) \/ ToggleMode(t)
  PROVE  BrowserInv'
  <1>1. InOrder(tabs[t]) /\ tabs[t].page = "signin" /\ UNCHANGED <<cookie, tokens, signedOut, sent>>
    BY TabsInOrder DEF HandleOAuth, ToggleMode, OauthEnabled
  <1>2. CASE HandleOAuth(t)
    <2>1. InOrder([tabs[t] EXCEPT !.oauthBusy = TRUE, !.notice = "none", !.leaving = "elsewhere"])
      BY <1>1 DEF InOrder, Tab, Shown, Forms
    <2> QED
      BY <1>1, <1>2, <2>1, TabStep DEF HandleOAuth
  <1>3. CASE ToggleMode(t)
    <2>1. InOrder([tabs[t] EXCEPT !.mode = IF @ = "signin" THEN "signup" ELSE "signin", !.notice = "none"])
      BY <1>1 DEF InOrder, Tab, Forms
    <2> QED
      BY <1>1, <1>3, <2>1, TabStep DEF ToggleMode
  <1> QED
    BY <1>2, <1>3

(* A step of a request that changes its record, the sessions and perhaps   *)
(* the cookie: what was signed out stays revoked.                          *)
LEMMA RequestStep ==
  ASSUME BrowserInv, NEW i \in DOMAIN sent, NEW new \in Sent, sent' = [sent EXCEPT ![i] = new],
         cookie' \in MaybeToken, tokens' \in [SessionTokens -> {"none", "live", "revoked"}],
         signedOut \subseteq signedOut',
         \A k \in signedOut' : k \in SessionTokens /\ tokens'[k] = "revoked",
         tabs' \in [Tabs -> Tab],
         \A t \in Tabs : InOrder(tabs'[t])
  PROVE  BrowserInv'
  <1>1. PICK n \in 0..MaxRequests : sent \in [1..n -> Sent]
    BY DEF BrowserInv, BrowserTypeOK
  <1>2. sent' \in [1..n -> Sent]
    BY <1>1
  <1>3. BrowserTypeOK'
    BY <1>2 DEF BrowserInv, BrowserTypeOK
  <1> QED
    BY <1>3 DEF BrowserInv, OnlyFormsWait, SignedOutRevoked, StaleIsLoading, InOrder

LEMMA SentInSent == ASSUME BrowserInv, NEW i \in DOMAIN sent PROVE sent[i] \in Sent
  BY DEF BrowserInv, BrowserTypeOK

LEMMA RouteStep ==
  ASSUME BrowserInv, NEW i \in DOMAIN sent,
         PostSignin(i) \/ PostSignup(i) \/ PostSignout(i) \/ PostReset(i) \/ PostWorkspaces(i) \/ PatchMe(i)
  PROVE  BrowserInv'
  <1>0. /\ sent[i] \in Sent /\ cookie \in MaybeToken /\ tokens \in [SessionTokens -> {"none", "live", "revoked"}]
        /\ tabs \in [Tabs -> Tab] /\ \A t \in Tabs : InOrder(tabs[t])
        /\ \A k \in signedOut : k \in SessionTokens /\ tokens[k] = "revoked"
        /\ NoToken \in MaybeToken /\ SessionTokens \subseteq MaybeToken
    BY SentInSent, TabsInOrder DEF BrowserInv, BrowserTypeOK, SignedOutRevoked, MaybeToken
  <1>1. ASSUME NEW code \in {"ok", "refused", "broken"}, NEW setCookie \in MaybeToken \cup {"keep"},
               Reply(i, code, setCookie)
        PROVE  /\ \E new \in Sent : sent' = [sent EXCEPT ![i] = new]
               /\ UNCHANGED <<cookie, tabs>>
    <2>1. [sent[i] EXCEPT !.pc = "answered", !.answer = code, !.setCookie = setCookie] \in Sent
      BY <1>0, <1>1 DEF Sent
    <2> QED
      BY <1>1, <2>1 DEF Reply
  <1>2. CASE /\ \E code \in {"refused", "broken"} : Reply(i, code, "keep")
             /\ UNCHANGED <<tokens, signedOut>>
    BY <1>0, <1>1, <1>2, RequestStep
  <1>3. CASE PostSignin(i)
    <2>1. ASSUME NEW k \in SessionTokens, tokens[k] = "none", tokens' = [tokens EXCEPT ![k] = "live"],
                 Reply(i, "ok", k) \/ Reply(i, "broken", "keep"), UNCHANGED signedOut
          PROVE  BrowserInv'
      <3>1. \A l \in signedOut : tokens'[l] = "revoked"
        BY <1>0, <2>1
      <3>2. (\E new \in Sent : sent' = [sent EXCEPT ![i] = new]) /\ UNCHANGED <<cookie, tabs>>
        BY <1>0, <1>1, <2>1
      <3> QED
        BY <1>0, <2>1, <3>1, <3>2, RequestStep
    <2> QED
      BY <1>2, <1>3, <2>1 DEF PostSignin
  <1>4. CASE PostSignout(i)
    <2>1. CASE /\ Reply(i, "ok", NoToken)
               /\ tokens' = [k \in SessionTokens |-> IF k = sent[i].token THEN "revoked" ELSE tokens[k]]
               /\ signedOut' = signedOut \cup ({sent[i].token} \ {NoToken})
      <3>1. sent[i].token \in MaybeToken
        BY <1>0 DEF Sent
      <3>2. \A l \in signedOut' : l \in SessionTokens /\ tokens'[l] = "revoked"
        BY <1>0, <2>1, <3>1 DEF MaybeToken
      <3>3. (\E new \in Sent : sent' = [sent EXCEPT ![i] = new]) /\ UNCHANGED <<cookie, tabs>>
        BY <1>0, <1>1, <2>1
      <3>4. tokens' \in [SessionTokens -> {"none", "live", "revoked"}] /\ signedOut \subseteq signedOut'
        BY <1>0, <2>1
      <3> QED
        BY <1>0, <2>1, <3>2, <3>3, <3>4, RequestStep
    <2> QED
      BY <1>2, <1>4, <2>1 DEF PostSignout
  <1> QED
    BY <1>2, <1>3, <1>4 DEF PostSignup, PostReset, PostWorkspaces, PatchMe

(* What a handler does with an answer leaves its page where it is.         *)
LEMMA AnswerInOrder ==
  ASSUME BrowserInv, NEW i \in DOMAIN sent, Awaited(i), NEW outcome, sent[i].tab \in Tabs
  PROVE  InOrder(AfterFetch(sent[i].tab, i, outcome))
  <1> DEFINE tab == [tabs[sent[i].tab] EXCEPT !.pending = @ \ {i}]
  <1>1. InOrder(tabs[sent[i].tab]) /\ tabs[sent[i].tab].pending # {}
    BY TabsInOrder DEF Awaited
  <1>2. InOrder(tab) /\ tab.page \in Forms /\ tab.page # "loading"
    BY <1>1 DEF InOrder, Tab, Forms
  <1> HIDE DEF tab
  <1>3. ASSUME NEW state, state = Failing(tab) \/ \E page \in Shown :
                 \/ state = GoingTo(tab, page)
                 \/ state = GoingTo([tab EXCEPT !.busy = FALSE], page)
                 \/ state = [tab EXCEPT !.busy = FALSE, !.notice = "registered", !.mode = "signin"]
                 \/ state = [tab EXCEPT !.busy = FALSE, !.notice = "sent"]
                 \/ state = tab
        PROVE  InOrder(state)
    BY <1>2, <1>3 DEF InOrder, Tab, Failing, GoingTo
  <1>4. {"app", "elsewhere", "signin", "locale"} \subseteq Shown
    BY DEF Shown, Guarded
  <1>5. \A to : InOrder(AfterEmailAuth(tab, to, outcome))
    BY <1>3, <1>4 DEF AfterEmailAuth
  <1>6. /\ InOrder(AfterSignup(tab, outcome)) /\ InOrder(AfterReset(tab, outcome))
        /\ InOrder(AfterOnboarding(tab, outcome)) /\ InOrder(AfterSignOut(tab, outcome))
        /\ InOrder(AfterLocale(tab, outcome))
    BY <1>3, <1>4 DEF AfterSignup, AfterReset, AfterOnboarding, AfterSignOut, AfterLocale
  <1>7. AfterFetch(sent[i].tab, i, outcome) \in
          {AfterEmailAuth(tab, sent[i].to, outcome), AfterSignup(tab, outcome), AfterReset(tab, outcome),
           AfterOnboarding(tab, outcome), AfterSignOut(tab, outcome), AfterLocale(tab, outcome)}
    BY <1>2 DEF tab, AfterFetch, Forms
  <1> QED
    BY <1>5, <1>6, <1>7

LEMMA AnswerStep ==
  ASSUME BrowserInv, NEW i \in DOMAIN sent, Arrive(i) \/ GiveUp(i) \/ Abandon(i)
  PROVE  BrowserInv'
  <1> DEFINE done == [sent[i] EXCEPT !.pc = "done", !.token = NoToken, !.answer = "none", !.setCookie = "keep"]
  <1>0. /\ sent[i] \in Sent /\ cookie \in MaybeToken /\ tokens \in [SessionTokens -> {"none", "live", "revoked"}]
        /\ tabs \in [Tabs -> Tab] /\ \A t \in Tabs : InOrder(tabs[t])
        /\ \A k \in signedOut : k \in SessionTokens /\ tokens[k] = "revoked"
        /\ UNCHANGED <<tokens, signedOut>>
    BY SentInSent, TabsInOrder DEF BrowserInv, BrowserTypeOK, SignedOutRevoked, Arrive, GiveUp, Abandon
  <1>1. done \in Sent /\ sent[i].tab \in Tabs /\ (SetCookie(i) => cookie' \in MaybeToken)
    BY <1>0 DEF Sent, MaybeToken, SetCookie
  <1>2. ASSUME NEW outcome, Awaited(i), Settle(i, outcome)
        PROVE  tabs' \in [Tabs -> Tab] /\ \A t \in Tabs : InOrder(tabs'[t])
    <2>1. InOrder(AfterFetch(sent[i].tab, i, outcome))
      BY <1>1, <1>2, AnswerInOrder
    <2> HIDE DEF done
    <2> QED
      BY <1>0, <1>1, <1>2, <2>1 DEF Settle, InOrder
  <1>3. CASE Arrive(i)
    BY <1>0, <1>1, <1>2, <1>3, RequestStep DEF Arrive, Done
  <1>4. CASE GiveUp(i)
    <2>1. sent' = [sent EXCEPT ![i] = sent[i]]
      BY <1>4 DEF GiveUp, BrowserInv, BrowserTypeOK
    <2> QED
      BY <1>0, <1>2, <1>4, <2>1, RequestStep DEF GiveUp
  <1>5. CASE Abandon(i)
    BY <1>0, <1>1, <1>5, RequestStep DEF Abandon, Done
  <1> QED
    BY <1>3, <1>4, <1>5

LEMMA AlwaysBrowser == BrowserSpec => []BrowserInv
  <1>1. ASSUME BrowserInv, UNCHANGED browserVars PROVE BrowserInv'
    BY <1>1 DEF browserVars, BrowserInv, BrowserTypeOK, OnlyFormsWait, SignedOutRevoked, StaleIsLoading
  <1>2. ASSUME BrowserInv, NEW t \in Tabs, SessionOps(t) \/ FormOps(t) PROVE BrowserInv'
    <2>1. {"signin", "app", "signup", "reset", "onboarding", "locale"} \subseteq Shown
      BY DEF Shown, Guarded
    <2> QED
      BY <1>2, <2>1, VisitStep, LeaveStep, GuardedStep, FormStep, ButtonStep DEF SessionOps, FormOps
  <1>3. ASSUME BrowserInv, NEW i \in DOMAIN sent, RequestOps(i) PROVE BrowserInv'
    BY <1>3, RouteStep, AnswerStep DEF RequestOps
  <1>4. BrowserInv /\ [BrowserNext]_browserVars => BrowserInv'
    BY <1>1, <1>2, <1>3 DEF BrowserNext
  <1> QED
    BY <1>4, InitBrowser, PTL DEF BrowserSpec

(* Once the server has signed a session out, no tab shows a guarded page   *)
(* it was asked for with that cookie.                                      *)
THEOREM SignedOutIsOut == BrowserSpec => []SignedOutStaysOut
  <1>1. BrowserInv => SignedOutStaysOut
    BY DEF BrowserInv, StaleIsLoading, SignedOutStaysOut, Guarded
  <1> QED
    BY <1>1, AlwaysBrowser, PTL

HIDE BrowserAssumption

-----------------------------------------------------------------------------
(* Records: any rows, actors and page limits.                              *)

USE RecordsAssumption

Names == {"tasks", "habits", "events", "vaultItems", "shares"}

RowType == [tasks |-> TaskRow, habits |-> HabitRow, events |-> EventRow, vaultItems |-> VaultRow,
            shares |-> ShareRow]

Ids == [tasks |-> TaskIds, habits |-> OtherIds, events |-> OtherIds, vaultItems |-> OtherIds, shares |-> OtherIds]

Table(ids, Row) == UNION {[S -> Row] : S \in SUBSET ids}

Codes == {"none", "ok", "AUTH_FORBIDDEN", "NOT_FOUND", "CALENDAR_TIME_INVALID"}

(* The tables have their columns' types, and the last answer was of the    *)
(* workspace it went to.                                                   *)
RecordsInv ==
  /\ DOMAIN rows = Names
  /\ rows = [t \in DOMAIN rows |-> rows[t]]
  /\ \A t \in Names : rows[t] \in Table(Ids[t], RowType[t])
  /\ answer.code \in Codes
  /\ BelongsTo(answer.to, answer.entity)

Reaches(a, t, row) == row.workspaceId = a.workspace /\ (t = "vaultItems" => row.ownerUserId = a.user)

(* What a call may make of a table.                                        *)
Lawful(a, t, old, new) ==
  /\ \A i \in DOMAIN old : i \in DOMAIN new /\ (old[i].isDeleted => new[i] = old[i])
  /\ \A i \in DOMAIN new :
       \/ i \in DOMAIN old /\ new[i] = old[i]
       \/ Reaches(a, t, new[i]) /\ (i \in DOMAIN old => Reaches(a, t, old[i]))

Keeps ==
  \A t \in TableNames : \A i \in DOMAIN rows[t] :
    /\ i \in DOMAIN rows'[t]
    /\ rows[t][i].isDeleted => rows'[t][i] = rows[t][i]

OwnOnly ==
  LET a == answer'.to
      Reach(t, row) == row.workspaceId = a.workspace /\ (t = "vaultItems" => row.ownerUserId = a.user)
  IN  /\ rows' # rows => answer'.code = "ok"
      /\ \A t \in TableNames : \A i \in DOMAIN rows'[t] :
           \/ i \in DOMAIN rows[t] /\ rows'[t][i] = rows[t][i]
           \/ /\ Reach(t, rows'[t][i])
              /\ i \in DOMAIN rows[t] => Reach(t, rows[t][i])
      /\ BelongsTo(a, answer'.entity)

Good == RecordsInv' /\ Keeps /\ OwnOnly

LEMMA QuietCall ==
  ASSUME RecordsInv, UNCHANGED rows, answer'.code \in Codes,
         BelongsTo(answer'.to, answer'.entity)
  PROVE  Good
  BY DEF Good, RecordsInv, Keeps, OwnOnly, TableNames

LEMMA LawfulCall ==
  ASSUME RecordsInv, NEW a \in Actors, NEW t \in Names, NEW new \in Table(Ids[t], RowType[t]),
         rows' = [rows EXCEPT ![t] = new], Lawful(a, t, rows[t], new),
         answer'.to = a, answer'.code = "ok",
         BelongsTo(a, answer'.entity)
  PROVE  Good
  <1>1. /\ DOMAIN rows' = Names /\ rows' = [u \in DOMAIN rows' |-> rows'[u]]
        /\ rows'[t] = new /\ \A u \in Names : u # t => rows'[u] = rows[u]
    BY DEF RecordsInv
  <1>2. RecordsInv'
    BY <1>1 DEF RecordsInv, Codes
  <1>3. Keeps
    BY <1>1 DEF RecordsInv, Keeps, TableNames, Lawful
  <1>4. OwnOnly
    BY <1>1 DEF RecordsInv, OwnOnly, TableNames, Lawful, Reaches
  <1> QED
    BY <1>2, <1>3, <1>4 DEF Good

(* An INSERT.                                                              *)
LEMMA InsertedIsLawful ==
  ASSUME RecordsInv, NEW a \in Actors, NEW t \in Names, NEW i \in Ids[t], i \notin DOMAIN rows[t],
         NEW row \in RowType[t], Reaches(a, t, row)
  PROVE  /\ Inserted(rows[t], i, row) \in Table(Ids[t], RowType[t])
         /\ Lawful(a, t, rows[t], Inserted(rows[t], i, row))
  <1> DEFINE new == Inserted(rows[t], i, row)
  <1>1. PICK S \in SUBSET Ids[t] : rows[t] \in [S -> RowType[t]]
    BY DEF RecordsInv, Table
  <1>2. new \in [S \cup {i} -> RowType[t]] /\ S \cup {i} \in SUBSET Ids[t]
    BY <1>1 DEF Inserted
  <1>3. new \in Table(Ids[t], RowType[t])
    BY <1>2 DEF Table
  <1>4. DOMAIN new = S \cup {i} /\ new[i] = row /\ \A j \in S : new[j] = rows[t][j]
    BY <1>1 DEF Inserted
  <1> HIDE DEF new
  <1>5. Lawful(a, t, rows[t], new)
    BY <1>1, <1>4 DEF Lawful
  <1> QED
    BY <1>3, <1>5 DEF new

(* An UPDATE of a live row the caller reaches, which leaves its workspace  *)
(* and its owner.                                                          *)
LEMMA ChangedIsLawful ==
  ASSUME RecordsInv, NEW a \in Actors, NEW t \in Names, NEW i \in DOMAIN rows[t], NEW row \in RowType[t],
         Reaches(a, t, rows[t][i]), Reaches(a, t, row), ~rows[t][i].isDeleted
  PROVE  /\ [rows[t] EXCEPT ![i] = row] \in Table(Ids[t], RowType[t])
         /\ Lawful(a, t, rows[t], [rows[t] EXCEPT ![i] = row])
  <1> DEFINE new == [rows[t] EXCEPT ![i] = row]
  <1>1. PICK S \in SUBSET Ids[t] : rows[t] \in [S -> RowType[t]]
    BY DEF RecordsInv, Table
  <1>2. new \in [S -> RowType[t]] /\ DOMAIN new = S /\ new[i] = row /\ \A j \in S : j # i => new[j] = rows[t][j]
    BY <1>1
  <1>3. new \in Table(Ids[t], RowType[t])
    BY <1>2 DEF Table
  <1> HIDE DEF new
  <1>4. Lawful(a, t, rows[t], new)
    BY <1>1, <1>2 DEF Lawful
  <1> QED
    BY <1>3, <1>4 DEF new

LEMMA InsertCall ==
  ASSUME RecordsInv, NEW a \in Actors, NEW t \in Names, NEW i \in Ids[t], i \notin DOMAIN rows[t],
         NEW row \in RowType[t], Reaches(a, t, row), NEW entity, BelongsTo(a, entity),
         rows' = [rows EXCEPT ![t] = Inserted(rows[t], i, row)], Answer(a, "ok", entity)
  PROVE  Good
  BY InsertedIsLawful, LawfulCall DEF Answer

LEMMA ChangeCall ==
  ASSUME RecordsInv, NEW a \in Actors, NEW t \in Names, NEW i \in DOMAIN rows[t], NEW row \in RowType[t],
         Reaches(a, t, rows[t][i]), Reaches(a, t, row), ~rows[t][i].isDeleted,
         NEW entity, BelongsTo(a, entity),
         rows' = [rows EXCEPT ![t] = [rows[t] EXCEPT ![i] = row]], Answer(a, "ok", entity)
  PROVE  Good
  BY ChangedIsLawful, LawfulCall DEF Answer

LEMMA RefuseCall == ASSUME RecordsInv, NEW a \in Actors, NEW code \in Codes, Refuse(a, code) PROVE Good
  BY QuietCall DEF Refuse, Answer, BelongsTo

LEMMA ReadCall ==
  ASSUME RecordsInv, NEW a \in Actors, NEW entity, BelongsTo(a, entity),
         UNCHANGED rows, Answer(a, "ok", entity)
  PROVE  Good
  BY QuietCall DEF Answer, Codes

LEMMA DeletedRow ==
  ASSUME NEW t \in Names, NEW row \in RowType[t]
  PROVE  LET gone == [row EXCEPT !.isDeleted = TRUE]
         IN  /\ gone \in RowType[t] /\ gone.workspaceId = row.workspaceId
             /\ t = "vaultItems" => gone.ownerUserId = row.ownerUserId
  <1>1. CASE t = "tasks"
    BY <1>1 DEF RowType, TaskRow
  <1>2. CASE t = "habits"
    BY <1>2 DEF RowType, HabitRow
  <1>3. CASE t = "events"
    BY <1>3 DEF RowType, EventRow
  <1>4. CASE t = "vaultItems"
    BY <1>4 DEF RowType, VaultRow
  <1>5. CASE t = "shares"
    BY <1>5 DEF RowType, ShareRow
  <1> QED
    BY <1>1, <1>2, <1>3, <1>4, <1>5 DEF Names

LEMMA RowTyped ==
  ASSUME RecordsInv, NEW t \in Names, NEW i \in DOMAIN rows[t] PROVE rows[t][i] \in RowType[t]
  BY DEF RecordsInv, Table

LEMMA DeleteCall ==
  ASSUME RecordsInv, NEW a \in Actors, NEW t \in Names, NEW i, IsLive(rows[t], i, a.workspace),
         t = "vaultItems" => rows[t][i].ownerUserId = a.user,
         rows' = [rows EXCEPT ![t] = SoftDeleted(rows[t], i)], Answer(a, "ok", Nothing)
  PROVE  Good
  <1>1. i \in DOMAIN rows[t] /\ ~rows[t][i].isDeleted /\ Reaches(a, t, rows[t][i])
    BY DEF IsLive, Reaches
  <1>2. rows[t][i] \in RowType[t]
    BY <1>1, RowTyped
  <1>3. PICK row : row = [rows[t][i] EXCEPT !.isDeleted = TRUE]
    OBVIOUS
  <1>4. row \in RowType[t] /\ Reaches(a, t, row)
    BY <1>1, <1>2, <1>3, DeletedRow DEF Reaches
  <1>5. SoftDeleted(rows[t], i) = [rows[t] EXCEPT ![i] = row]
    BY <1>1, <1>3 DEF SoftDeleted
  <1>6. /\ SoftDeleted(rows[t], i) \in Table(Ids[t], RowType[t])
        /\ Lawful(a, t, rows[t], SoftDeleted(rows[t], i))
    BY <1>1, <1>4, <1>5, ChangedIsLawful
  <1>7. answer'.to = a /\ answer'.code = "ok" /\ answer'.entity = Nothing
    BY DEF Answer
  <1> QED
    BY <1>6, <1>7, LawfulCall DEF BelongsTo

(* rows.tasks is rows["tasks"].                                            *)
LEMMA FieldsAreTables ==
  ASSUME RecordsInv, NEW new
  PROVE  /\ [rows EXCEPT !.tasks = new] = [rows EXCEPT !["tasks"] = new]
         /\ [rows EXCEPT !.habits = new] = [rows EXCEPT !["habits"] = new]
         /\ [rows EXCEPT !.events = new] = [rows EXCEPT !["events"] = new]
         /\ [rows EXCEPT !.vaultItems = new] = [rows EXCEPT !["vaultItems"] = new]
         /\ [rows EXCEPT !.shares = new] = [rows EXCEPT !["shares"] = new]
  BY DEF RecordsInv, Names

LEMMA ActorsPlace == \A a \in Actors : a.workspace \in Workspaces /\ a.user \in Users
  BY DEF Workspaces, Users

LEMMA CodesNamed == {"ok", "AUTH_FORBIDDEN", "NOT_FOUND", "CALENDAR_TIME_INVALID"} = Codes \ {"none"}
  BY DEF Codes

LEMMA TaskStep ==
  ASSUME RecordsInv, NEW a \in Actors, NEW i \in TaskIds, TaskOps(a, i) \/ TaskEdits(a, i)
  PROVE  Good
  <1>0. a.workspace \in Workspaces /\ "tasks" \in Names /\ RowType["tasks"] = TaskRow /\ Ids["tasks"] = TaskIds
    BY ActorsPlace DEF Names, Ids, RowType, Ids
  <1>1. ASSUME NEW row \in TaskRow, row.workspaceId = a.workspace, IsLive(rows.tasks, i, a.workspace),
               rows' = [rows EXCEPT !.tasks = [rows.tasks EXCEPT ![i] = row]], Answer(a, "ok", Task(i, row))
        PROVE  Good
    <2>1. rows["tasks"] = rows.tasks /\ BelongsTo(a, Task(i, row))
      BY <1>1 DEF Task, BelongsTo
    <2>2. i \in DOMAIN rows["tasks"] /\ ~rows["tasks"][i].isDeleted
      BY <1>1 DEF IsLive
    <2>3. Reaches(a, "tasks", rows["tasks"][i]) /\ Reaches(a, "tasks", row)
      BY <1>1 DEF IsLive, Reaches
    <2>4. rows' = [rows EXCEPT !["tasks"] = [rows["tasks"] EXCEPT ![i] = row]]
      BY <1>1, FieldsAreTables
    <2> QED
      BY <1>0, <1>1, <2>1, <2>2, <2>3, <2>4, ChangeCall
  <1>2. CASE TaskCreate(a, i)
    <2>1. NewTask(a.workspace) \in TaskRow
      BY <1>0 DEF NewTask, TaskRow, Titles, Null, RecordsAssumption
    <2>2. ASSUME TaskRepoCreate(i, a.workspace), Answer(a, "ok", Task(i, NewTask(a.workspace)))
          PROVE  Good
      <3>1. rows' = [rows EXCEPT !["tasks"] = Inserted(rows["tasks"], i, NewTask(a.workspace))]
        BY <2>2, FieldsAreTables DEF TaskRepoCreate
      <3>2. Reaches(a, "tasks", NewTask(a.workspace)) /\ i \notin DOMAIN rows["tasks"]
        BY <1>2 DEF Reaches, NewTask, TaskCreate, Unused
      <3>3. BelongsTo(a, Task(i, NewTask(a.workspace)))
        BY DEF Task, NewTask, BelongsTo
      <3> QED
        BY <1>0, <2>1, <2>2, <3>1, <3>2, <3>3, InsertCall
    <2> QED
      BY <1>2, <2>2, CodesNamed, RefuseCall DEF TaskCreate, Serve
  <1>3. CASE TaskGetById(a, i)
    <2>1. IsLive(rows.tasks, i, a.workspace) => BelongsTo(a, Task(i, rows.tasks[i]))
      BY DEF IsLive, Task, BelongsTo
    <2> QED
      BY <1>3, <2>1, CodesNamed, RefuseCall, ReadCall DEF TaskGetById, Serve
  <1>4. ASSUME NEW status \in Statuses, TaskUpdateStatus(a, i, status)
        PROVE  Good
    <2>1. ASSUME IsLive(rows.tasks, i, a.workspace), TaskRepoUpdateStatus(i, status),
                 Answer(a, "ok", Task(i, WithStatus(rows.tasks[i], status)))
          PROVE  Good
      <3>1. rows.tasks[i] \in TaskRow /\ rows.tasks[i].workspaceId = a.workspace
        BY <1>0, <2>1, RowTyped DEF IsLive
      <3>2. /\ WithStatus(rows.tasks[i], status) \in TaskRow
            /\ WithStatus(rows.tasks[i], status).workspaceId = a.workspace
        BY <3>1 DEF WithStatus, TaskRow
      <3>3. rows' = [rows EXCEPT !.tasks = [rows.tasks EXCEPT ![i] = WithStatus(rows.tasks[i], status)]]
        BY <2>1 DEF TaskRepoUpdateStatus, RecordsInv, Names, IsLive
      <3> QED
        BY <1>1, <2>1, <3>2, <3>3
    <2> QED
      BY <1>4, <2>1, CodesNamed, RefuseCall DEF TaskUpdateStatus, Serve
  <1>5. ASSUME NEW patch \in Patches, TaskRepoUpdate(a, i, patch)
        PROVE  Good
    <2>1. ASSUME IsLive(rows.tasks, i, a.workspace), rows' = [rows EXCEPT !.tasks[i] = WithPatch(@, patch)],
                 Answer(a, "ok", Task(i, WithPatch(rows.tasks[i], patch)))
          PROVE  Good
      <3>1. rows.tasks[i] \in TaskRow /\ rows.tasks[i].workspaceId = a.workspace
        BY <1>0, <2>1, RowTyped DEF IsLive
      <3>2. /\ WithPatch(rows.tasks[i], patch) \in TaskRow
            /\ WithPatch(rows.tasks[i], patch).workspaceId = a.workspace
        BY <3>1 DEF WithPatch, TaskRow, Titles, Null
      <3>3. rows' = [rows EXCEPT !.tasks = [rows.tasks EXCEPT ![i] = WithPatch(rows.tasks[i], patch)]]
        BY <2>1 DEF RecordsInv, Names, IsLive
      <3> QED
        BY <1>1, <2>1, <3>2, <3>3
    <2> QED
      BY <1>5, <2>1, CodesNamed, RefuseCall DEF TaskRepoUpdate, Serve
  <1>6. CASE TaskDelete(a, i)
    <2>1. ASSUME IsLive(rows.tasks, i, a.workspace), TaskRepoSoftDelete(i), Answer(a, "ok", Nothing)
          PROVE  Good
      <3>1. rows' = [rows EXCEPT !["tasks"] = SoftDeleted(rows["tasks"], i)]
        BY <2>1, FieldsAreTables DEF TaskRepoSoftDelete
      <3> QED
        BY <1>0, <2>1, <3>1, DeleteCall
    <2> QED
      BY <1>6, <2>1, CodesNamed, RefuseCall DEF TaskDelete, Serve
  <1> QED
    BY <1>2, <1>3, <1>4, <1>5, <1>6 DEF TaskOps, TaskEdits

LEMMA HabitStep ==
  ASSUME RecordsInv, NEW a \in Actors, NEW i \in OtherIds, HabitCreate(a, i) \/ HabitDelete(a, i)
  PROVE  Good
  <1>0. "habits" \in Names /\ Ids["habits"] = OtherIds /\ NewHabit(a.workspace) \in RowType["habits"]
    BY ActorsPlace DEF Names, Ids, RowType, HabitRow, NewHabit
  <1>1. CASE HabitCreate(a, i)
    <2>1. ASSUME HabitRepoCreate(i, a.workspace), Answer(a, "ok", Habit(i, NewHabit(a.workspace)))
          PROVE  Good
      <3>1. rows' = [rows EXCEPT !["habits"] = Inserted(rows["habits"], i, NewHabit(a.workspace))]
        BY <2>1, FieldsAreTables DEF HabitRepoCreate
      <3>2. Reaches(a, "habits", NewHabit(a.workspace)) /\ i \notin DOMAIN rows["habits"]
        BY <1>1 DEF Reaches, NewHabit, HabitCreate, Unused
      <3>3. BelongsTo(a, Habit(i, NewHabit(a.workspace)))
        BY DEF Habit, NewHabit, BelongsTo
      <3> QED
        BY <1>0, <2>1, <3>1, <3>2, <3>3, InsertCall
    <2> QED
      BY <1>1, <2>1, CodesNamed, RefuseCall DEF HabitCreate, Serve
  <1>2. CASE HabitDelete(a, i)
    <2>1. ASSUME IsLive(rows.habits, i, a.workspace), HabitRepoSoftDelete(i), Answer(a, "ok", Nothing)
          PROVE  Good
      <3>1. rows' = [rows EXCEPT !["habits"] = SoftDeleted(rows["habits"], i)]
        BY <2>1, FieldsAreTables DEF HabitRepoSoftDelete
      <3> QED
        BY <1>0, <2>1, <3>1, DeleteCall
    <2> QED
      BY <1>2, <2>1, CodesNamed, RefuseCall DEF HabitDelete, Serve
  <1> QED
    BY <1>1, <1>2

LEMMA ShareStep ==
  ASSUME RecordsInv, NEW a \in Actors, NEW i \in OtherIds, ShareCreate(a, i) \/ ShareRevoke(a, i)
  PROVE  Good
  <1>0. "shares" \in Names /\ Ids["shares"] = OtherIds /\ NewShare(a.workspace) \in RowType["shares"]
    BY ActorsPlace DEF Names, Ids, RowType, ShareRow, NewShare
  <1>1. CASE ShareCreate(a, i)
    <2>1. ASSUME ShareRepoCreate(i, a.workspace), Answer(a, "ok", PublicShare(i, NewShare(a.workspace)))
          PROVE  Good
      <3>1. rows' = [rows EXCEPT !["shares"] = Inserted(rows["shares"], i, NewShare(a.workspace))]
        BY <2>1, FieldsAreTables DEF ShareRepoCreate
      <3>2. Reaches(a, "shares", NewShare(a.workspace)) /\ i \notin DOMAIN rows["shares"]
        BY <1>1 DEF Reaches, NewShare, ShareCreate, Unused
      <3>3. BelongsTo(a, PublicShare(i, NewShare(a.workspace)))
        BY DEF PublicShare, NewShare, BelongsTo
      <3> QED
        BY <1>0, <2>1, <3>1, <3>2, <3>3, InsertCall
    <2> QED
      BY <1>1, <2>1, CodesNamed, RefuseCall DEF ShareCreate, Serve
  <1>2. CASE ShareRevoke(a, i)
    <2>1. ASSUME IsLive(rows.shares, i, a.workspace), ShareRepoRevoke(i), Answer(a, "ok", Nothing)
          PROVE  Good
      <3>1. rows' = [rows EXCEPT !["shares"] = SoftDeleted(rows["shares"], i)]
        BY <2>1, FieldsAreTables DEF ShareRepoRevoke
      <3> QED
        BY <1>0, <2>1, <3>1, DeleteCall
    <2> QED
      BY <1>2, <2>1, CodesNamed, RefuseCall DEF ShareRevoke, Serve
  <1> QED
    BY <1>1, <1>2

LEMMA CalendarStep ==
  ASSUME RecordsInv, NEW a \in Actors, NEW i \in OtherIds,
         \/ \E startsAt, endsAt \in Times : CalendarCreate(a, i, startsAt, endsAt)
         \/ CalendarGetById(a, i) \/ CalendarDelete(a, i)
  PROVE  Good
  <1>0. "events" \in Names /\ Ids["events"] = OtherIds
    BY DEF Names, Ids
  <1>1. ASSUME NEW startsAt \in Times, NEW endsAt \in Times, CalendarCreate(a, i, startsAt, endsAt)
        PROVE  Good
    <2> DEFINE event == NewEvent(a.workspace, startsAt, endsAt)
    <2>1. ASSUME ~(endsAt <= startsAt), CalendarRepoCreate(i, a.workspace, startsAt, endsAt),
                 Answer(a, "ok", CalendarEvent(i, event))
          PROVE  Good
      <3>1. rows' = [rows EXCEPT !["events"] = Inserted(rows["events"], i, event)]
        BY <2>1, FieldsAreTables DEF CalendarRepoCreate
      <3>2. Reaches(a, "events", event) /\ i \notin DOMAIN rows["events"]
        BY <1>1 DEF Reaches, NewEvent, CalendarCreate, Unused
      <3>3. event \in RowType["events"] /\ BelongsTo(a, CalendarEvent(i, event))
        <4>1. endsAt > startsAt
          BY <2>1 DEF Times
        <4> QED
          BY <4>1, ActorsPlace DEF RowType, EventRow, NewEvent, CalendarEvent, BelongsTo
      <3> HIDE DEF event
      <3> QED
        BY <1>0, <2>1, <3>1, <3>2, <3>3, InsertCall
    <2>2. MayAct(a, "calendar:create") => AssertCapability(a, "calendar:create")
      BY DEF MayAct
    <2> QED
      BY <1>1, <2>1, <2>2, CodesNamed, RefuseCall DEF CalendarCreate, Serve
  <1>2. CASE CalendarGetById(a, i)
    <2>1. IsLive(rows.events, i, a.workspace) => BelongsTo(a, CalendarEvent(i, rows.events[i]))
      BY DEF IsLive, CalendarEvent, BelongsTo
    <2> QED
      BY <1>2, <2>1, CodesNamed, RefuseCall, ReadCall DEF CalendarGetById, Serve
  <1>3. CASE CalendarDelete(a, i)
    <2>1. ASSUME IsLive(rows.events, i, a.workspace), CalendarRepoSoftDelete(i), Answer(a, "ok", Nothing)
          PROVE  Good
      <3>1. rows' = [rows EXCEPT !["events"] = SoftDeleted(rows["events"], i)]
        BY <2>1, FieldsAreTables DEF CalendarRepoSoftDelete
      <3> QED
        BY <1>0, <2>1, <3>1, DeleteCall
    <2> QED
      BY <1>3, <2>1, CodesNamed, RefuseCall DEF CalendarDelete, Serve
  <1> QED
    BY <1>1, <1>2, <1>3

LEMMA VaultStep ==
  ASSUME RecordsInv, NEW a \in Actors, NEW i \in OtherIds,
         VaultCreateMeta(a, i) \/ VaultGetMeta(a, i) \/ VaultDelete(a, i)
  PROVE  Good
  <1>0. "vaultItems" \in Names /\ Ids["vaultItems"] = OtherIds /\ NewVaultItem(a.workspace, a.user) \in RowType["vaultItems"]
    BY ActorsPlace DEF Names, Ids, RowType, VaultRow, NewVaultItem
  <1>1. CASE VaultCreateMeta(a, i)
    <2>1. ASSUME VaultRepoCreate(i, a.workspace, a.user), Answer(a, "ok", VaultItemMeta(i, NewVaultItem(a.workspace, a.user)))
          PROVE  Good
      <3>1. rows' = [rows EXCEPT !["vaultItems"] = Inserted(rows["vaultItems"], i, NewVaultItem(a.workspace, a.user))]
        BY <2>1, FieldsAreTables DEF VaultRepoCreate
      <3>2. Reaches(a, "vaultItems", NewVaultItem(a.workspace, a.user)) /\ i \notin DOMAIN rows["vaultItems"]
        BY <1>1 DEF Reaches, NewVaultItem, VaultCreateMeta, Unused
      <3>3. BelongsTo(a, VaultItemMeta(i, NewVaultItem(a.workspace, a.user)))
        BY DEF VaultItemMeta, NewVaultItem, BelongsTo
      <3> QED
        BY <1>0, <2>1, <3>1, <3>2, <3>3, InsertCall
    <2> QED
      BY <1>1, <2>1, CodesNamed, RefuseCall DEF VaultCreateMeta, Serve
  <1>2. CASE VaultGetMeta(a, i)
    <2>1. VaultRepoFindByIdAndOwner(a, i) => BelongsTo(a, VaultItemMeta(i, rows.vaultItems[i]))
      BY DEF IsLive, VaultItemMeta, IsOwned, VaultRepoFindByIdAndOwner, BelongsTo
    <2> QED
      BY <1>2, <2>1, CodesNamed, RefuseCall, ReadCall DEF VaultGetMeta, Serve
  <1>3. CASE VaultDelete(a, i)
    <2>1. ASSUME IsOwned(rows.vaultItems, i, a.workspace, a.user), VaultRepoSoftDeleteOwned(i), Answer(a, "ok", Nothing)
          PROVE  Good
      <3>1. rows' = [rows EXCEPT !["vaultItems"] = SoftDeleted(rows["vaultItems"], i)]
        BY <2>1, FieldsAreTables DEF VaultRepoSoftDeleteOwned
      <3> QED
        BY <1>0, <2>1, <3>1, DeleteCall DEF IsOwned
    <2> QED
      BY <1>3, <2>1, CodesNamed, RefuseCall DEF VaultDelete, Serve
  <1> QED
    BY <1>1, <1>2, <1>3

LEMMA RecordsStep == ASSUME RecordsInv, [RecordsNext]_recordsVars PROVE Good
  <1>1. CASE ListOps \/ UNCHANGED recordsVars
    <2>1. UNCHANGED <<rows, answer>>
      BY <1>1 DEF ListOps, TaskListStart, TaskListPage, recordsVars
    <2> QED
      BY <2>1, QuietCall DEF RecordsInv
  <1>2. CASE \E a \in Actors, i \in OtherIds : OtherOps(a, i)
    BY <1>2, HabitStep, CalendarStep, VaultStep, ShareStep DEF OtherOps
  <1> QED
    BY <1>1, <1>2, TaskStep DEF RecordsNext

LEMMA AlwaysRecords == RecordsSpec => []RecordsInv
  <1>1. RecordsInit => RecordsInv
    <2> SUFFICES ASSUME RecordsInit PROVE RecordsInv
      OBVIOUS
    <2>1. /\ DOMAIN rows = Names /\ rows = [t \in DOMAIN rows |-> rows[t]]
          /\ \A t \in Names : rows[t] = Empty
      BY DEF RecordsInit, Names
    <2>2. ASSUME NEW ids, NEW Row PROVE Empty \in Table(ids, Row)
      <3>1. Empty \in [{} -> Row] /\ {} \in SUBSET ids
        BY DEF Empty
      <3> QED
        BY <3>1 DEF Table
    <2>3. answer.entity = Nothing /\ answer.code \in Codes
      BY DEF RecordsInit, Codes
    <2> QED
      BY <2>1, <2>2, <2>3 DEF RecordsInv, BelongsTo
  <1>2. RecordsInv /\ [RecordsNext]_recordsVars => RecordsInv'
    BY RecordsStep DEF Good
  <1> QED
    BY <1>1, <1>2, PTL DEF RecordsSpec

(* No call brings back or touches a deleted row, and no row goes away.     *)
THEOREM DeletedRowsStay == RecordsSpec => DeletedStaysDeleted
  <1>1. RecordsInv /\ [RecordsNext]_recordsVars =>
          [\A t \in TableNames : \A i \in DOMAIN rows[t] :
             /\ i \in DOMAIN rows'[t]
             /\ rows[t][i].isDeleted => rows'[t][i] = rows[t][i]]_recordsVars
    BY RecordsStep DEF Good, Keeps
  <1> QED
    BY <1>1, AlwaysRecords, PTL DEF RecordsSpec, DeletedStaysDeleted

(* No call changes, or is answered, anything of another workspace, or of   *)
(* somebody else's vault.                                                  *)
THEOREM WorkspacesAreApart == RecordsSpec => OwnWorkspaceOnly
  <1>1. RecordsInv /\ [RecordsNext]_recordsVars =>
          [LET a == answer'.to
               Reach(t, row) == row.workspaceId = a.workspace /\ (t = "vaultItems" => row.ownerUserId = a.user)
           IN  /\ rows' # rows => answer'.code = "ok"
               /\ \A t \in TableNames : \A i \in DOMAIN rows'[t] :
                    \/ i \in DOMAIN rows[t] /\ rows'[t][i] = rows[t][i]
                    \/ /\ Reach(t, rows'[t][i])
                       /\ i \in DOMAIN rows[t] => Reach(t, rows[t][i])
               /\ BelongsTo(a, answer'.entity)]_recordsVars
    BY RecordsStep DEF Good, OwnOnly
  <1> QED
    BY <1>1, AlwaysRecords, PTL DEF RecordsSpec, OwnWorkspaceOnly

HIDE RecordsAssumption

-----------------------------------------------------------------------------
(* Pages of a set of identifiers.                                          *)

(* Induction's other face: a set of naturals has a least element.          *)
LEMMA Least ==
  ASSUME NEW S \in SUBSET Nat, S # {}
  PROVE  \E n \in S : \A m \in S : n <= m
  <1>1. PICK n \in S : \A m \in S : <<m, n>> \notin OpToRel(<, Nat)
    BY NatLessThanWellFounded, WFMin
  <1>2. \A m \in S : ~(m < n)
    BY <1>1 DEF OpToRel
  <1> QED
    BY <1>2

Below(ids, i) == {j \in ids : j < i}
Rank(ids, i)  == Cardinality(Below(ids, i))

(* Ranks are finite whatever the set, and follow the order.                *)
LEMMA RankType ==
  ASSUME NEW ids \in SUBSET Nat, NEW i \in Nat
  PROVE  IsFiniteSet(Below(ids, i)) /\ Rank(ids, i) \in Nat
  <1>1. \A j \in Below(ids, i) : j \in 0..i
    BY DEF Below
  <1>2. IsFiniteSet(0..i)
    BY FS_Interval
  <1>3. IsFiniteSet(Below(ids, i))
    <2>1. Below(ids, i) \in SUBSET (0..i)
      BY <1>1
    <2> QED BY <1>2, <2>1, FS_Subset
  <1> QED
    BY <1>3, FS_CardinalityType DEF Rank

LEMMA RankOrder ==
  ASSUME NEW ids \in SUBSET Nat, NEW i \in ids, NEW k \in Nat, i < k
  PROVE  Rank(ids, i) < Rank(ids, k)
  <1>1. i \in Nat
    OBVIOUS
  <1>2. /\ IsFiniteSet(Below(ids, k)) /\ Rank(ids, i) \in Nat /\ Rank(ids, k) \in Nat
    BY <1>1, RankType
  <1>3. Below(ids, i) \in SUBSET Below(ids, k) /\ i \in Below(ids, k) /\ i \notin Below(ids, i)
    <2>1. \A j \in ids : j \in Nat /\ (j < i => j < k)
      BY <1>1
    <2>2. \A j : j \in Below(ids, i) => j \in Below(ids, k)
      BY <2>1 DEF Below
    <2>3. ~(i < i)
      BY <1>1
    <2> QED BY <2>2, <2>3 DEF Below
  <1>4. Rank(ids, i) <= Rank(ids, k) /\ Rank(ids, i) # Rank(ids, k)
    BY <1>2, <1>3, FS_Subset DEF Rank
  <1> QED
    BY <1>2, <1>4

(* First(ids, n) has no holes, and at most n elements.                     *)
LEMMA FirstIsPrefix ==
  ASSUME NEW ids \in SUBSET Nat, NEW n \in Nat, NEW k \in First(ids, n), NEW i \in ids, i <= k
  PROVE  i \in First(ids, n)
  <1>1. k \in ids /\ k \in Nat /\ i \in Nat /\ Rank(ids, k) < n
    BY DEF First, Rank, Below
  <1>2. Rank(ids, i) <= Rank(ids, k) /\ Rank(ids, i) \in Nat /\ Rank(ids, k) \in Nat
    BY <1>1, RankOrder, RankType
  <1>3. Rank(ids, i) < n
    BY <1>1, <1>2
  <1> QED
    BY <1>3 DEF First, Rank, Below

LEMMA FirstIsSmall ==
  ASSUME NEW ids \in SUBSET Nat, NEW n \in Nat
  PROVE  /\ IsFiniteSet(First(ids, n)) /\ Cardinality(First(ids, n)) \in Nat
         /\ Cardinality(First(ids, n)) <= n
  <1> DEFINE F == First(ids, n)
             rank == [i \in F |-> Rank(ids, i)]
             R == 0..(n - 1)
  <1>1. F \in SUBSET ids /\ F \in SUBSET Nat /\ \A i \in F : Rank(ids, i) < n
    BY DEF First, Rank, Below
  <1> HIDE DEF F
  <1>2. \A i \in F : Rank(ids, i) \in R
    BY <1>1, RankType
  <1>3. \A i, j \in F : rank[i] = rank[j] => i = j
    <2> SUFFICES ASSUME NEW i \in F, NEW j \in F, i < j, Rank(ids, i) = Rank(ids, j) PROVE FALSE
      BY <1>1
    <2>1. Rank(ids, i) < Rank(ids, j) /\ Rank(ids, i) \in Nat /\ Rank(ids, j) \in Nat
      BY <1>1, RankOrder, RankType
    <2> QED BY <2>1
  <1>4. rank \in Injection(F, R)
    BY <1>2, <1>3 DEF Injection, IsInjective
  <1>5. IsFiniteSet(R) /\ Cardinality(R) = n
    BY FS_Interval
  <1> HIDE DEF rank, R
  <1>6. IsFiniteSet(F) /\ Cardinality(F) <= n
    BY <1>4, <1>5, FS_Injection
  <1> QED
    BY <1>6, FS_CardinalityType DEF F

(* A page that is not empty has a last row.                                *)
LEMMA FirstHasLast ==
  ASSUME NEW ids \in SUBSET Nat, NEW n \in Nat, First(ids, n) # {}
  PROVE  \E i \in First(ids, n) : \A j \in First(ids, n) : j <= i
  <1> DEFINE F == First(ids, n)
             S == {k \in Nat : \E i \in F : k = n - Rank(ids, i)}
  <1>1. F \in SUBSET ids /\ F \in SUBSET Nat /\ \A i \in F : Rank(ids, i) < n
    BY DEF First, Rank, Below
  <1>2. F # {}
    OBVIOUS
  <1> HIDE DEF F
  <1>3. \A i \in F : Rank(ids, i) \in Nat /\ n - Rank(ids, i) \in S
    BY <1>1, RankType
  <1>4. PICK k \in S : \A m \in S : k <= m
    <2>1. S \in SUBSET Nat /\ S # {}
      BY <1>2, <1>3
    <2> HIDE DEF S
    <2> QED BY <2>1, Least
  <1>5. PICK i \in F : k = n - Rank(ids, i)
    BY <1>4
  <1>6. ASSUME NEW j \in F PROVE j <= i
    <2>1. n - Rank(ids, i) <= n - Rank(ids, j)
      BY <1>3, <1>4, <1>5
    <2>2. Rank(ids, j) <= Rank(ids, i)
      BY <1>3, <2>1
    <2>3. i < j => Rank(ids, i) < Rank(ids, j)
      BY <1>1, RankOrder
    <2> QED BY <1>1, <1>3, <2>2, <2>3
  <1> QED
    BY <1>6 DEF F

(* Fewer than n rows are all of them.                                      *)
LEMMA FirstIsAll ==
  ASSUME NEW ids \in SUBSET Nat, NEW n \in Nat, Cardinality(First(ids, n)) < n
  PROVE  First(ids, n) = ids
  <1> DEFINE F == First(ids, n)
             Rest == ids \ F
  <1>0. F \in SUBSET ids /\ IsFiniteSet(F)
    BY FirstIsSmall DEF First
  <1> SUFFICES ASSUME Rest # {} PROVE FALSE
    BY <1>0
  <1>1. PICK k \in Rest : \A m \in Rest : k <= m
    <2>1. Rest \in SUBSET Nat
      OBVIOUS
    <2> HIDE DEF Rest
    <2> QED BY <2>1, Least
  <1>2. Below(ids, k) \in SUBSET F
    <2>1. \A j \in ids : j < k => j \in F
      BY <1>1
    <2> QED BY <2>1 DEF Below
  <1>3. Rank(ids, k) <= Cardinality(F)
    BY <1>0, <1>2, FS_Subset DEF Rank
  <1>4. Rank(ids, k) \in Nat /\ Cardinality(F) \in Nat /\ Cardinality(F) < n
    BY RankType, FirstIsSmall
  <1>5. Rank(ids, k) < n
    BY <1>3, <1>4
  <1>6. k \in F
    BY <1>1, <1>5 DEF First, Rank, Below
  <1> QED
    BY <1>1, <1>6

(* The page listByWorkspace returns of the rows after the cursor: with     *)
(* more to come, it has a last row and holds all rows up to that; otherwise *)
(* it holds them all.                                                      *)
LEMMA PageIsExact ==
  ASSUME NEW ids \in SUBSET Nat, NEW n \in Nat \ {0}
  PROVE  LET left  == First(ids, n + 1)
             items == First(left, n)
         IN  /\ items \in SUBSET ids
             /\ Cardinality(left) > n =>
                  /\ NextCursor(items, TRUE) \in items
                  /\ \A j \in items : j <= NextCursor(items, TRUE)
                  /\ \A i \in ids : i <= NextCursor(items, TRUE) => i \in items
             /\ ~(Cardinality(left) > n) => items = ids
  <1> DEFINE left  == First(ids, n + 1)
             items == First(left, n)
  <1>0. /\ left \in SUBSET ids /\ left \in SUBSET Nat /\ items \in SUBSET left
        /\ IsFiniteSet(left) /\ Cardinality(left) \in Nat
    <2>1. left \in SUBSET ids /\ items \in SUBSET left
      BY DEF First
    <2>2. n + 1 \in Nat
      OBVIOUS
    <2> QED BY <2>1, <2>2, FirstIsSmall
  <1>1. ASSUME Cardinality(left) > n
        PROVE  /\ NextCursor(items, TRUE) \in items
               /\ \A j \in items : j <= NextCursor(items, TRUE)
               /\ \A i \in ids : i <= NextCursor(items, TRUE) => i \in items
    <2>1. left # {}
      BY <1>0, <1>1, FS_EmptySet
    <2>2. PICK m \in left : \A j \in left : m <= j
      BY <1>0, <2>1, Least
    <2>3. Below(left, m) = {}
      BY <1>0, <2>2 DEF Below
    <2>4. m \in items
      <3>1. Cardinality(Below(left, m)) < n
        BY <2>3, FS_EmptySet
      <3> QED BY <2>2, <3>1 DEF First, Below
    <2>5. \E i \in items : \A j \in items : j <= i
      BY <1>0, <2>4, FirstHasLast
    <2> DEFINE last == NextCursor(items, TRUE)
    <2>6. last \in items /\ \A j \in items : j <= last
      BY <2>5 DEF NextCursor
    <2> HIDE DEF last
    <2>7. ASSUME NEW i \in ids, i <= last PROVE i \in items
      <3>1. last \in left
        BY <1>0, <2>6
      <3>2. i \in left
        BY <2>7, <3>1, FirstIsPrefix
      <3> QED BY <1>0, <2>6, <2>7, <3>2, FirstIsPrefix
    <2> QED BY <2>6, <2>7 DEF last
  <1>2. ASSUME ~(Cardinality(left) > n) PROVE items = ids
    <2>1. Cardinality(left) < n + 1
      BY <1>0, <1>2
    <2>2. left = ids
      BY <2>1, FirstIsAll
    <2>3. ASSUME NEW i \in left PROVE i \in items
      <3>1. i \notin Below(left, i) /\ Below(left, i) \in SUBSET left
        BY <1>0 DEF Below
      <3>2. Rank(left, i) <= Cardinality(left) /\ Rank(left, i) # Cardinality(left)
        BY <1>0, <3>1, FS_Subset DEF Rank
      <3>3. Rank(left, i) \in Nat
        BY <1>0, RankType
      <3>4. Rank(left, i) < n
        BY <1>0, <1>2, <3>2, <3>3
      <3> QED BY <3>4 DEF First, Rank, Below
    <2> QED BY <1>0, <2>2, <2>3
  <1> QED
    BY <1>0, <1>1, <1>2

-----------------------------------------------------------------------------
(* The listing of tasks, page by page, while tasks come and go.            *)

USE RecordsAssumption

(* What is up to the cursor has been seen once if it was there all along,  *)
(* and what is after the cursor has not been seen.                         *)
SeenUpToCursor ==
  /\ listing \in Listing
  /\ listing.due \subseteq DOMAIN rows.tasks
  /\ listing.pc = "paging" =>
       /\ \A i \in TaskIds : listing.seen[i] = 0 \/ (listing.seen[i] = 1 /\ i <= listing.cursor)
       /\ \A i \in listing.due :
            IsLive(rows.tasks, i, listing.workspace) /\ i <= listing.cursor => listing.seen[i] = 1
  /\ ListingSeesSurvivors

(* No call brings a task into a listing that has begun.                    *)
LEMMA StillLive ==
  ASSUME RecordsInv, Good, NEW w, NEW i \in DOMAIN rows.tasks, IsLive(rows.tasks, i, w)'
  PROVE  IsLive(rows.tasks, i, w)
  <1>1. rows.tasks = rows["tasks"] /\ rows'.tasks = rows'["tasks"] /\ "tasks" \in TableNames
    BY DEF RecordsInv, TableNames, Names
  <1>2. ~rows["tasks"][i].isDeleted
    BY <1>1 DEF Good, Keeps, IsLive
  <1>3. rows'["tasks"][i].workspaceId = rows["tasks"][i].workspaceId
    BY <1>1 DEF Good, Keeps, OwnOnly
  <1> QED
    BY <1>1, <1>2, <1>3 DEF IsLive

LEMMA TasksStay ==
  ASSUME RecordsInv, Good
  PROVE  DOMAIN rows.tasks \subseteq DOMAIN rows'.tasks
  BY DEF RecordsInv, Good, Keeps, TableNames, Names

LEMMA CallListing ==
  ASSUME RecordsInv, Good, SeenUpToCursor, UNCHANGED listing
  PROVE  SeenUpToCursor'
  <1>1. listing'.due \subseteq DOMAIN rows'.tasks
    BY TasksStay DEF SeenUpToCursor
  <1>2. \A i \in listing.due : IsLive(rows.tasks, i, listing.workspace)' => IsLive(rows.tasks, i, listing.workspace)
    BY StillLive DEF SeenUpToCursor
  <1> QED
    BY <1>1, <1>2 DEF SeenUpToCursor, ListingSeesSurvivors

LEMMA StartListing ==
  ASSUME RecordsInv, SeenUpToCursor, NEW a \in Actors, NEW limit \in PageLimits, TaskListStart(a, limit)
  PROVE  SeenUpToCursor'
  <1>1. /\ listing' = [pc |-> "paging", workspace |-> a.workspace, limit |-> PageSize(limit), cursor |-> 0,
                       due |-> {i \in TaskIds : IsLive(rows.tasks, i, a.workspace)},
                       seen |-> [i \in TaskIds |-> 0]]
        /\ UNCHANGED rows
    BY DEF TaskListStart
  <1>2. a.workspace \in Workspaces /\ PageSize(limit) \in 1..MaxPage
    BY ActorsPlace DEF PageSize
  <1>3. listing' \in Listing
    BY <1>1, <1>2 DEF Listing
  <1>4. listing'.due \subseteq DOMAIN rows'.tasks
    BY <1>1 DEF IsLive
  <1>5. \A i \in TaskIds : listing'.seen[i] = 0 /\ ~(i <= listing'.cursor)
    BY <1>1
  <1> QED
    BY <1>1, <1>3, <1>4, <1>5 DEF SeenUpToCursor, ListingSeesSurvivors

LEMMA PageListing ==
  ASSUME RecordsInv, SeenUpToCursor, TaskListPage
  PROVE  SeenUpToCursor'
  <1> DEFINE n     == listing.limit
             c     == listing.cursor
             ids   == After(c)
             left  == First(ids, n + 1)
             items == First(left, n)
             more  == Cardinality(left) > n
  <1>0. /\ listing \in Listing /\ n \in Nat \ {0} /\ c \in Nat /\ listing.pc = "paging"
        /\ listing.due \subseteq TaskIds
        /\ ids \in SUBSET Nat /\ ids \in SUBSET TaskIds
    BY DEF SeenUpToCursor, TaskListPage, Listing, After
  <1>1. /\ listing' = [listing EXCEPT !.cursor = NextCursor(items, more),
                                      !.pc = IF more THEN "paging" ELSE "complete",
                                      !.seen = [i \in TaskIds |-> @[i] + IF i \in items THEN 1 ELSE 0]]
        /\ UNCHANGED rows
    BY DEF TaskListPage
  <1>2. /\ items \in SUBSET ids
        /\ more => /\ NextCursor(items, TRUE) \in items
                   /\ \A j \in items : j <= NextCursor(items, TRUE)
                   /\ \A i \in ids : i <= NextCursor(items, TRUE) => i \in items
        /\ ~more => items = ids
    BY <1>0, PageIsExact
  <1>3. \A i \in TaskIds : i \in ids <=> IsLive(rows.tasks, i, listing.workspace) /\ i > c
    BY DEF After
  <1>4. \A i \in TaskIds :
          /\ i \in Nat
          /\ listing.seen[i] = 0 \/ (listing.seen[i] = 1 /\ i <= c)
          /\ i \in listing.due /\ IsLive(rows.tasks, i, listing.workspace) /\ i <= c => listing.seen[i] = 1
    BY <1>0 DEF SeenUpToCursor
  <1>5. more \in BOOLEAN
    OBVIOUS
  <1> HIDE DEF ids, items, more, left
  <1> DEFINE next == NextCursor(items, more)
  <1>6. next \in TaskIds \cup {0} /\ (more => next = NextCursor(items, TRUE))
    BY <1>0, <1>2, <1>5 DEF NextCursor
  <1> HIDE DEF next
  <1>7. /\ listing'.workspace = listing.workspace /\ listing'.due = listing.due
        /\ listing'.pc = IF more THEN "paging" ELSE "complete"
        /\ listing'.cursor = next
        /\ \A i \in TaskIds : listing'.seen[i] = listing.seen[i] + IF i \in items THEN 1 ELSE 0
    BY <1>0, <1>1 DEF Listing, next
  <1>8. listing' \in Listing
    <2>1. [i \in TaskIds |-> listing.seen[i] + IF i \in items THEN 1 ELSE 0] \in [TaskIds -> Nat]
      BY <1>0 DEF Listing
    <2> QED BY <1>0, <1>1, <1>6, <2>1 DEF Listing, next
  <1>9. \A i \in TaskIds : IF i \in items THEN listing'.seen[i] = 1 ELSE listing'.seen[i] = listing.seen[i]
    <2> SUFFICES ASSUME NEW i \in TaskIds
                 PROVE  IF i \in items THEN listing'.seen[i] = 1 ELSE listing'.seen[i] = listing.seen[i]
      OBVIOUS
    <2>1. CASE i \in items
      <3>1. i > c /\ i \in Nat
        BY <1>2, <1>3, <1>4, <2>1
      <3>2. listing.seen[i] = 0
        BY <1>0, <1>4, <3>1
      <3> QED BY <1>7, <2>1, <3>2
    <2>2. CASE i \notin items
      <3>1. listing.seen[i] \in Nat
        BY <1>4
      <3>2. listing'.seen[i] = listing.seen[i] + 0
        BY <1>7, <2>2
      <3> QED BY <2>2, <3>1, <3>2
    <2> QED BY <2>1, <2>2
  <1>10. \A i \in TaskIds : listing'.seen[i] = 0 \/ listing'.seen[i] = 1
    BY <1>4, <1>9
  <1>11. ASSUME more
         PROVE  \A i \in TaskIds : listing'.seen[i] = 0 \/ (listing'.seen[i] = 1 /\ i <= next)
    <2>1. next \in items /\ next \in ids /\ next \in Nat /\ next > c /\ \A j \in items : j <= next
      BY <1>0, <1>2, <1>3, <1>6, <1>11
    <2> QED BY <1>0, <1>4, <1>9, <2>1
  <1>12. ASSUME NEW i \in listing.due, IsLive(rows.tasks, i, listing.workspace), more => i <= next
         PROVE  listing'.seen[i] = 1
    <2>1. i \in TaskIds /\ (i <= c \/ i \in ids)
      <3>1. i \in TaskIds
        BY <1>0
      <3>2. i \in Nat /\ c \in Nat
        BY <1>0, <1>4, <3>1
      <3>3. ~(i <= c) => i > c
        BY <3>2
      <3> QED BY <1>3, <1>12, <3>1, <3>3
    <2>2. i \in ids => i \in items
      BY <1>2, <1>6, <1>12
    <2> QED BY <1>4, <1>9, <1>12, <2>1, <2>2
  <1>13. listing'.due \subseteq DOMAIN rows'.tasks
    BY <1>1, <1>7 DEF SeenUpToCursor
  <1>14. UNCHANGED rows /\ \A i \in TaskIds : IsLive(rows.tasks, i, listing.workspace)' <=> IsLive(rows.tasks, i, listing.workspace)
    BY <1>1, <1>7 DEF IsLive
  <1>15. ListingSeesSurvivors'
    <2>1. \A i \in TaskIds : listing'.seen[i] <= 1
      BY <1>10
    <2> QED BY <1>0, <1>7, <1>12, <1>14, <2>1 DEF ListingSeesSurvivors
  <1> QED
    BY <1>0, <1>7, <1>8, <1>11, <1>12, <1>13, <1>14, <1>15 DEF SeenUpToCursor

LEMMA CallsLeaveListing ==
  ASSUME [RecordsNext]_recordsVars, ~ListOps
  PROVE  UNCHANGED listing
  BY DEF RecordsNext, recordsVars, TaskOps, TaskEdits, OtherOps, TaskCreate, TaskDelete, TaskGetById,
         TaskUpdateStatus, TaskRepoUpdate, HabitCreate, HabitDelete, CalendarCreate, CalendarGetById,
         CalendarDelete, VaultCreateMeta, VaultGetMeta, VaultDelete, ShareCreate, ShareRevoke,
         Serve, Refuse, Answer

LEMMA AlwaysSeen == RecordsSpec => [](RecordsInv /\ SeenUpToCursor)
  <1>1. RecordsInit => SeenUpToCursor
    <2> SUFFICES ASSUME RecordsInit PROVE SeenUpToCursor
      OBVIOUS
    <2>1. PICK w \in Workspaces :
            listing = [pc |-> "idle", workspace |-> w, limit |-> 1, cursor |-> 0,
                       due |-> {}, seen |-> [i \in TaskIds |-> 0]]
      BY DEF RecordsInit
    <2>2. listing \in Listing
      BY <2>1 DEF Listing
    <2> QED
      BY <2>1, <2>2 DEF SeenUpToCursor, ListingSeesSurvivors
  <1>2. RecordsInv /\ SeenUpToCursor /\ [RecordsNext]_recordsVars => SeenUpToCursor'
    <2> SUFFICES ASSUME RecordsInv, SeenUpToCursor, [RecordsNext]_recordsVars PROVE SeenUpToCursor'
      OBVIOUS
    <2>1. CASE ListOps
      BY <2>1, StartListing, PageListing DEF ListOps
    <2>2. CASE ~ListOps
      BY <2>2, RecordsStep, CallsLeaveListing, CallListing
    <2> QED
      BY <2>1, <2>2
  <1> QED
    BY <1>1, <1>2, AlwaysRecords, PTL DEF RecordsSpec

(* Types of the five tables, of the answers and of the listing.            *)
THEOREM RecordsTypeCorrect == RecordsSpec => []RecordsTypeOK
  <1>1. RecordsInv /\ SeenUpToCursor => RecordsTypeOK
    <2> SUFFICES ASSUME RecordsInv, SeenUpToCursor PROVE RecordsTypeOK
      OBVIOUS
    <2>1. ASSUME NEW t \in Names PROVE IsTable(rows[t], Ids[t], RowType[t])
      BY DEF RecordsInv, Table, IsTable
    <2> QED
      BY <2>1 DEF RecordsInv, SeenUpToCursor, RecordsTypeOK, Names, Ids, RowType, Codes
  <1> QED
    BY <1>1, AlwaysSeen, PTL

(* A listing that went through to the end returned no task twice, and each *)
(* task that was there all along, whatever was created or deleted between  *)
(* its pages and whatever the size of the pages.                           *)
THEOREM SurvivorsAreSeen == RecordsSpec => []ListingSeesSurvivors
  <1>1. SeenUpToCursor => ListingSeesSurvivors
    BY DEF SeenUpToCursor
  <1> QED
    BY <1>1, AlwaysSeen, PTL

HIDE RecordsAssumption

-----------------------------------------------------------------------------
(* The composition.                                                        *)

(* What TLC runs is, for each part, a behaviour of that part's own         *)
(* specification, so that the theorems above are about it too.             *)
THEOREM ContentRunsParts ==
  ContentSpec => /\ NotesSpec /\ BudgetsSpec /\ RecordsSpec
                 /\ JournalSpec /\ TokensSpec /\ BrowserSpec
  <1> USE MCContentAssumption
  <1>1. ContentInit => /\ NotesInit /\ BudgetsInit /\ RecordsInit
                       /\ JournalInit /\ TokensInit /\ BrowserInit
    BY DEF ContentInit
  <1>2. ASSUME [ContentNext]_contentVars
        PROVE  /\ [NotesNext]_notesVars /\ [BudgetsNext]_budgetsVars /\ [RecordsNext]_recordsVars
               /\ [JournalNext]_journalVars /\ [TokensNext]_tokensVars /\ [BrowserNext]_browserVars
    <2>1. [NotesNext]_notesVars
      BY <1>2 DEF ContentNext, contentVars
    <2>2. [BudgetsNext]_budgetsVars
      BY <1>2 DEF ContentNext, contentVars
    <2>3. [RecordsNext]_recordsVars
      BY <1>2 DEF ContentNext, contentVars, RecordsNext
    <2>4. [JournalNext]_journalVars
      BY <1>2 DEF ContentNext, contentVars
    <2>5. [TokensNext]_tokensVars
      BY <1>2 DEF ContentNext, contentVars, TokensNext
    <2>6. [BrowserNext]_browserVars
      BY <1>2 DEF ContentNext, contentVars, BrowserNext
    <2> QED
      BY <2>1, <2>2, <2>3, <2>4, <2>5, <2>6
  <1>3. [ContentNext]_contentVars =>
          /\ [NotesNext]_notesVars /\ [BudgetsNext]_budgetsVars /\ [RecordsNext]_recordsVars
          /\ [JournalNext]_journalVars /\ [TokensNext]_tokensVars /\ [BrowserNext]_browserVars
    BY <1>2
  <1> QED
    BY <1>1, <1>3, PTL DEF ContentSpec, NotesSpec, BudgetsSpec, RecordsSpec, JournalSpec, TokensSpec, BrowserSpec

(* Every table and page keeps its types, whichever part is active.         *)
THEOREM ContentTypesCorrect == ContentSpec => []ContentTypeOK
  <1>1. JournalInv => JournalTypeOK
    BY DEF JournalInv
  <1>2. TokensInv => TokensTypeOK
    BY DEF TokensInv
  <1>3. BrowserInv => BrowserTypeOK
    BY DEF BrowserInv
  <1>4. (/\ NotesTypeOK /\ BudgetsTypeOK /\ RecordsTypeOK
         /\ JournalTypeOK /\ TokensTypeOK /\ BrowserTypeOK) => ContentTypeOK
    BY DEF ContentTypeOK
  <1> QED
    BY <1>1, <1>2, <1>3, <1>4, ContentRunsParts, NotesTypeCorrect, BudgetsTypeCorrect, RecordsTypeCorrect,
       AlwaysJournal, AlwaysTokens, AlwaysBrowser, PTL
=============================================================================
