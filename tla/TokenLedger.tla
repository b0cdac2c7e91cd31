---------------------------- MODULE TokenLedger -----------------------------
(***************************************************************************)
(* What the AI usage ledger promises its callers: a reservation is granted *)
(* in one step, at most once for a key, for the tokens that were asked and *)
(* to the month they were asked in, and only while the grants of that      *)
(* month leave room for it; a grant is settled at most at what it was for, *)
(* or given back, and never grows again; an answer is never changed.       *)
(* Module AiQuota, with its snapshots, its lock, its lost connections and  *)
(* its months that end while a call runs, is shown to implement this.      *)
(***************************************************************************)
EXTENDS Naturals, FiniteSetsExt

CONSTANTS
  Calls,     \* calls; each may make a grant of its own
  Keys,      \* idempotency keys
  Amounts,   \* tokens a call may ask for
  Limit,     \* tokens of a month
  Nobody,    \* no answer
  NoKey      \* the key of what was not asked or not granted

VARIABLES
  month,     \* the present month
  asked,     \* what each call asked for
  grant,     \* the grants, named after the call that made them
  receipt    \* the grant each call was answered with

ledgerVars == <<month, asked, grant, receipt>>

Init ==
  /\ month = 1
  /\ asked = [c \in Calls |-> [key |-> NoKey, tokens |-> 0, month |-> 0]]
  /\ grant = [c \in Calls |-> [status |-> "absent", key |-> NoKey, tokens |-> 0, month |-> 0]]
  /\ receipt = [c \in Calls |-> Nobody]

Made == {g \in Calls : grant[g].status # "absent"}

TokensOf(g) == grant[g].tokens

GrantedIn(m) == MapThenSumSet(TokensOf, {g \in Calls : grant[g].month = m})

NextMonth ==
  /\ month' = month + 1
  /\ UNCHANGED <<asked, grant, receipt>>

Ask(c, k, t) ==
  /\ asked[c].key = NoKey
  /\ asked' = [asked EXCEPT ![c] = [key |-> k, tokens |-> t, month |-> month]]
  /\ UNCHANGED <<month, grant, receipt>>

Waiting(c) == asked[c].key # NoKey /\ receipt[c] = Nobody

Grant(c) ==
  /\ Waiting(c)
  /\ \A g \in Made : grant[g].key # asked[c].key
  /\ GrantedIn(asked[c].month) + asked[c].tokens <= Limit
  /\ grant' = [grant EXCEPT ![c] = [status |-> "reserved", key |-> asked[c].key,
                                    tokens |-> asked[c].tokens, month |-> asked[c].month]]
  /\ receipt' = [receipt EXCEPT ![c] = c]
  /\ UNCHANGED <<month, asked>>

(* A key that was granted is answered with that grant.                     *)
Repeat(c) ==
  /\ Waiting(c)
  /\ \E g \in Made :
       /\ grant[g].key = asked[c].key
       /\ receipt' = [receipt EXCEPT ![c] = g]
  /\ UNCHANGED <<month, asked, grant>>

Settle(g) ==
  /\ grant[g].status = "reserved"
  /\ \E n \in 0..grant[g].tokens :
       grant' = [grant EXCEPT ![g].status = "completed", ![g].tokens = n]
  /\ UNCHANGED <<month, asked, receipt>>

GiveBack(g) ==
  /\ grant[g].status \in {"reserved", "completed"}
  /\ grant' = [grant EXCEPT ![g].status = "refunded", ![g].tokens = 0]
  /\ UNCHANGED <<month, asked, receipt>>

Next ==
  \/ NextMonth
  \/ \E c \in Calls :
       \/ \E k \in Keys, t \in Amounts : Ask(c, k, t)
       \/ Grant(c) \/ Repeat(c) \/ Settle(c) \/ GiveBack(c)

Spec == Init /\ [][Next]_ledgerVars
=============================================================================
