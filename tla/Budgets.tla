------------------------------- MODULE Budgets -------------------------------
(***************************************************************************)
(* Expenses and the monthly budget of one category of one workspace        *)
(* (packages/services/src/expenses).  createWithBudgetCheck locks the      *)
(* budget row, sums the month, and inserts, in one transaction; without a  *)
(* budget row in the currency of the expense there is nothing to lock and  *)
(* nothing is checked.  Rows of other categories or workspaces are neither *)
(* locked nor summed.                                                      *)
(***************************************************************************)
EXTENDS Integers, Actors

CONSTANTS
  BudgetWorkspace,   \* the workspace of the category
  Calls,             \* the connections that run create
  Months,            \* the calendar months (spent_at, cut to its month)
  Currencies,
  Amounts,           \* the amounts clients send, negative ones too
  Limits,            \* the limits admins set
  MaxTotal           \* bound: no month grows beyond it

ASSUME BudgetsAssumption ==
  /\ Amounts \subseteq Int
  /\ Limits \subseteq Nat \ {0}      \* CHECK (monthly_limit_cents > 0)
  /\ MaxTotal \in Nat

VARIABLES
  budget,    \* the budget row
  spent,     \* the sum of the expense rows of each month
  calls,     \* the transactions of create
  checked    \* history: of it, what passed the check of the present budget

budgetsVars == <<budget, spent, calls, checked>>

BudgetRow == [exists : BOOLEAN, limit : Nat, currency : Currencies]

(* A transaction: what it is to insert, and whether it found (and so holds *)
(* the lock of) the budget row, with the limit it read.                    *)
Call == [pc : {"idle", "locked", "inserting"}, amount : Nat, month : Months, currency : Currencies,
         underBudget : BOOLEAN, limit : Nat]

BudgetsTypeOK ==
  /\ budget \in BudgetRow
  /\ spent \in [Months -> Nat]
  /\ calls \in [Calls -> Call]
  /\ checked \in [Months -> Nat]

BudgetsInit ==
  \E currency \in Currencies, month \in Months :
    /\ budget = [exists |-> FALSE, limit |-> 0, currency |-> currency]
    /\ spent = [m \in Months |-> 0]
    /\ calls = [c \in Calls |-> [pc |-> "idle", amount |-> 0, month |-> month, currency |-> currency,
                               underBudget |-> FALSE, limit |-> 0]]
    /\ checked = [m \in Months |-> 0]

(* Mutant: the budget row is read without FOR UPDATE.                      *)
HoldsNothing(c) == FALSE

HoldsBudget(c) == calls[c].pc # "idle" /\ calls[c].underBudget

(* The row the SELECT of create names.                                     *)
BudgetIn(currency) == budget.exists /\ budget.currency = currency

-----------------------------------------------------------------------------
(* createWithBudgetCheck up to its SELECT ... FOR UPDATE, which waits for  *)
(* the holder of the row.                                                  *)
LockBudget(c, amount, month, currency) ==
  /\ calls[c].pc = "idle"
  /\ BudgetIn(currency) => \A d \in Calls : ~HoldsBudget(d)
  /\ calls' = [calls EXCEPT ![c] =
       [pc |-> IF BudgetIn(currency) THEN "locked" ELSE "inserting",
        amount |-> amount, month |-> month, currency |-> currency,
        underBudget |-> BudgetIn(currency), limit |-> budget.limit]]
  /\ UNCHANGED <<budget, spent, checked>>

(* Mutant: an amount is not looked at.                                     *)
ExpenseBeginAnyAmount(a, c, amount, month, currency) ==
  /\ a.workspace = BudgetWorkspace
  /\ MayAct(a, "expense:create")
  /\ LockBudget(c, amount, month, currency)

(* ExpenseService.create.                                                  *)
ExpenseBegin(a, c, amount, month, currency) ==
  /\ a.workspace = BudgetWorkspace
  /\ MayAct(a, "expense:create")
  /\ amount >= 0                     \* else EXPENSE_AMOUNT_INVALID
  /\ LockBudget(c, amount, month, currency)

(* The sum of the month is taken over all currencies.                      *)
Exceeds(c) == spent[calls[c].month] + calls[c].amount > calls[c].limit

(* The sum and the comparison; BUDGET_EXCEEDED rolls back.                 *)
ExpenseCheck(c) ==
  /\ calls[c].pc = "locked"
  /\ calls' = [calls EXCEPT ![c].pc = IF Exceeds(c) THEN "idle" ELSE "inserting"]
  /\ UNCHANGED <<budget, spent, checked>>

(* The INSERT and the commit.                                              *)
ExpenseInsert(c) ==
  LET call == calls[c]
  IN  /\ call.pc = "inserting"
      /\ spent[call.month] + call.amount <= MaxTotal
      /\ spent' = [spent EXCEPT ![call.month] = @ + call.amount]
      /\ checked' = IF call.underBudget
                    THEN [checked EXCEPT ![call.month] = @ + call.amount] ELSE checked
      /\ calls' = [calls EXCEPT ![c].pc = "idle"]
      /\ UNCHANGED budget

(* A statement fails or the connection breaks: the transaction is rolled   *)
(* back and its lock released.                                             *)
ExpenseAbort(c) ==
  /\ calls[c].pc # "idle"
  /\ calls' = [calls EXCEPT ![c].pc = "idle"]
  /\ UNCHANGED <<budget, spent, checked>>

(* upsert: INSERT ... ON CONFLICT (workspace_id, category) DO UPDATE waits *)
(* for the row lock, then replaces the limit and the currency.             *)
UpsertBudget(limit, currency) ==
  /\ \A c \in Calls : ~HoldsBudget(c)
  /\ budget' = [exists |-> TRUE, limit |-> limit, currency |-> currency]
  /\ checked' = [m \in Months |-> 0]
  /\ UNCHANGED <<spent, calls>>

(* ExpenseService.setBudget.                                               *)
SetBudget(a, limit, currency) ==
  /\ a.workspace = BudgetWorkspace
  /\ AssertCapability(a, "budget:set")
  /\ UpsertBudget(limit, currency)

BudgetsNext ==
  \/ \E a \in Actors, c \in Calls, amount \in Amounts, month \in Months, currency \in Currencies :
       ExpenseBegin(a, c, amount, month, currency)
  \/ \E c \in Calls : ExpenseCheck(c) \/ ExpenseInsert(c) \/ ExpenseAbort(c)
  \/ \E a \in Actors, limit \in Limits, currency \in Currencies : SetBudget(a, limit, currency)

BudgetsSpec == BudgetsInit /\ [][BudgetsNext]_budgetsVars

-----------------------------------------------------------------------------
(* The expenses that passed the check of the present budget do not exceed  *)
(* its limit in any month, however many are created at once; those that    *)
(* were not checked (no budget yet, or another currency) are not counted.  *)
CheckedWithinLimit ==
  budget.exists => \A m \in Months : checked[m] <= budget.limit
=============================================================================
