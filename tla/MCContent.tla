------------------------------ MODULE MCContent ------------------------------
(***************************************************************************)
(* The content services, and the browser, for TLC.  They have no state in   *)
(* common, so one of them is active in a behaviour, chosen at the start:   *)
(* the states add up instead of multiplying.                               *)
(***************************************************************************)
EXTENDS Notes, Budgets, Records, Journal, Tokens, Browser

CONSTANTS u1, u2, u3, w1, w2, t1

(* A member and an owner of w1, the member being in w2 too, and a viewer of *)
(* w2.                                                                     *)
MCActors ==
  {[kind |-> "user", user |-> u1, workspace |-> w1, role |-> "member"],
   [kind |-> "user", user |-> u2, workspace |-> w1, role |-> "owner"],
   [kind |-> "user", user |-> u1, workspace |-> w2, role |-> "member"],
   [kind |-> "user", user |-> u3, workspace |-> w2, role |-> "viewer"]}

MCAmounts == {-1, 1}
MCDeltas  == {-1, 1}

EditedTasks == {1, 2}   \* the tasks that are edited, where nobody lists

(* The tab that goes through all the forms, with at most two requests.     *)
FormTab == t1
FormRequests == 1..2

ASSUME MCContentAssumption ==
  /\ EditedTasks \subseteq TaskIds
  /\ FormTab \in Tabs

VARIABLE focus   \* the service that is active

contentVars == <<focus, notesVars, budgetsVars, recordsVars, journalVars, tokensVars, browserVars>>

(* What rows that do not exist yet, and calls not begun, are initially     *)
(* filled with means nothing: one filling is enough.                       *)
Filling ==
  /\ listing.workspace = w1
  /\ \A n \in NoteIds : notes[n].workspace = w1
  /\ \A c \in Calls : calls[c].month = CHOOSE m \in Months : TRUE
  /\ budget.currency = CHOOSE c \in Currencies : TRUE
  /\ \A c \in Callbacks : callbacks[c].state = CHOOSE s \in States : TRUE
  /\ \A d \in Deliveries : deliveries[d].nonce = CHOOSE n \in Nonces : TRUE

ContentInit ==
  /\ focus \in {"notes", "budgets", "listing", "tasks", "others", "journal", "oauth", "webhooks",
               "tabs", "forms"}
  /\ NotesInit /\ BudgetsInit /\ RecordsInit /\ JournalInit /\ TokensInit /\ BrowserInit
  /\ Filling

ContentNext ==
  /\ UNCHANGED focus
  /\ \/ /\ focus = "notes" /\ NotesNext
        /\ UNCHANGED <<budgetsVars, recordsVars, journalVars, tokensVars, browserVars>>
     \/ /\ focus = "budgets" /\ BudgetsNext
        /\ UNCHANGED <<notesVars, recordsVars, journalVars, tokensVars, browserVars>>
     \/ /\ \/ focus = "listing" /\ ((\E a \in Actors, i \in TaskIds : TaskOps(a, i)) \/ ListOps)
           \/ focus = "tasks" /\ \E a \in Actors, i \in EditedTasks : TaskOps(a, i) \/ TaskEdits(a, i)
           \/ focus = "others" /\ \E a \in Actors, i \in OtherIds : OtherOps(a, i)
        /\ UNCHANGED <<notesVars, budgetsVars, journalVars, tokensVars, browserVars>>
     \/ /\ focus = "journal" /\ JournalNext
        /\ UNCHANGED <<notesVars, budgetsVars, recordsVars, tokensVars, browserVars>>
     \/ /\ \/ focus = "oauth" /\ OauthNext
           \/ focus = "webhooks" /\ WebhookNext
        /\ UNCHANGED <<notesVars, budgetsVars, recordsVars, journalVars, browserVars>>
     \/ /\ \/ focus = "tabs" /\ ((\E t \in Tabs : SessionOps(t)) \/ \E i \in DOMAIN sent : RequestOps(i))
           \/ /\ focus = "forms"
              /\ SessionOps(FormTab) \/ FormOps(FormTab) \/ \E i \in DOMAIN sent : RequestOps(i)
              /\ DOMAIN sent' \subseteq FormRequests
        /\ UNCHANGED <<notesVars, budgetsVars, recordsVars, journalVars, tokensVars>>

ContentSpec == ContentInit /\ [][ContentNext]_contentVars

(* Every table keeps its columns' types and CHECKs.                        *)
ContentTypeOK ==
  NotesTypeOK /\ BudgetsTypeOK /\ RecordsTypeOK /\ JournalTypeOK /\ TokensTypeOK /\ BrowserTypeOK
=============================================================================
