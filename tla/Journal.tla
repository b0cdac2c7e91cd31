------------------------------- MODULE Journal -------------------------------
(***************************************************************************)
(* The rows that are only ever added or merged (packages/services/src):    *)
(* habit check-ins, daily reviews, XP awards and import jobs.  A client    *)
(* repeats a request whose answer was lost, so each may arrive again.      *)
(* With the row level policies in force a write that meets a row of        *)
(* another workspace fails and changes nothing; modelled is the other case *)
(* too, a role that bypasses them, where the statement finds that row.     *)
(***************************************************************************)
EXTENDS Integers, FiniteSets, Actors

CONSTANTS
  Habits,      \* rows of habits, deleted ones and other workspaces' too
  Dates,
  Deltas,      \* the XP deltas awarded
  MaxXp,       \* bound: totals stay within -MaxXp..MaxXp
  MaxImports   \* bound: import jobs of a workspace

VARIABLES
  checkins,   \* habit_checkins
  reviews,    \* daily_reviews, by user and date
  xp,         \* the sum of xp_events by workspace and user
  imports,    \* import_jobs, all of them queued, by workspace
  submitted   \* history: the fields of a review somebody has filled in

journalVars == <<checkins, reviews, xp, imports, submitted>>

JournalUsers  == {a.user : a \in Actors}
JournalPlaces == {a.workspace : a \in Actors}
ReviewFields  == {"mood", "summary"}

(* Uniqueness of (habit_id, user_id, checkin_date) is up to the table.     *)
CheckinRow == [habit : Habits, user : JournalUsers, date : Dates, workspace : JournalPlaces]

(* Of a review: its workspace and which fields are not null.               *)
ReviewRow == [exists : BOOLEAN, workspace : JournalPlaces, filled : SUBSET ReviewFields]

JournalTypeOK ==
  /\ checkins \subseteq CheckinRow
  /\ reviews \in [JournalUsers \X Dates -> ReviewRow]
  /\ xp \in [JournalPlaces \X JournalUsers -> Int]
  /\ imports \in [JournalPlaces -> Nat]
  /\ submitted \subseteq JournalUsers \X Dates \X ReviewFields

JournalInit ==
  /\ checkins = {}
  /\ reviews \in [JournalUsers \X Dates ->
       [exists : {FALSE}, workspace : {CHOOSE w \in JournalPlaces : TRUE}, filled : {{}}]]
  /\ xp = [k \in JournalPlaces \X JournalUsers |-> 0]
  /\ imports = [w \in JournalPlaces |-> 0]
  /\ submitted = {}

-----------------------------------------------------------------------------
(* createCheckin: the INSERT fails on uq_habit_checkin_day; nothing looks  *)
(* whether the habit is live, or of this workspace.                        *)
CreateCheckin(a, h, date) ==
  /\ \A r \in checkins : ~(r.habit = h /\ r.user = a.user /\ r.date = date)
  /\ checkins' = checkins \cup {[habit |-> h, user |-> a.user, date |-> date, workspace |-> a.workspace]}
  /\ UNCHANGED <<reviews, xp, imports, submitted>>

Checkin(a, h, date) == MayAct(a, "habit:checkin") /\ CreateCheckin(a, h, date)

(* Mutant: the new values replace the old ones, nulls included.            *)
MergeReplacing(old, new) == new

(* COALESCE(EXCLUDED.mood, daily_reviews.mood), and so for the summary.    *)
Merge(old, new) == old \cup new

(* upsert: ON CONFLICT (user_id, review_date) DO UPDATE SET the two fields *)
(* only, so a row of another workspace stays in it.                        *)
ReviewUpsert(a, date, fields) ==
  LET k == <<a.user, date>>
      r == reviews[k]
  IN  /\ reviews' = [reviews EXCEPT ![k] =
           [exists |-> TRUE, workspace |-> IF r.exists THEN r.workspace ELSE a.workspace,
            filled |-> Merge(r.filled, fields)]]
      /\ submitted' = submitted \cup {<<a.user, date, f>> : f \in fields}
      /\ UNCHANGED <<checkins, xp, imports>>

ReviewWrite(a, date, fields) == MayAct(a, "review:write") /\ ReviewUpsert(a, date, fields)

(* award: an INSERT without a key of its own; a repeated request counts    *)
(* twice.                                                                  *)
XpRepoAward(a, delta) ==
  LET k == <<a.workspace, a.user>>
  IN  /\ xp[k] + delta \in -MaxXp..MaxXp
      /\ xp' = [xp EXCEPT ![k] = @ + delta]
      /\ UNCHANGED <<checkins, reviews, imports, submitted>>

(* A user awards to himself only.                                          *)
XpAward(a, delta) == MayAct(a, "xp:award") /\ XpRepoAward(a, delta)

(* start: the job is queued; no code takes it up.                          *)
ImportRepoCreate(a) ==
  /\ imports[a.workspace] < MaxImports
  /\ imports' = [imports EXCEPT ![a.workspace] = @ + 1]
  /\ UNCHANGED <<checkins, reviews, xp, submitted>>

ImportStart(a) == MayAct(a, "import:start") /\ ImportRepoCreate(a)

JournalNext ==
  \E a \in Actors :
    \/ \E h \in Habits, date \in Dates : Checkin(a, h, date)
    \/ \E date \in Dates, fields \in SUBSET ReviewFields : ReviewWrite(a, date, fields)
    \/ \E delta \in Deltas : XpAward(a, delta)
    \/ ImportStart(a)

JournalSpec == JournalInit /\ [][JournalNext]_journalVars

-----------------------------------------------------------------------------
(* What a user filled in on one device is not wiped out by a later write   *)
(* from another that leaves the field empty, or by a repeated request.     *)
SubmittedFieldsSurvive ==
  \A s \in submitted : s[3] \in reviews[<<s[1], s[2]>>].filled
=============================================================================
