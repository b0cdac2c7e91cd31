------------------------------- MODULE Browser -------------------------------
(***************************************************************************)
(* A browser in front of the authentication routes: the tabs that show the *)
(* sign-in, sign-up, reset, onboarding, language and application pages     *)
(* (apps/web), their requests, and the session cookie they share.  A       *)
(* request goes on when its tab is closed or gives it up; answers arrive   *)
(* in any order or not at all.                                             *)
(***************************************************************************)
EXTENDS Naturals

CONSTANTS
  Tabs,
  SessionTokens,   \* the tokens createSession may draw
  NoToken,
  MaxRequests      \* bound: requests sent in all

ASSUME BrowserAssumption == NoToken \notin SessionTokens /\ MaxRequests \in Nat

VARIABLES
  cookie,      \* the session cookie
  tokens,      \* the table sessions
  signedOut,   \* history: tokens whose sign-out the server has carried out
  tabs,
  sent         \* the requests sent, in their order

browserVars == <<cookie, tokens, signedOut, tabs, sent>>

SentIds   == 1..MaxRequests
MaybeToken == SessionTokens \cup {NoToken}
Guarded   == {"app", "locale"}   \* the pages that ask for a session
Shown     == Guarded \cup {"signin", "signup", "reset", "onboarding", "loading", "elsewhere"}
Endpoints == {"signin", "signup", "reset", "workspaces", "signout", "me"}

(* The state of the page's component.  loading (busy), oauthLoading, mode  *)
(* and error (notice); pending: the fetches it waits for; leaving: where   *)
(* the router has been told to go.  wanted, token, stale: the guarded page *)
(* that is loading, the cookie it was requested with, and whether that had *)
(* been signed out by then.                                                *)
Tab == [page : Shown, busy : BOOLEAN, oauthBusy : BOOLEAN, mode : {"signin", "signup"},
        notice : {"none", "error", "registered", "sent"}, pending : SUBSET SentIds,
        leaving : Shown \cup {"stay"}, wanted : Guarded, token : MaybeToken, stale : BOOLEAN]

Sent == [pc : {"sent", "answered", "done"}, to : Endpoints, tab : Tabs, token : MaybeToken,
         answer : {"none", "ok", "refused", "broken"}, setCookie : MaybeToken \cup {"keep"}]

BrowserTypeOK ==
  /\ cookie \in MaybeToken
  /\ tokens \in [SessionTokens -> {"none", "live", "revoked"}]
  /\ signedOut \subseteq SessionTokens
  /\ tabs \in [Tabs -> Tab]
  /\ \E n \in 0..MaxRequests : sent \in [1..n -> Sent]

(* A page that has just been loaded.                                       *)
Fresh(page, token, stale) ==
  [page |-> page, busy |-> FALSE, oauthBusy |-> FALSE, mode |-> "signin", notice |-> "none",
   pending |-> {}, leaving |-> "stay", wanted |-> "app", token |-> token, stale |-> stale]

BrowserInit ==
  /\ cookie = NoToken
  /\ tokens = [k \in SessionTokens |-> "none"]
  /\ signedOut = {}
  /\ tabs = [t \in Tabs |-> Fresh("signin", NoToken, FALSE)]
  /\ sent = [i \in {} |-> NoToken]

-----------------------------------------------------------------------------
(* Pages.                                                                  *)

Load(page) ==
  IF page \in Guarded THEN [Fresh("loading", cookie, cookie \in signedOut) EXCEPT !.wanted = page]
  ELSE Fresh(page, NoToken, FALSE)

(* The user opens a page, or reloads it; the fetches of the old one are    *)
(* nobody's any more.                                                      *)
Visit(t, page) ==
  /\ tabs' = [tabs EXCEPT ![t] = Load(page)]
  /\ UNCHANGED <<cookie, tokens, signedOut, sent>>

(* The router, or the location, gets there.                                *)
Leave(t) ==
  /\ tabs[t].leaving # "stay"
  /\ Visit(t, tabs[t].leaving)

(* getSession: the session of the cookie the page was requested with; null *)
(* without one, and when a statement throws.                               *)
GetSession(t) == tabs[t].token # NoToken /\ tokens[tabs[t].token] = "live"

Granted(t) == tabs' = [tabs EXCEPT ![t] = [tabs[t] EXCEPT !.page = tabs[t].wanted, !.wanted = "app", !.token = NoToken]]

(* AppPage: the page, or the redirect to the sign-in page.                 *)
AppPage(t) ==
  /\ tabs[t].page = "loading" /\ tabs[t].wanted = "app"
  /\ \/ GetSession(t) /\ Granted(t)
     \/ tabs' = [tabs EXCEPT ![t] = Load("signin")]
  /\ UNCHANGED <<cookie, tokens, signedOut, sent>>

(* requireSession, in the layout of the settings pages: unlike getSession  *)
(* it lets an error through, to the framework's error page.                *)
RequireSession(t) ==
  \/ GetSession(t) /\ Granted(t)
  \/ ~GetSession(t) /\ tabs' = [tabs EXCEPT ![t] = Load("signin")]
  \/ tabs[t].token # NoToken /\ tabs' = [tabs EXCEPT ![t] = Load("elsewhere")]

SettingsLayout(t) ==
  /\ tabs[t].page = "loading" /\ tabs[t].wanted # "app"
  /\ RequireSession(t)
  /\ UNCHANGED <<cookie, tokens, signedOut, sent>>

-----------------------------------------------------------------------------
(* Forms.  A submit clears the error, disables the form and sends.         *)

Count == CHOOSE n \in 0..MaxRequests : DOMAIN sent = 1..n

Fetch(t, to, form) ==
  LET i == Count + 1
  IN  /\ i <= MaxRequests
      /\ sent' = [j \in 1..i |-> IF j < i THEN sent[j]
                    ELSE [pc |-> "sent", to |-> to, tab |-> t, token |-> cookie,
                          answer |-> "none", setCookie |-> "keep"]]
      /\ tabs' = [tabs EXCEPT ![t] = [form EXCEPT !.pending = @ \cup {i}]]
      /\ UNCHANGED <<cookie, tokens, signedOut>>

Submitting(tab) == [tab EXCEPT !.busy = TRUE, !.notice = "none"]

(* The submit button of the sign-in page, and its fields.                  *)
SigninEnabled(t) == tabs[t].page = "signin" /\ ~tabs[t].busy /\ ~tabs[t].oauthBusy

HandleEmailAuth(t) == SigninEnabled(t) /\ Fetch(t, tabs[t].mode, Submitting(tabs[t]))

(* The two provider buttons.                                               *)
OauthEnabled(t) == tabs[t].page = "signin" /\ ~tabs[t].oauthBusy /\ ~tabs[t].busy

(* oauthLoading stays set; the route does not exist.                       *)
HandleOAuth(t) ==
  /\ OauthEnabled(t)
  /\ tabs' = [tabs EXCEPT ![t] = [@ EXCEPT !.oauthBusy = TRUE, !.notice = "none", !.leaving = "elsewhere"]]
  /\ UNCHANGED <<cookie, tokens, signedOut, sent>>

(* The link below the form works while a request is under way.             *)
ToggleMode(t) ==
  /\ tabs[t].page = "signin"
  /\ tabs' = [tabs EXCEPT ![t] =
       [tabs[t] EXCEPT !.mode = IF @ = "signin" THEN "signup" ELSE "signin", !.notice = "none"]]
  /\ UNCHANGED <<cookie, tokens, signedOut, sent>>

SignupEnabled(t) == tabs[t].page = "signup" /\ ~tabs[t].busy
SignupSubmit(t)  == SignupEnabled(t) /\ Fetch(t, "signup", Submitting(tabs[t]))

(* The form is gone once its message is shown as sent.                     *)
ResetEnabled(t) == tabs[t].page = "reset" /\ ~tabs[t].busy /\ tabs[t].notice # "sent"
ResetSubmit(t)  == ResetEnabled(t) /\ Fetch(t, "reset", Submitting(tabs[t]))

OnboardingEnabled(t) == tabs[t].page = "onboarding" /\ ~tabs[t].busy
OnboardingSubmit(t)  == OnboardingEnabled(t) /\ Fetch(t, "workspaces", Submitting(tabs[t]))

(* Never disabled.                                                         *)
SignOutButton(t)  == tabs[t].page = "app" /\ Fetch(t, "signout", tabs[t])
LocaleSwitcher(t) == tabs[t].page = "locale" /\ Fetch(t, "me", tabs[t])

-----------------------------------------------------------------------------
(* Routes.                                                                 *)

Reply(i, answer, setCookie) ==
  /\ sent[i].pc = "sent"
  /\ sent' = [sent EXCEPT ![i] = [@ EXCEPT !.pc = "answered", !.answer = answer, !.setCookie = setCookie]]
  /\ UNCHANGED <<cookie, tabs>>

(* refused: an envelope with an error; broken: the framework's page for an *)
(* error that was thrown, which is not JSON.  A statement may fail after   *)
(* the session was inserted.                                               *)
PostSignin(i) ==
  /\ sent[i].to = "signin"
  /\ \/ \E answer \in {"refused", "broken"} : Reply(i, answer, "keep") /\ UNCHANGED tokens
     \/ \E k \in SessionTokens :
          /\ tokens[k] = "none"
          /\ tokens' = [tokens EXCEPT ![k] = "live"]
          /\ \/ Reply(i, "ok", k)
             \/ Reply(i, "broken", "keep")
  /\ UNCHANGED signedOut

(* An address in use is refused.  Every other sign-up breaks: the INSERT   *)
(* into workspaces leaves out owner_user_id, which is NOT NULL.            *)
PostSignup(i) ==
  /\ sent[i].to = "signup"
  /\ \E answer \in {"refused", "broken"} : Reply(i, answer, "keep")
  /\ UNCHANGED <<tokens, signedOut>>

(* Mutant: the cookie is cleared and the session left alone.               *)
PostSignoutCookieOnly(i) ==
  /\ sent[i].to = "signout"
  /\ Reply(i, "ok", NoToken)
  /\ signedOut' = signedOut \cup ({sent[i].token} \ {NoToken})
  /\ UNCHANGED tokens

(* The session of the cookie that came along is revoked, and the cookie    *)
(* cleared, whichever session it holds by then; or the UPDATE throws.      *)
PostSignout(i) ==
  /\ sent[i].to = "signout"
  /\ \/ /\ Reply(i, "ok", NoToken)
        /\ tokens' = [k \in SessionTokens |-> IF k = sent[i].token THEN "revoked" ELSE tokens[k]]
        /\ signedOut' = signedOut \cup ({sent[i].token} \ {NoToken})
     \/ Reply(i, "broken", "keep") /\ UNCHANGED <<tokens, signedOut>>

(* The form posts to a route that does not exist.                          *)
PostReset(i) == sent[i].to = "reset" /\ Reply(i, "broken", "keep") /\ UNCHANGED <<tokens, signedOut>>

(* Without a slug, which the form does not send, the driver refuses the    *)
(* INSERT; the route wraps every error into an envelope.                   *)
PostWorkspaces(i) ==
  sent[i].to = "workspaces" /\ Reply(i, "refused", "keep") /\ UNCHANGED <<tokens, signedOut>>

(* PATCH /api/v1/me: the route has only GET.                               *)
PatchMe(i) == sent[i].to = "me" /\ Reply(i, "broken", "keep") /\ UNCHANGED <<tokens, signedOut>>

-----------------------------------------------------------------------------
(* Answers.  What the handlers do after await fetch; outcome "failed" is   *)
(* the exception of fetch itself.                                          *)

Failing(tab) == [tab EXCEPT !.busy = FALSE, !.notice = "error"]
GoingTo(tab, page) == [tab EXCEPT !.leaving = page]

(* It goes by the mode the form was submitted in, and enables the form     *)
(* before the new page is there.                                           *)
AfterEmailAuth(tab, to, outcome) ==
  IF outcome # "ok" THEN Failing(tab)
  ELSE IF to = "signin" THEN GoingTo([tab EXCEPT !.busy = FALSE], "app")
  ELSE [tab EXCEPT !.busy = FALSE, !.notice = "registered", !.mode = "signin"]

AfterSignup(tab, outcome) ==
  IF outcome # "ok" THEN Failing(tab) ELSE GoingTo([tab EXCEPT !.busy = FALSE], "app")

AfterReset(tab, outcome) ==
  IF outcome # "ok" THEN Failing(tab) ELSE [tab EXCEPT !.busy = FALSE, !.notice = "sent"]

AfterOnboarding(tab, outcome) ==
  IF outcome # "ok" THEN Failing(tab) ELSE GoingTo([tab EXCEPT !.busy = FALSE], "elsewhere")

(* Whatever the answer is; an exception is not caught.                     *)
AfterSignOut(tab, outcome) == IF outcome = "failed" THEN tab ELSE GoingTo(tab, "signin")

(* It reloads the page to show the new language, changed or not.           *)
AfterLocale(tab, outcome) == IF outcome = "failed" THEN tab ELSE GoingTo(tab, "locale")

AfterFetch(t, i, outcome) ==
  LET tab == [tabs[t] EXCEPT !.pending = @ \ {i}]
  IN  CASE tab.page = "signin"     -> AfterEmailAuth(tab, sent[i].to, outcome)
        [] tab.page = "signup"     -> AfterSignup(tab, outcome)
        [] tab.page = "reset"      -> AfterReset(tab, outcome)
        [] tab.page = "onboarding" -> AfterOnboarding(tab, outcome)
        [] tab.page = "app"        -> AfterSignOut(tab, outcome)
        [] tab.page = "locale"     -> AfterLocale(tab, outcome)

Awaited(i) == i \in tabs[sent[i].tab].pending

Settle(i, outcome) == tabs' = [tabs EXCEPT ![sent[i].tab] = AfterFetch(sent[i].tab, i, outcome)]

SetCookie(i) == cookie' = IF sent[i].setCookie = "keep" THEN cookie ELSE sent[i].setCookie

(* Nothing of it matters any more.                                         *)
Done(i) == sent' = [sent EXCEPT ![i] =
  [@ EXCEPT !.pc = "done", !.token = NoToken, !.answer = "none", !.setCookie = "keep"]]

Arrive(i) ==
  /\ sent[i].pc = "answered"
  /\ Awaited(i)
  /\ Settle(i, sent[i].answer)
  /\ SetCookie(i)
  /\ Done(i)
  /\ UNCHANGED <<tokens, signedOut>>

(* The connection breaks: the tab stops waiting, the server may go on.     *)
GiveUp(i) ==
  /\ sent[i].pc # "done"
  /\ Awaited(i)
  /\ Settle(i, "failed")
  /\ UNCHANGED <<cookie, tokens, signedOut, sent>>

(* The end of a request nobody waits for: its cookie may still be set.     *)
Abandon(i) ==
  /\ sent[i].pc # "done"
  /\ ~Awaited(i)
  /\ Done(i)
  /\ \/ SetCookie(i)
     \/ UNCHANGED cookie
  /\ UNCHANGED <<tokens, signedOut, tabs>>

(* A tab, as far as signing in and out goes, and its other forms.          *)
SessionOps(t) ==
  \/ \E page \in {"signin", "app"} : Visit(t, page)
  \/ Leave(t) \/ AppPage(t) \/ HandleEmailAuth(t) \/ SignOutButton(t)

FormOps(t) ==
  \/ \E page \in {"signup", "reset", "onboarding", "locale"} : Visit(t, page)
  \/ SettingsLayout(t) \/ LocaleSwitcher(t)
  \/ HandleOAuth(t) \/ ToggleMode(t)
  \/ SignupSubmit(t) \/ ResetSubmit(t) \/ OnboardingSubmit(t)

RequestOps(i) ==
  \/ PostSignin(i) \/ PostSignup(i) \/ PostSignout(i)
  \/ PostReset(i) \/ PostWorkspaces(i) \/ PatchMe(i)
  \/ Arrive(i) \/ GiveUp(i) \/ Abandon(i)

BrowserNext ==
  \/ \E t \in Tabs : SessionOps(t) \/ FormOps(t)
  \/ \E i \in DOMAIN sent : RequestOps(i)

BrowserSpec == BrowserInit /\ [][BrowserNext]_browserVars

-----------------------------------------------------------------------------
(* Once the server has carried out a sign-out, no page that is loaded with *)
(* that cookie shows the application or the settings, in whichever tab,    *)
(* although the answer that would have cleared the cookie got lost.        *)
SignedOutStaysOut == \A t \in Tabs : tabs[t].page \in Guarded => ~tabs[t].stale
=============================================================================
