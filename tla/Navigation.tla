---------------------------- MODULE Navigation ----------------------------
(***************************************************************************)
(* The way into the application, in one browser tab: the pages that        *)
(* redirect (ProtectedRoute.tsx, LoginPage.tsx, SetupPage.tsx,             *)
(* PasswordChangePage.tsx, DashboardPage.tsx, OnboardingPage.tsx), the     *)
(* cached answers they decide on (api/auth.ts, api/setup.ts, with the      *)
(* query cache of main.tsx) and the account they are about.                *)
(*                                                                         *)
(* Every redirect reads the cache, never the server.  A form's answer      *)
(* stores a token and marks the cache stale; the page moves on before, or  *)
(* after, the fresh answer is there, and each of the other redirects may   *)
(* act on the old one in between.                                          *)
(*                                                                         *)
(* A query is its data, the request under way and whether the last one     *)
(* failed.  A query that fails keeps its data, and one that has no data    *)
(* and a request under way is loading.                                     *)
(***************************************************************************)
EXTENDS Naturals

CONSTANT MaxAsked \* bounds the forms sent and the reloads of the page

VARIABLES
  account,    \* the admin: "none" before the setup, "must" change the password, "set"
  token,      \* the stored token: "none", "good" or "dead"
  page, from, \* the route, and where the login page returns to
  me, status, \* the queries /auth/me and /setup/status
  lists,      \* the three lists, on the dashboard: "unknown", "failed", "empty" or "some"
  dismissed,  \* localStorage: the wizard was left
  form,       \* the form being sent, its step, and whether it is the first password
  overtaken,  \* a query may keep an answer older than the sign-in or than the admin
  asked

nav_vars == <<account, token, page, from, me, status, lists, dismissed, form,
              overtaken, asked>>

Protected == {"home", "hosts", "onboarding", "password"}
Pages == Protected \union {"login", "setup"}
Signed == {"must", "user"}
NoForm == [kind |-> "none", at |-> "none", first |-> FALSE]

NavTypeOK ==
  /\ account \in {"none", "must", "set"} /\ dismissed \in BOOLEAN
  /\ token \in {"none", "good", "dead"} /\ page \in Pages /\ from \in Protected
  /\ me \in [data : {"unknown", "null"} \union Signed, at : {"no", "out", "back"},
             sent : {"none", "good", "dead"}, answer : {"null", "error"} \union Signed,
             failed : BOOLEAN]
  /\ status \in [data : {"unknown", "needs", "done"}, at : {"no", "out", "back"},
                 answer : {"needs", "done", "error"}, failed : BOOLEAN]
  /\ lists \in {"unknown", "failed", "empty", "some"}
  /\ form \in [kind : {"none", "login", "setup", "password"}, at : {"none", "out", "refetch", "refetched"},
               first : BOOLEAN]
  /\ overtaken \in BOOLEAN /\ asked \in 0..MaxAsked

-----------------------------------------------------------------------------
(* Queries *)

Asked(q) == [q EXCEPT !.at = "out"]
AskedMe(q, t) == [q EXCEPT !.at = "out", !.sent = t]
FreshMe(t) == [data |-> "unknown", at |-> "out", sent |-> t, answer |-> "null", failed |-> FALSE]
FreshStatus == [data |-> "unknown", at |-> "out", answer |-> "needs", failed |-> FALSE]

\* invalidateQueries: a request under way is given up for a new one, but the first one,
\* which has no data to fall back on, is kept.
KeptOnInvalidate(q) == q.data = "unknown" /\ q.at # "no"
InvalidateMe(t) == IF KeptOnInvalidate(me) THEN me ELSE AskedMe(me, t)
InvalidateStatus == IF KeptOnInvalidate(status) THEN status ELSE Asked(status)

\* useMe, useSetupStatus: refetched when the data is stale and a page mounts, or by "retry".
RefetchMe ==
  /\ me.at = "no" /\ me' = AskedMe(me, token)
  /\ UNCHANGED <<account, token, page, from, status, lists, dismissed, form, overtaken, asked>>

RefetchStatus ==
  /\ status.at = "no" /\ status' = Asked(status)
  /\ UNCHANGED <<account, token, page, from, me, lists, dismissed, form, overtaken, asked>>

\* The server answers, or does not.
WhoIs(t) == IF t # "good" \/ token # "good" \/ account = "none" THEN "null"
            ELSE IF account = "must" THEN "must" ELSE "user"

AnswerMe ==
  /\ me.at = "out"
  /\ \E a \in {WhoIs(me.sent), "error"} : me' = [me EXCEPT !.at = "back", !.answer = a]
  /\ UNCHANGED <<account, token, page, from, status, lists, dismissed, form, overtaken, asked>>

AnswerStatus ==
  /\ status.at = "out"
  /\ \E a \in {IF account = "none" THEN "needs" ELSE "done", "error"} :
        status' = [status EXCEPT !.at = "back", !.answer = a]
  /\ UNCHANGED <<account, token, page, from, me, lists, dismissed, form, overtaken, asked>>

\* A 401 to a request that carried a token drops the stored one and, through the event App.tsx
\* listens to, asks again; useMe itself takes a 401 for the answer "nobody".
Settled(q) == [q EXCEPT !.at = "no", !.sent = "none", !.answer = "null"]

ReceiveMe ==
  /\ me.at = "back"
  /\ IF me.answer = "error"
     THEN /\ me' = [Settled(me) EXCEPT !.failed = TRUE] /\ UNCHANGED token
     ELSE IF me.answer = "null" /\ me.sent # "none"
     THEN /\ token' = "none"
          /\ me' = IF me.data = "unknown" THEN [Settled(me) EXCEPT !.data = "null", !.failed = FALSE]
                   ELSE AskedMe(me, "none")
     ELSE /\ me' = [Settled(me) EXCEPT !.data = me.answer, !.failed = FALSE] /\ UNCHANGED token
  /\ form' = IF form.at = "refetch" /\ me'.at = "no" THEN [form EXCEPT !.at = "refetched"] ELSE form
  /\ UNCHANGED <<account, page, from, status, lists, dismissed, overtaken, asked>>

ReceiveStatus ==
  /\ status.at = "back"
  /\ status' = IF status.answer = "error" THEN [status EXCEPT !.at = "no", !.answer = "needs", !.failed = TRUE]
               ELSE [data |-> status.answer, at |-> "no", answer |-> "needs", failed |-> FALSE]
  /\ UNCHANGED <<account, token, page, from, me, lists, dismissed, form, overtaken, asked>>

\* Any other request of a page inside meets the dead session first.
Unauthorized ==
  /\ token = "dead" /\ page \in Protected /\ me.data \in Signed
  /\ token' = "none" /\ me' = InvalidateMe("none")
  /\ UNCHANGED <<account, page, from, status, lists, dismissed, form, overtaken, asked>>

-----------------------------------------------------------------------------
(* Redirects *)

Loading(q) == q.data = "unknown" /\ q.at # "no"

GoTo(p, f) ==
  /\ page' = p /\ from' = f /\ lists' = "unknown"
  /\ UNCHANGED <<account, token, me, status, dismissed, form, overtaken, asked>>

\* ProtectedRoute, in the order of its returns; the page itself shows only if none applies.
Decided == page \in Protected /\ ~Loading(me) /\ ~Loading(status)
Shown == /\ Decided /\ status.data # "needs" /\ ~me.failed /\ me.data \in Signed
         /\ (me.data = "must" => page = "password")

RouteGuard ==
  /\ Decided
  /\ \/ /\ status.data = "needs" /\ GoTo("setup", "home")
     \/ /\ status.data # "needs" /\ ~me.failed /\ me.data \notin Signed
        /\ GoTo("login", page)
     \/ /\ status.data # "needs" /\ ~me.failed /\ me.data = "must" /\ page # "password"
        /\ GoTo("password", from)

\* LoginPage's two effects; the second one's navigation wins.
LoginEffect ==
  /\ page = "login"
  /\ \/ status.data = "needs" /\ GoTo("setup", "home")
     \/ status.data # "needs" /\ me.data = "must" /\ GoTo("password", from)
     \/ status.data # "needs" /\ me.data = "user" /\ GoTo(from, "home")

SetupEffect ==
  /\ page = "setup" /\ status.data = "done"
  /\ IF me.data \in Signed THEN GoTo("home", "home") ELSE GoTo("login", "home")

\* DashboardPage: a list that failed counts as an empty one.
FetchLists ==
  /\ Shown /\ page = "home"
  /\ lists = "unknown" /\ lists' \in {"some", "empty", "failed"}
  /\ UNCHANGED <<account, token, page, from, me, status, dismissed, form, overtaken, asked>>

DashboardEffect ==
  /\ Shown /\ page = "home" /\ lists \in {"empty", "failed"} /\ ~dismissed
  /\ GoTo("onboarding", from)

\* OnboardingPage: skipped or finished, or something was created in it.
LeaveOnboarding ==
  /\ Shown /\ page = "onboarding"
  /\ dismissed' = TRUE /\ page' = "home"
  /\ UNCHANGED <<account, token, from, me, status, lists, form, overtaken, asked>>

-----------------------------------------------------------------------------
(* The user *)

Visit(p) == /\ Shown /\ page # "password" /\ p # page /\ GoTo(p, from)

\* The page is loaded anew, at the address it shows.
Reload ==
  /\ form = NoForm /\ asked < MaxAsked /\ asked' = asked + 1
  /\ me' = FreshMe(token) /\ status' = FreshStatus /\ lists' = "unknown" /\ overtaken' = FALSE
  /\ from' = "home"
  /\ UNCHANGED <<account, token, page, dismissed, form>>

\* A form is sent from its page; the first password is told by what the cache says.
Submit(kind) ==
  /\ form = NoForm /\ asked < MaxAsked /\ asked' = asked + 1
  /\ page = kind /\ (kind = "password" => Shown)
  /\ form' = [kind |-> kind, at |-> "out", first |-> me.data = "must"]
  /\ UNCHANGED <<account, token, page, from, me, status, lists, dismissed, overtaken>>

Refused ==
  /\ form.at = "out" /\ form' = NoForm
  /\ UNCHANGED <<account, token, page, from, me, status, lists, dismissed, overtaken, asked>>

\* useLogin: the token is stored and /auth/me asked again; the form does not wait for it.
LoggedIn ==
  /\ form.kind = "login" /\ form.at = "out" /\ account # "none"
  /\ form' = NoForm /\ token' = "good" /\ me' = InvalidateMe("good")
  /\ page' = (IF account = "must" THEN "password" ELSE from) /\ lists' = "unknown"
  /\ overtaken' = (overtaken \/ KeptOnInvalidate(me))
  /\ UNCHANGED <<account, from, status, dismissed, asked>>

\* useSetup: the admin is created and signed in; both queries are asked again, neither awaited.
SetUp ==
  /\ form.kind = "setup" /\ form.at = "out" /\ account = "none"
  /\ account' = "set" /\ token' = "good" /\ form' = NoForm
  /\ me' = InvalidateMe("good") /\ status' = InvalidateStatus
  /\ overtaken' = (overtaken \/ KeptOnInvalidate(me) \/ KeptOnInvalidate(status))
  /\ page' = "onboarding" /\ lists' = "unknown"
  /\ UNCHANGED <<from, dismissed, asked>>

\* Mutant of PasswordChanged: the form does not wait for the new answer of /auth/me
PasswordNotAwaited ==
  /\ form.kind = "password" /\ form.at = "out" /\ token = "good"
  /\ account' = "set" /\ me' = InvalidateMe("good")
  /\ form' = NoForm /\ page' = (IF form.first THEN "onboarding" ELSE "home") /\ lists' = "unknown"
  /\ UNCHANGED <<token, from, status, dismissed, overtaken, asked>>

\* useChangePassword: every token is revoked and this one replaced; the form waits until
\* /auth/me has been asked again.
PasswordChanged ==
  /\ form.kind = "password" /\ form.at = "out" /\ token = "good"
  /\ account' = "set" /\ me' = InvalidateMe("good")
  /\ form' = [form EXCEPT !.at = "refetch"]
  /\ UNCHANGED <<token, page, from, status, lists, dismissed, overtaken, asked>>

PasswordLeft ==
  /\ form.at = "refetched"
  /\ form' = NoForm /\ lists' = "unknown"
  /\ page' = IF form.first THEN "onboarding" ELSE "home"
  /\ UNCHANGED <<account, token, from, me, status, dismissed, overtaken, asked>>

\* useLogout and the header's menu: the token and the whole cache are dropped.
Logout ==
  /\ me.data \in Signed /\ form = NoForm
  /\ token' = "none" /\ me' = FreshMe("none") /\ status' = FreshStatus /\ lists' = "unknown"
  /\ page' = "login" /\ from' = "home" /\ overtaken' = FALSE
  /\ UNCHANGED <<account, dismissed, form, asked>>

-----------------------------------------------------------------------------
(* Elsewhere: the session is ended, or the admin created by someone else. *)

Revoke ==
  /\ token = "good" /\ token' = "dead"
  /\ UNCHANGED <<account, page, from, me, status, lists, dismissed, form, overtaken, asked>>

SetUpElsewhere ==
  /\ account = "none" /\ account' = "set" /\ overtaken' = TRUE
  /\ UNCHANGED <<token, page, from, me, status, lists, dismissed, form, asked>>

NavInit ==
  /\ account \in {"none", "must", "set"}
  /\ token \in {"none", "good"} /\ (account = "none" => token = "none")
  /\ page \in {"home", "hosts", "login", "setup"} /\ from = "home"
  /\ me = FreshMe(token) /\ status = FreshStatus
  /\ lists = "unknown" /\ dismissed = FALSE /\ form = NoForm /\ overtaken = FALSE
  /\ asked = 0

\* What the browser and the server do by themselves.
Network == AnswerMe \/ AnswerStatus \/ ReceiveMe \/ ReceiveStatus
Effects == RouteGuard \/ LoginEffect \/ SetupEffect \/ DashboardEffect
Answers == Refused \/ LoggedIn \/ SetUp \/ PasswordChanged

NavNext ==
  \/ Network
  \/ Effects
  \/ Answers
  \/ PasswordLeft
  \/ RefetchMe
  \/ RefetchStatus
  \/ Unauthorized
  \/ FetchLists
  \/ LeaveOnboarding
  \/ \E p \in {"home", "hosts", "onboarding"} : Visit(p)
  \/ Reload
  \/ \E k \in {"login", "setup", "password"} : Submit(k)
  \/ Logout
  \/ Revoke
  \/ SetUpElsewhere

NavFairness ==
  /\ WF_nav_vars(AnswerMe \/ ReceiveMe)
  /\ WF_nav_vars(AnswerStatus \/ ReceiveStatus)
  /\ WF_nav_vars(RouteGuard \/ LoginEffect \/ SetupEffect)
  /\ WF_nav_vars(Answers \/ PasswordLeft)

NavSpec == NavInit /\ [][NavNext]_nav_vars /\ NavFairness

-----------------------------------------------------------------------------
\* A user with a session and a password of their own gets to a page inside: no redirect sends
\* them round, and none leaves them on the login, the setup or the password form
\* (api/auth.ts:75-81, useChangePassword).  Excepted are the cases in which a page says that
\* the server does not answer, and the request that left before the sign-in and is answered
\* after it: its "nobody" becomes the cached answer, and the user has to sign in again.
\* The same goes for an admin whom somebody else creates meanwhile: the page that has read
\* needs_setup before keeps to it until it asks again.
GetsIn ==
  (token = "good" /\ account = "set") ~>
    \/ Shown /\ page # "password"
    \/ token # "good" \/ me.failed \/ status.failed \/ overtaken

=============================================================================
