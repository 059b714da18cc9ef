------------------------------ MODULE Sessions ------------------------------
(***************************************************************************)
(* The administrator's account and the sessions on it: services/auth.ts,   *)
(* routes/auth.ts, routes/totp.ts and middleware/auth.ts, with one browser *)
(* (api/client.ts, api/auth.ts, LoginPage.tsx) and one other client, which *)
(* holds every token ever issued and knows every password.  A request is   *)
(* a sequence of awaits; another request or a second of the clock may come *)
(* between any two of them.                                                *)
(*                                                                         *)
(* A password is its number: the next one is one higher.  A token is the   *)
(* second it was issued in, with the number of the password it was         *)
(* obtained by (which the code does not store).                            *)
(***************************************************************************)
EXTENDS Integers, FiniteSets

CONSTANTS MaxTime,      \* bound on the clock, in seconds; tokens outlive it
          MaxPassword,  \* bound on the number of passwords
          MaxTokens,    \* bound on the number of different tokens
          StepSeconds   \* length of a TOTP step, in seconds

ASSUME SessionsAssumption ==
  /\ {MaxTime, MaxPassword, MaxTokens, StepSeconds} \subseteq Nat \ {0}

Clients == {"browser", "other"}
Time == 1 .. MaxTime
Passwords == 1 .. MaxPassword
TotpStepFor(t) == t \div StepSeconds
TotpSteps == 0 .. TotpStepFor(MaxTime)

VARIABLES now,       \* Date.now(), in seconds
          user,      \* the row of table users
          req,       \* the request each client has under way
          tokens,    \* every token issued
          spent,     \* history: how often each TOTP step was accepted
          held,      \* localStorage: the browser's token
          poll       \* a background request of the browser: its token, and the answer

vars == <<now, user, req, tokens, spent, held, poll>>

Token == [iat : Time, pw : Passwords, raced : BOOLEAN]
NoToken == [iat |-> 0, pw |-> 0, raced |-> FALSE]
NoPoll == [tok |-> NoToken, answer |-> "none"]

\* tokens_valid_after and totp_last_step are NULL: 0 and -1.
User == [pw : Passwords, must : BOOLEAN, after : {0} \cup Time,
         totp : BOOLEAN, step : {-1} \cup TotpSteps]

Idle == [kind |-> "none", at |-> "idle", pw |-> 0, totp |-> FALSE, n |-> 0]

Kinds == {"login", "password", "enable", "disable"}
Places == {"verify", "claim", "hash", "write", "issue"}

TypeOK ==
  /\ now \in Time
  /\ user \in User
  /\ req \in [Clients -> {Idle} \cup [kind : Kinds, at : Places, pw : Passwords,
                                      totp : BOOLEAN, n : 0 .. MaxTime]]
  /\ tokens \subseteq Token
  /\ spent \in [TotpSteps -> Nat]
  /\ held \in tokens \cup {NoToken}
  /\ poll \in [tok : tokens \cup {NoToken}, answer : {"none", "sent", "ok", "401"}]

Init ==
  /\ now = 1
  /\ user = [pw |-> 1, must |-> TRUE, after |-> 0, totp |-> FALSE, step |-> -1]
  /\ req = [c \in Clients |-> Idle]
  /\ tokens = {}
  /\ spent = [s \in TotpSteps |-> 0]
  /\ held = NoToken
  /\ poll = NoPoll

IsTokenRevoked(t) == t.iat < user.after

Accepted(t) == t # NoToken /\ ~ IsTokenRevoked(t)

-----------------------------------------------------------------------------
(* The server's handlers.                                                  *)

\* requireAuth: the row is read, and the token tested against that row.
RequireAuth(c) ==
  IF c = "browser" THEN Accepted(held) ELSE \E t \in tokens : Accepted(t)

RequirePasswordSet(c) == RequireAuth(c) /\ ~ user.must

\* The request goes on from the row as it is now (findUserByEmail, req.user).
Take(c, kind, place, n) ==
  /\ req[c] = Idle
  /\ req' = [req EXCEPT ![c] = [kind |-> kind, at |-> place, pw |-> user.pw,
                                totp |-> user.totp, n |-> n]]
  /\ UNCHANGED <<now, user, tokens, spent, held, poll>>

Goto(c, place) == req' = [req EXCEPT ![c].at = place]

\* An answer without a token: the request is over.
Refuse(c) == req' = [req EXCEPT ![c] = Idle]

\* The browser shows the login page only to who is signed out.
Login(c) ==
  /\ c = "browser" => held = NoToken
  /\ Take(c, "login", "verify", 0)

\* Bound: MaxPassword.
ChangePassword(c) ==
  /\ RequireAuth(c)
  /\ user.pw + Cardinality({d \in Clients : req[d].kind = "password"}) < MaxPassword
  /\ Take(c, "password", "verify", 0)

\* POST /totp/enable: the code is one of the new secret, valid when it is tested.
EnableTotp(c) ==
  /\ RequirePasswordSet(c)
  /\ Take(c, "enable", "claim", TotpStepFor(now))

DisableTotp(c) ==
  /\ RequirePasswordSet(c)
  /\ Take(c, "disable", "verify", 0)

\* The form of the login page has no field for a code.
HasCode(c) == c = "browser" => req[c].kind = "disable"

\* argon2 has compared the password with the hash of the row that was read;
\* authenticator.verify and totpStepFor run in the same turn.
VerifyPassword(c) ==
  LET r == req[c]
  IN /\ r.at = "verify"
     /\ \/ /\ r.kind = "password"
           /\ Goto(c, "hash")
        \/ /\ r.kind = "login" /\ ~ r.totp
           /\ Goto(c, "issue")
        \/ /\ r.kind \in {"login", "disable"} /\ r.totp
           /\ HasCode(c)
           /\ req' = [req EXCEPT ![c].at = "claim", ![c].n = TotpStepFor(now)]
     /\ UNCHANGED <<now, user, tokens, spent, held, poll>>

\* Mutant of Mistaken: every 401 ends the session, also that of a mistyped password
MistakenSignsOut(c) ==
  /\ req[c].at = "verify"
  /\ Refuse(c)
  /\ held' = IF c = "browser" THEN NoToken ELSE held
  /\ UNCHANGED <<now, user, tokens, spent, poll>>

\* A wrong password, a wrong or missing code, a code where none is expected.
Mistaken(c) ==
  /\ req[c].at = "verify"
  /\ Refuse(c)
  /\ UNCHANGED <<now, user, tokens, spent, held, poll>>

\* One conditional UPDATE; the row count says who won.
ClaimTotpStep(c) ==
  LET r == req[c]
  IN /\ r.at = "claim"
     /\ \/ /\ user.step < r.n
           /\ user' = [user EXCEPT !.step = r.n]
           /\ spent' = [spent EXCEPT ![r.n] = @ + 1]
           /\ Goto(c, IF r.kind = "login" THEN "issue" ELSE "write")
        \/ /\ user.step >= r.n
           /\ Refuse(c)
           /\ UNCHANGED <<user, spent>>
     /\ UNCHANGED <<now, tokens, held, poll>>

WriteTotp(c) ==
  /\ req[c].at = "write"
  /\ req[c].kind \in {"enable", "disable"}
  /\ user' = [user EXCEPT !.totp = (req[c].kind = "enable")]
  /\ Refuse(c)
  /\ UNCHANGED <<now, tokens, spent, held, poll>>

\* Mutant of HashPassword: the stamp is rounded up to the next second
HashWithLateStamp(c) ==
  /\ req[c].at = "hash"
  /\ req' = [req EXCEPT ![c].at = "write", ![c].n = now + 1]
  /\ UNCHANGED <<now, user, tokens, spent, held, poll>>

\* changePassword: the stamp is taken when the hash is ready.
HashPassword(c) ==
  /\ req[c].at = "hash"
  /\ req' = [req EXCEPT ![c].at = "write", ![c].n = now]
  /\ UNCHANGED <<now, user, tokens, spent, held, poll>>

Writing(c) == req[c].at = "write" /\ req[c].kind = "password"

\* Statements reach the one connection of the database in the order of their stamps.
WritePassword(c) ==
  /\ Writing(c)
  /\ \A d \in Clients : Writing(d) => req[c].n <= req[d].n
  /\ user' = [user EXCEPT !.pw = @ + 1, !.must = FALSE, !.after = req[c].n]
  /\ req' = [req EXCEPT ![c].at = "issue", ![c].pw = user.pw + 1]
  /\ UNCHANGED <<now, tokens, spent, held, poll>>

\* setIssuedAt() reads the clock after the last write has been awaited.  History:
\* raced, when a password change is being written or was written meanwhile.
IssueAccessToken(c) ==
  LET t == [iat |-> now, pw |-> req[c].pw,
            raced |-> req[c].pw # user.pw \/ \E d \in Clients : Writing(d)]
  IN /\ req[c].at = "issue"
     /\ Cardinality(tokens \cup {t}) <= MaxTokens
     /\ tokens' = tokens \cup {t}
     /\ held' = IF c = "browser" THEN t ELSE held
     /\ Refuse(c)
     /\ UNCHANGED <<now, user, spent, poll>>

\* The backend is restarted, which takes a second: what it was doing is lost, the
\* row and jwt.key are not.
Restart ==
  /\ now < MaxTime
  /\ now' = now + 1
  /\ req' = [c \in Clients |-> Idle]
  /\ poll' = IF poll.answer = "sent" THEN NoPoll ELSE poll
  /\ UNCHANGED <<user, tokens, spent, held>>

Tick ==
  /\ now < MaxTime
  /\ now' = now + 1
  /\ UNCHANGED <<user, req, tokens, spent, held, poll>>

-----------------------------------------------------------------------------
(* The browser's other requests.                                           *)

\* A query on an interval: api() reads the token when the request is sent.
SendPoll ==
  /\ poll = NoPoll
  /\ held # NoToken
  /\ poll' = [tok |-> held, answer |-> "sent"]
  /\ UNCHANGED <<now, user, req, tokens, spent, held>>

ServePoll ==
  /\ poll.answer = "sent"
  /\ poll' = [poll EXCEPT !.answer = IF IsTokenRevoked(poll.tok) THEN "401" ELSE "ok"]
  /\ UNCHANGED <<now, user, req, tokens, spent, held>>

\* 401 UNAUTHENTICATED drops whatever token is stored by now.
ReceivePoll ==
  /\ poll.answer \in {"ok", "401"}
  /\ held' = IF poll.answer = "401" THEN NoToken ELSE held
  /\ poll' = NoPoll
  /\ UNCHANGED <<now, user, req, tokens, spent>>

Logout ==
  /\ req["browser"] = Idle
  /\ held # NoToken
  /\ held' = NoToken
  /\ UNCHANGED <<now, user, req, tokens, spent, poll>>

Handle(c) ==
  \/ VerifyPassword(c)
  \/ ClaimTotpStep(c)
  \/ WriteTotp(c)
  \/ HashPassword(c)
  \/ WritePassword(c)
  \/ IssueAccessToken(c)

Ask(c) == Login(c) \/ ChangePassword(c) \/ EnableTotp(c) \/ DisableTotp(c)

Poll == SendPoll \/ ServePoll \/ ReceivePoll

Next ==
  \/ \E c \in Clients : Ask(c) \/ Handle(c) \/ Mistaken(c)
  \/ Poll
  \/ Logout
  \/ Restart
  \/ Tick

Spec == Init /\ [][Next]_vars

\* The browser's queries run on intervals and are answered; what a handler awaits comes.
FairSpec ==
  /\ Spec
  /\ WF_vars(Poll)
  /\ \A c \in Clients : WF_vars(Handle(c))

-----------------------------------------------------------------------------
(* Properties.                                                             *)

\* A password change signs everybody else out and its own session in: a token
\* obtained with the current password is accepted, and one obtained with an
\* earlier password is not, unless it was issued within the second of the change
\* (isTokenRevoked says so) or by a request that the change overtook.
TokensFollowPassword ==
  \A t \in tokens :
    /\ t.pw = user.pw => Accepted(t)
    /\ t.pw # user.pw /\ Accepted(t) => t.raced \/ t.iat = user.after

\* A TOTP step is accepted once, at the login, at enabling and at disabling
\* together, whatever requests carry its code at the same time (claimTotpStep).
OncePerStep == \A s \in TotpSteps : spent[s] <= 1

\* A browser whose token has been revoked: it notices and drops the token (~> in
\* MCBrowser), and does not go on showing what it can no longer refresh (api(), client.ts).
DeadSession == held # NoToken /\ ~ Accepted(held)

\* A browser gives up a token that is accepted only when its user signs out, or on
\* a late answer to a request that still carried the token it replaced.
LiveSessionKept ==
  [][held' = NoToken /\ Accepted(held) => Logout \/ poll.tok # held]_vars

=============================================================================
