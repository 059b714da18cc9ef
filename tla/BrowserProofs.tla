--------------------------- MODULE BrowserProofs ---------------------------
(***************************************************************************)
(* Proofs about MCBrowser: the account and its sessions, the way into the  *)
(* panel, the event stream, the claim of a playit account and the chat     *)
(* with the assistant, for a clock, passwords, tokens, forms, streams,     *)
(* codes and messages of any bound.                                        *)
(***************************************************************************)
EXTENDS MCBrowser, FiniteSetTheorems, TLAPS

-----------------------------------------------------------------------------
(* Sessions: types *)

\* A request under way
Request == [kind : Kinds, at : Places, pw : Passwords, totp : BOOLEAN, n : 0 .. MaxTime]

\* The code that is claimed is one of a step, the stamp that is written a second.
Fits(c) ==
  /\ req[c].at = "claim" => req[c].n \in TotpSteps /\ req[c].kind # "password"
  /\ Writing(c) => req[c].n \in Time

\* Every password change under way has a number left for its password.
Changing(c) == req[c].kind = "password" /\ req[c].at # "issue"
PasswordsFit ==
  \A c \in Clients : Changing(c) =>
    /\ user.pw + 1 \in Passwords
    /\ \A d \in Clients \ {c} : Changing(d) => user.pw + 2 \in Passwords

SessionTypes == TypeOK /\ (\A c \in Clients : Fits(c)) /\ PasswordsFit

\* A step of the TOTP clock, and the whole of it, are numbers that the clock bounds.
LEMMA DivBounds ==
  ASSUME NEW t \in Nat, NEW s \in Nat \ {0}
  PROVE  t \div s \in Nat /\ s * (t \div s) <= t /\ t < s * (t \div s) + s
OBVIOUS

LEMMA DivMonotone ==
  ASSUME NEW t \in Nat, NEW u \in Nat, t <= u, NEW s \in Nat \ {0}
  PROVE  t \div s <= u \div s /\ t \div s <= t
<1>. DEFINE p == t \div s
            q == u \div s
<1>1. p \in Nat /\ q \in Nat /\ s * p <= t /\ u < s * q + s
  BY DivBounds
<1>. HIDE DEF p, q
<1>2. s * p < s * (q + 1)
  BY <1>1
<1>3. p < q + 1
  BY <1>1, <1>2
<1>4. p <= s * p
  BY <1>1
<1>. QED  BY <1>1, <1>3, <1>4 DEF p, q

LEMMA StepsFit == \A t \in Time : TotpStepFor(t) \in TotpSteps /\ TotpStepFor(t) \in 0 .. MaxTime
<1>. SUFFICES ASSUME NEW t \in Time PROVE TotpStepFor(t) \in TotpSteps /\ TotpStepFor(t) \in 0 .. MaxTime
  OBVIOUS
<1>1. t \in Nat /\ t <= MaxTime /\ MaxTime \in Nat /\ StepSeconds \in Nat \ {0}
  BY SessionsAssumption DEF Time
<1>2. t \div StepSeconds \in Nat /\ MaxTime \div StepSeconds \in Nat
  BY <1>1, DivBounds
<1>3. t \div StepSeconds <= MaxTime \div StepSeconds /\ t \div StepSeconds <= t
  BY <1>1, DivMonotone
<1>. QED  BY <1>1, <1>2, <1>3 DEF TotpStepFor, TotpSteps

LEMMA StepsAreNumbers == TotpSteps \subseteq Nat
BY DEF TotpSteps

\* Who is not idle has a request.
LEMMA IsRequest == ASSUME TypeOK, NEW c \in Clients, req[c].at # "idle" PROVE req[c] \in Request
BY DEF TypeOK, Idle, Request

LEMMA InitSessionTypes == Init => SessionTypes
BY SessionsAssumption
DEF Init, SessionTypes, TypeOK, Time, User, Passwords, Idle, Token, NoToken, NoPoll, Fits, PasswordsFit,
    Changing,
    Writing, Clients

LEMMA TakeTypes ==
  ASSUME SessionTypes, NEW c \in Clients, NEW kind \in Kinds, NEW place \in {"verify", "claim"}, NEW n \in 0 .. MaxTime,
         place = "claim" => n \in TotpSteps /\ kind # "password",
         kind = "password" => user.pw + Cardinality({d \in Clients : req[d].kind = "password"}) < MaxPassword,
         Take(c, kind, place, n)
  PROVE  SessionTypes'
<1>. DEFINE r == [kind |-> kind, at |-> place, pw |-> user.pw, totp |-> user.totp, n |-> n]
<1>1. r \in Request
  BY DEF SessionTypes, TypeOK, User, Request, Places
<1>2. req' = [req EXCEPT ![c] = r] /\ UNCHANGED <<now, user, tokens, spent, held, poll>>
  BY DEF Take
<1>3. r.at = place /\ r.n = n /\ r.kind = kind
  OBVIOUS
<1>. HIDE DEF r
<1>4. TypeOK'
  BY <1>1, <1>2 DEF SessionTypes, TypeOK, Request
<1>5. \A d \in Clients : Fits(d)'
  BY <1>2, <1>3 DEF SessionTypes, TypeOK, Fits, Writing
<1>6. PasswordsFit'
  <2>1. CASE kind # "password"
    BY <2>1, <1>2, <1>3 DEF SessionTypes, TypeOK, PasswordsFit, Changing
  <2>2. CASE kind = "password"
    <3>. DEFINE P == {d \in Clients : req[d].kind = "password"}
    <3>1. IsFiniteSet(P) /\ Cardinality(P) \in Nat
      <4>1. IsFiniteSet(Clients)
        <5>1. IsFiniteSet({"browser"})
          BY FS_Singleton
        <5>2. Clients = {"browser"} \cup {"other"}
          BY DEF Clients
        <5>. QED  BY <5>1, <5>2, FS_AddElement
      <4>2. P \subseteq Clients
        OBVIOUS
      <4>. QED  BY <4>1, <4>2, FS_Subset, FS_CardinalityType
    <3>2. user.pw \in Nat \ {0} /\ user.pw < MaxPassword /\ MaxPassword \in Nat
      BY <2>2, <3>1, SessionsAssumption DEF SessionTypes, TypeOK, User, Passwords
    <3>3. ASSUME NEW d \in Clients \ {c}, Changing(d) PROVE user.pw + 2 \in Passwords
      <4>1. d \in P
        BY <3>3 DEF Changing
      <4>2. Cardinality(P) # 0
        BY <3>1, <4>1, FS_EmptySet
      <4>3. user.pw + Cardinality(P) < MaxPassword
        BY <2>2
      <4>. HIDE DEF P
      <4>. QED  BY <3>1, <3>2, <4>2, <4>3 DEF Passwords
    <3>4. user.pw + 1 \in Passwords
      BY <3>2 DEF Passwords
    <3>5. \A d \in Clients \ {c} : req'[d] = req[d]
      BY <1>2 DEF SessionTypes, TypeOK
    <3>6. UNCHANGED user
      BY <1>2
    <3>. QED  BY <3>3, <3>4, <3>5, <3>6 DEF PasswordsFit, Changing, SessionTypes, Clients
  <2>. QED  BY <2>1, <2>2
<1>. QED  BY <1>4, <1>5, <1>6 DEF SessionTypes

\* A request that goes on, or ends, without touching the account
LEMMA GoesOn ==
  ASSUME SessionTypes, NEW c \in Clients, NEW r \in Request \cup {Idle}, req' = [req EXCEPT ![c] = r],
         r.kind \in {req[c].kind, "none"}, r.at = "issue" \/ req[c].at # "issue",
         r.at = "claim" => r.n \in TotpSteps /\ r.kind # "password",
         r.at = "write" /\ r.kind = "password" => r.n \in Time,
         UNCHANGED <<now, user, tokens, spent, poll>>, held' = held
  PROVE  SessionTypes'
<1>1. TypeOK'
  BY DEF SessionTypes, TypeOK, Request
<1>2. \A d \in Clients : Fits(d)'
  BY DEF SessionTypes, TypeOK, Fits, Writing
<1>3. PasswordsFit'
  BY DEF SessionTypes, TypeOK, PasswordsFit, Changing
<1>. QED  BY <1>1, <1>2, <1>3 DEF SessionTypes

LEMMA VerifyTypes == ASSUME SessionTypes, NEW c \in Clients, VerifyPassword(c) \/ Mistaken(c) PROVE SessionTypes'
<1>1. req[c].at = "verify"
  BY DEF VerifyPassword, Mistaken
<1>2. req[c] \in Request
  BY <1>1, IsRequest DEF SessionTypes
<1>3. CASE VerifyPassword(c)
  <2>1. \A place \in {"hash", "issue"} : [req[c] EXCEPT !.at = place] \in Request
    BY <1>2 DEF Request, Places
  <2>2. [req[c] EXCEPT !.at = "claim", !.n = TotpStepFor(now)] \in Request
    BY <1>2, StepsFit DEF Request, Places, SessionTypes, TypeOK
  <2>3. TotpStepFor(now) \in TotpSteps
    BY StepsFit DEF SessionTypes, TypeOK
  <2>4. PICK r \in Request : /\ req' = [req EXCEPT ![c] = r] /\ r.kind = req[c].kind
                             /\ r.at \in {"hash", "issue", "claim"}
                             /\ r.at = "claim" => r.n \in TotpSteps /\ r.kind # "password"
    <3>1. CASE req' = [req EXCEPT ![c].at = "hash"] \/ req' = [req EXCEPT ![c].at = "issue"]
      BY <3>1, <2>1, <1>2 DEF Request
    <3>2. CASE /\ req' = [req EXCEPT ![c].at = "claim", ![c].n = TotpStepFor(now)]
               /\ req[c].kind \in {"login", "disable"}
      <4>. DEFINE r == [req[c] EXCEPT !.at = "claim", !.n = TotpStepFor(now)]
      <4>1. r \in Request /\ r.kind = req[c].kind /\ r.at = "claim" /\ r.n = TotpStepFor(now)
        BY <2>2, <1>2 DEF Request
      <4>2. req' = [req EXCEPT ![c] = r]
        BY <3>2
      <4>. HIDE DEF r
      <4>. QED  BY <3>2, <4>1, <4>2, <2>3
    <3>. QED  BY <1>3, <3>1, <3>2 DEF VerifyPassword, Goto
  <2>. QED  BY <1>1, <1>3, <2>4, GoesOn DEF VerifyPassword
<1>4. CASE Mistaken(c)
  <2>1. Idle \in Request \cup {Idle} /\ Idle.kind = "none" /\ Idle.at = "idle"
    BY DEF Idle
  <2>. QED  BY <1>1, <1>4, <2>1, GoesOn DEF Mistaken, Refuse
<1>. QED  BY <1>3, <1>4

LEMMA HashTypes == ASSUME SessionTypes, NEW c \in Clients, HashPassword(c) PROVE SessionTypes'
<1>1. req[c].at = "hash" /\ now \in Time
  BY DEF HashPassword, SessionTypes, TypeOK
<1>2. req[c] \in Request
  BY <1>1, IsRequest DEF SessionTypes
<1>. DEFINE r == [req[c] EXCEPT !.at = "write", !.n = now]
<1>3. r \in Request /\ r.kind = req[c].kind /\ r.at = "write" /\ r.n = now
  <2>1. now \in 0 .. MaxTime
    BY <1>1, SessionsAssumption DEF Time
  <2>. QED  BY <1>2, <2>1 DEF Request, Places
<1>4. req' = [req EXCEPT ![c] = r]
  BY DEF HashPassword
<1>. HIDE DEF r
<1>. QED  BY <1>1, <1>3, <1>4, GoesOn DEF HashPassword

LEMMA ClaimTypes == ASSUME SessionTypes, NEW c \in Clients, ClaimTotpStep(c) PROVE SessionTypes'
<1>1. req[c].at = "claim" /\ req[c].n \in TotpSteps /\ req[c].kind # "password"
  BY DEF ClaimTotpStep, SessionTypes, Fits
<1>2. req[c] \in Request
  BY <1>1, IsRequest DEF SessionTypes
<1>3. PICK r \in Request \cup {Idle} : /\ req' = [req EXCEPT ![c] = r] /\ r.kind # "password"
                                       /\ r.at \in {"issue", "write", "idle"}
  <2>1. CASE Refuse(c)
    <3>1. Idle.kind = "none" /\ Idle.at = "idle"
      BY DEF Idle
    <3>. QED  BY <2>1, <3>1 DEF Refuse
  <2>2. ASSUME NEW place \in {"issue", "write"}, Goto(c, place)
        PROVE  \E r \in Request \cup {Idle} : /\ req' = [req EXCEPT ![c] = r] /\ r.kind # "password"
                                              /\ r.at \in {"issue", "write", "idle"}
    <3>. DEFINE r == [req[c] EXCEPT !.at = place]
    <3>1. r \in Request /\ r.kind = req[c].kind /\ r.at = place
      BY <1>2 DEF Request, Places
    <3>2. req' = [req EXCEPT ![c] = r]
      BY <2>2 DEF Goto
    <3>. HIDE DEF r
    <3>. QED  BY <3>1, <3>2, <1>1
  <2>. QED  BY <2>1, <2>2 DEF ClaimTotpStep
<1>4. user' \in User /\ user'.pw = user.pw /\ spent' \in [TotpSteps -> Nat]
  BY <1>1 DEF ClaimTotpStep, SessionTypes, TypeOK, User
<1>5. UNCHANGED <<now, tokens, held, poll>>
  BY DEF ClaimTotpStep
<1>6. TypeOK'
  BY <1>3, <1>4, <1>5 DEF SessionTypes, TypeOK, Request
<1>7. \A d \in Clients : Fits(d)'
  BY <1>3 DEF SessionTypes, TypeOK, Fits, Writing
<1>8. PasswordsFit'
  BY <1>3, <1>4 DEF SessionTypes, TypeOK, PasswordsFit, Changing
<1>. QED  BY <1>6, <1>7, <1>8 DEF SessionTypes

LEMMA PollTypes == ASSUME SessionTypes, Poll \/ Logout PROVE SessionTypes'
<1>1. UNCHANGED <<now, user, req, tokens, spent>>
  BY DEF Poll, SendPoll, ServePoll, ReceivePoll, Logout
<1>2. held' \in tokens \cup {NoToken}
  BY DEF Poll, SendPoll, ServePoll, ReceivePoll, Logout, SessionTypes, TypeOK
<1>3. poll' \in [tok : tokens \cup {NoToken}, answer : {"none", "sent", "ok", "401"}]
  BY DEF Poll, SendPoll, ServePoll, ReceivePoll, Logout, SessionTypes, TypeOK, NoPoll
<1>4. TypeOK'
  BY <1>1, <1>2, <1>3 DEF SessionTypes, TypeOK
<1>. QED  BY <1>1, <1>4 DEF SessionTypes, Fits, Writing, PasswordsFit, Changing

LEMMA IssueTypes == ASSUME SessionTypes, NEW c \in Clients, IssueAccessToken(c) PROVE SessionTypes'
<1>1. req[c].at = "issue"
  BY DEF IssueAccessToken
<1>2. req[c] \in Request
  BY <1>1, IsRequest DEF SessionTypes
<1>3. PICK raced \in BOOLEAN :
        LET t == [iat |-> now, pw |-> req[c].pw, raced |-> raced]
        IN tokens' = tokens \cup {t} /\ held' \in {t, held}
  BY DEF IssueAccessToken
<1>. DEFINE t == [iat |-> now, pw |-> req[c].pw, raced |-> raced]
<1>4. t \in Token
  BY <1>2 DEF Token, Request, SessionTypes, TypeOK
<1>5. tokens' = tokens \cup {t} /\ held' \in {t, held}
  BY <1>3
<1>. HIDE DEF t
<1>6. req' = [req EXCEPT ![c] = Idle] /\ UNCHANGED <<now, user, spent, poll>>
  BY DEF IssueAccessToken, Refuse
<1>7. TypeOK'
  BY <1>4, <1>5, <1>6 DEF SessionTypes, TypeOK
<1>8. \A d \in Clients : Fits(d)'
  BY <1>6 DEF SessionTypes, TypeOK, Fits, Writing, Idle
<1>9. PasswordsFit'
  BY <1>6 DEF SessionTypes, TypeOK, PasswordsFit, Changing, Idle
<1>. QED  BY <1>7, <1>8, <1>9 DEF SessionTypes

LEMMA WriteTotpTypes == ASSUME SessionTypes, NEW c \in Clients, WriteTotp(c) PROVE SessionTypes'
<1>1. req' = [req EXCEPT ![c] = Idle] /\ UNCHANGED <<now, tokens, spent, held, poll>>
  BY DEF WriteTotp, Refuse
<1>2. PICK on \in BOOLEAN : user' = [user EXCEPT !.totp = on]
  BY DEF WriteTotp
<1>3. user' \in User /\ user'.pw = user.pw
  BY <1>2 DEF SessionTypes, TypeOK, User
<1>4. TypeOK'
  BY <1>1, <1>3 DEF SessionTypes, TypeOK
<1>5. \A d \in Clients : Fits(d)'
  BY <1>1 DEF SessionTypes, TypeOK, Fits, Writing, Idle
<1>6. PasswordsFit'
  BY <1>1, <1>3 DEF SessionTypes, TypeOK, PasswordsFit, Changing, Idle
<1>. QED  BY <1>4, <1>5, <1>6 DEF SessionTypes

LEMMA WritePasswordTypes == ASSUME SessionTypes, NEW c \in Clients, WritePassword(c) PROVE SessionTypes'
<1>1. Writing(c) /\ Changing(c) /\ req[c].n \in Time
  BY DEF WritePassword, Writing, Changing, SessionTypes, Fits
<1>2. req[c] \in Request
  BY <1>1, IsRequest DEF SessionTypes, Writing
<1>3. user.pw + 1 \in Passwords
  BY <1>1 DEF SessionTypes, PasswordsFit
<1>4. user' \in User /\ user'.pw = user.pw + 1
  BY <1>1, <1>3 DEF WritePassword, SessionTypes, TypeOK, User
<1>. DEFINE r == [req[c] EXCEPT !.at = "issue", !.pw = user.pw + 1]
<1>5. r \in Request /\ r.at = "issue"
  BY <1>2, <1>3 DEF Request, Places
<1>6. req' = [req EXCEPT ![c] = r] /\ UNCHANGED <<now, tokens, spent, held, poll>>
  BY DEF WritePassword
<1>. HIDE DEF r
<1>7. TypeOK'
  BY <1>4, <1>5, <1>6 DEF SessionTypes, TypeOK, Request
<1>8. \A d \in Clients : Fits(d)'
  BY <1>5, <1>6 DEF SessionTypes, TypeOK, Fits, Writing
<1>9. PasswordsFit'
  <2>1. ASSUME NEW d \in Clients, Changing(d)' PROVE d # c /\ Changing(d) /\ user.pw + 2 \in Passwords
    BY <1>1, <1>5, <1>6, <2>1 DEF SessionTypes, TypeOK, PasswordsFit, Changing
  <2>2. \A d, e \in Clients : d # c /\ e # c => d = e
    BY DEF Clients
  <2>3. user.pw \in Nat
    BY SessionsAssumption DEF SessionTypes, TypeOK, User, Passwords
  <2>. QED  BY <1>4, <2>1, <2>2, <2>3 DEF PasswordsFit
<1>. QED  BY <1>7, <1>8, <1>9 DEF SessionTypes

LEMMA ClockTypes == ASSUME SessionTypes, Restart \/ Tick PROVE SessionTypes'
<1>1. now' \in Time /\ UNCHANGED <<user, tokens, spent, held>>
  BY SessionsAssumption DEF Restart, Tick, Time, SessionTypes, TypeOK
<1>2. CASE Tick
  <2>1. UNCHANGED <<req, poll>>
    BY <1>2 DEF Tick
  <2>. QED  BY <1>1, <2>1 DEF SessionTypes, TypeOK, Fits, Writing, PasswordsFit, Changing
<1>3. CASE Restart
  <2>1. req' = [c \in Clients |-> Idle] /\ poll' \in {NoPoll, poll}
    BY <1>3 DEF Restart
  <2>2. \A c \in Clients : req'[c] = Idle /\ req'[c].kind = "none" /\ req'[c].at = "idle"
    BY <2>1 DEF Idle
  <2>3. TypeOK'
    BY <1>1, <2>1 DEF SessionTypes, TypeOK, NoPoll
  <2>. QED  BY <2>2, <2>3 DEF SessionTypes, Fits, Writing, PasswordsFit, Changing
<1>. QED  BY <1>2, <1>3

LEMMA NextSessionTypes == SessionTypes /\ [Next]_vars => SessionTypes'
<1>. SUFFICES ASSUME SessionTypes, [Next]_vars PROVE SessionTypes'
  OBVIOUS
<1>0. 0 \in 0 .. MaxTime /\ TotpStepFor(now) \in TotpSteps /\ TotpStepFor(now) \in 0 .. MaxTime
  BY StepsFit, SessionsAssumption DEF SessionTypes, TypeOK
<1>1. ASSUME NEW c \in Clients, Ask(c) PROVE SessionTypes'
  <2>1. CASE Login(c)
    BY <2>1, <1>0, TakeTypes DEF Login, Kinds
  <2>2. CASE ChangePassword(c)
    BY <2>2, <1>0, TakeTypes DEF ChangePassword, Kinds
  <2>3. CASE EnableTotp(c)
    BY <2>3, <1>0, TakeTypes DEF EnableTotp, Kinds
  <2>4. CASE DisableTotp(c)
    BY <2>4, <1>0, TakeTypes DEF DisableTotp, Kinds
  <2>. QED  BY <1>1, <2>1, <2>2, <2>3, <2>4 DEF Ask
<1>2. ASSUME NEW c \in Clients, Handle(c) \/ Mistaken(c) PROVE SessionTypes'
  BY <1>2, VerifyTypes, ClaimTypes, WriteTotpTypes, HashTypes, WritePasswordTypes, IssueTypes DEF Handle
<1>3. CASE UNCHANGED vars
  BY <1>3 DEF vars, SessionTypes, TypeOK, Fits, Writing, PasswordsFit, Changing
<1>. QED  BY <1>1, <1>2, <1>3, PollTypes, ClockTypes DEF Next

-----------------------------------------------------------------------------
(* Sessions: the codes *)

\* The row's step is the last that was accepted: nothing above it has been spent.
RowIsLast == \A s \in TotpSteps : s > user.step => spent[s] = 0

LEMMA CodesKept == SessionTypes /\ RowIsLast /\ OncePerStep /\ [Next]_vars => RowIsLast' /\ OncePerStep'
<1>. SUFFICES ASSUME SessionTypes, RowIsLast, OncePerStep, [Next]_vars PROVE RowIsLast' /\ OncePerStep'
  OBVIOUS
<1>0. user.step \in Int /\ spent \in [TotpSteps -> Nat]
  <2>1. user.step = -1 \/ user.step \in TotpSteps
    BY DEF SessionTypes, TypeOK, User
  <2>2. user.step \in Int
    BY <2>1 DEF TotpSteps
  <2>. QED  BY <2>2 DEF SessionTypes, TypeOK
<1>1. ASSUME NEW c \in Clients, NEW n \in TotpSteps,
             user.step < n, user' = [user EXCEPT !.step = n], spent' = [spent EXCEPT ![n] = @ + 1]
      PROVE  RowIsLast' /\ OncePerStep'
  <2>1. user'.step = n /\ n \in Int
    BY <1>1, StepsAreNumbers DEF SessionTypes, TypeOK, User
  <2>2. ASSUME NEW s \in TotpSteps PROVE (s > user'.step => spent'[s] = 0) /\ spent'[s] <= 1
    <3>1. s \in Int /\ spent[s] \in Nat /\ (s > user.step => spent[s] = 0) /\ spent[s] <= 1
      BY <1>0, StepsAreNumbers DEF RowIsLast, OncePerStep
    <3>2. spent'[s] = IF s = n THEN spent[s] + 1 ELSE spent[s]
      BY <1>0, <1>1
    <3>. QED  BY <1>0, <1>1, <2>1, <3>1, <3>2
  <2>. QED  BY <2>2 DEF RowIsLast, OncePerStep
<1>2. CASE UNCHANGED <<spent, user.step>>
  BY <1>2 DEF RowIsLast, OncePerStep
<1>3. ASSUME NEW c \in Clients, ClaimTotpStep(c) PROVE RowIsLast' /\ OncePerStep'
  <2>1. req[c].n \in TotpSteps
    BY <1>3 DEF ClaimTotpStep, SessionTypes, Fits
  <2>. QED  BY <1>1, <1>2, <1>3, <2>1 DEF ClaimTotpStep
<1>4. ASSUME NEW c \in Clients, WriteTotp(c) \/ WritePassword(c) PROVE UNCHANGED <<spent, user.step>>
  BY <1>4 DEF WriteTotp, WritePassword, SessionTypes, TypeOK, User
<1>. QED
  BY <1>2, <1>3, <1>4
  DEF Next, Ask, Handle, Login, ChangePassword, EnableTotp, DisableTotp, Take, VerifyPassword, HashPassword,
      IssueAccessToken, Mistaken, Poll, SendPoll, ServePoll, ReceivePoll, Logout, Restart, Tick, vars

-----------------------------------------------------------------------------
(* Sessions: the tokens *)

\* Stamps come from the clock, and reach the row in their order.
Stamps ==
  /\ user.after <= now
  /\ \A c \in Clients : Writing(c) => user.after <= req[c].n /\ req[c].n <= now

\* No token or request is ahead of the account.
NotAhead ==
  /\ \A t \in tokens : t.pw <= user.pw /\ t.iat <= now
  /\ \A c \in Clients : req[c].at # "idle" => req[c].pw <= user.pw

\* A token that is younger than the stamp being written is known to be one of the exceptions.
OvertakenKnown == \A c \in Clients, t \in tokens : Writing(c) /\ t.iat > req[c].n => t.raced

TokensInv == Stamps /\ NotAhead /\ OvertakenKnown /\ TokensFollowPassword

\* The fields that are compared are numbers.
LEMMA Numbers ==
  ASSUME SessionTypes
  PROVE  /\ now \in Nat \ {0} /\ user.pw \in Nat /\ user.after \in Nat
         /\ \A t \in tokens : t.iat \in Nat \ {0} /\ t.pw \in Nat
         /\ \A c \in Clients : req[c].pw \in Nat /\ req[c].n \in Nat
BY SessionsAssumption DEF SessionTypes, TypeOK, User, Token, Time, Passwords, Idle

LEMMA TokensUnrelated ==
  ASSUME SessionTypes, TokensInv, SessionTypes',
         user'.pw = user.pw, user'.after = user.after, tokens' = tokens, now' >= now,
         \A d \in Clients : Writing(d)' => Writing(d) /\ req'[d].n = req[d].n,
         \A d \in Clients : req'[d].at # "idle" => req'[d].pw <= user.pw
  PROVE  TokensInv'
<1>0. now \in Nat /\ now' \in Nat /\ user.after \in Nat
  BY Numbers, SessionsAssumption DEF SessionTypes, TypeOK, Time
<1>1. Stamps'
  BY <1>0, Numbers DEF TokensInv, Stamps
<1>2. NotAhead'
  BY <1>0, Numbers DEF TokensInv, NotAhead
<1>3. OvertakenKnown'
  BY DEF TokensInv, OvertakenKnown
<1>4. TokensFollowPassword'
  BY DEF TokensInv, TokensFollowPassword, Accepted, IsTokenRevoked
<1>. QED  BY <1>1, <1>2, <1>3, <1>4 DEF TokensInv

LEMMA HashKeepsTokens == ASSUME SessionTypes, TokensInv, NEW c \in Clients, HashPassword(c) PROVE TokensInv'
<1>0. req \in [Clients -> Request \cup {Idle}]
  BY DEF SessionTypes, TypeOK, Request
<1>1. req[c] \in Request
  BY IsRequest DEF HashPassword, SessionTypes
<1>2. req'[c].n = now /\ req'[c].pw = req[c].pw /\ (\A d \in Clients \ {c} : req'[d] = req[d])
  BY <1>0, <1>1 DEF HashPassword, Request
<1>3. UNCHANGED <<now, user, tokens>> /\ req[c].at # "idle"
  BY DEF HashPassword
<1>4. Stamps'
  BY <1>2, <1>3, Numbers DEF TokensInv, Stamps, Writing
<1>5. NotAhead'
  BY <1>2, <1>3 DEF TokensInv, NotAhead
<1>6. OvertakenKnown'
  <2>1. ASSUME NEW d \in Clients, NEW t \in tokens, Writing(d)', t.iat > req'[d].n PROVE t.raced
    <3>1. CASE d = c
      BY <1>2, <2>1, <3>1, Numbers DEF TokensInv, NotAhead
    <3>2. CASE d # c
      BY <1>2, <2>1, <3>2 DEF TokensInv, OvertakenKnown, Writing
    <3>. QED  BY <3>1, <3>2
  <2>. QED  BY <1>3, <2>1 DEF OvertakenKnown
<1>7. TokensFollowPassword'
  BY <1>3 DEF TokensInv, TokensFollowPassword, Accepted, IsTokenRevoked
<1>. QED  BY <1>4, <1>5, <1>6, <1>7 DEF TokensInv

LEMMA WriteKeepsTokens == ASSUME SessionTypes, TokensInv, NEW c \in Clients, WritePassword(c) PROVE TokensInv'
<1>. DEFINE n == req[c].n
<1>0. Writing(c) /\ UNCHANGED <<now, tokens>> /\ n \in Nat
  BY Numbers DEF WritePassword
<1>1. req[c] \in Request
  BY IsRequest DEF WritePassword, Writing, SessionTypes
<1>2. user'.pw = user.pw + 1 /\ user'.after = n
  BY DEF WritePassword, SessionTypes, TypeOK, User
<1>3. req'[c].at = "issue" /\ req'[c].pw = user.pw + 1 /\ (\A d \in Clients \ {c} : req'[d] = req[d])
  BY <1>1 DEF WritePassword, SessionTypes, TypeOK, Request
<1>4. user.after <= n /\ n <= now /\ (\A d \in Clients : Writing(d) => n <= req[d].n)
  BY <1>0 DEF TokensInv, Stamps, WritePassword
<1>5. \A d \in Clients : Writing(d)' => d # c /\ Writing(d) /\ req'[d].n = req[d].n
  BY <1>3 DEF Writing
<1>. HIDE DEF n
<1>6. Stamps'
  BY <1>0, <1>2, <1>4, <1>5 DEF TokensInv, Stamps
<1>7. NotAhead'
  <2>1. \A t \in tokens : t.pw <= user.pw + 1 /\ t.iat <= now
    BY Numbers DEF TokensInv, NotAhead
  <2>2. \A d \in Clients : req'[d].at # "idle" => req'[d].pw <= user.pw + 1
    BY <1>3, Numbers DEF TokensInv, NotAhead
  <2>. QED  BY <1>0, <1>2, <2>1, <2>2 DEF NotAhead
<1>8. OvertakenKnown'
  BY <1>0, <1>5 DEF TokensInv, OvertakenKnown
<1>9. TokensFollowPassword'
  <2>1. ASSUME NEW t \in tokens PROVE t.pw # user.pw + 1 /\ (t.iat >= n => t.raced \/ t.iat = n)
    <3>1. t.pw <= user.pw /\ t.pw \in Nat /\ t.iat \in Nat /\ user.pw \in Nat
      BY Numbers DEF TokensInv, NotAhead
    <3>2. t.iat > n => t.raced
      BY <1>0 DEF TokensInv, OvertakenKnown, n
    <3>. QED  BY <1>0, <3>1, <3>2
  <2>2. ASSUME NEW t \in tokens, Accepted(t)' PROVE t.iat >= n
    BY <1>0, <1>2, <2>2, Numbers DEF Accepted, IsTokenRevoked
  <2>. QED  BY <1>0, <1>2, <2>1, <2>2 DEF TokensFollowPassword
<1>. QED  BY <1>6, <1>7, <1>8, <1>9 DEF TokensInv

LEMMA IssueKeepsTokens == ASSUME SessionTypes, TokensInv, NEW c \in Clients, IssueAccessToken(c) PROVE TokensInv'
<1>. DEFINE late == req[c].pw # user.pw \/ \E d \in Clients : Writing(d)
            t == [iat |-> now, pw |-> req[c].pw, raced |-> late]
<1>1. req[c].at = "issue" /\ tokens' = tokens \cup {t} /\ UNCHANGED <<now, user>>
  BY DEF IssueAccessToken
<1>2. req' = [req EXCEPT ![c] = Idle] /\ Idle.at = "idle"
  BY DEF IssueAccessToken, Refuse, Idle
<1>3. \A d \in Clients : req'[d].at # "idle" => d # c /\ req'[d] = req[d]
  BY <1>2 DEF SessionTypes, TypeOK
<1>4. \A d \in Clients : Writing(d)' => Writing(d) /\ req'[d] = req[d]
  BY <1>3 DEF Writing
<1>5. t.iat = now /\ t.pw = req[c].pw /\ (t.raced <=> late) /\ req[c].pw <= user.pw
  BY <1>1 DEF TokensInv, NotAhead
<1>. HIDE DEF t, late
<1>6. Stamps'
  BY <1>1, <1>4 DEF TokensInv, Stamps
<1>7. NotAhead'
  BY <1>1, <1>3, <1>5, Numbers DEF TokensInv, NotAhead
<1>8. OvertakenKnown'
  BY <1>1, <1>4, <1>5 DEF TokensInv, OvertakenKnown, late
<1>9. t # NoToken /\ ~(t.iat < user.after)
  BY <1>5, Numbers DEF NoToken, TokensInv, Stamps
<1>10. TokensFollowPassword'
  BY <1>1, <1>5, <1>9 DEF TokensInv, TokensFollowPassword, Accepted, IsTokenRevoked, late
<1>. QED  BY <1>6, <1>7, <1>8, <1>10 DEF TokensInv

LEMMA TokensKept == SessionTypes /\ TokensInv /\ SessionTypes' /\ [Next]_vars => TokensInv'
<1>. SUFFICES ASSUME SessionTypes, TokensInv, SessionTypes', [Next]_vars PROVE TokensInv'
  OBVIOUS
<1>0. now \in Nat /\ now' \in Nat /\ user.pw \in Nat
  BY Numbers, SessionsAssumption DEF SessionTypes, TypeOK, Time
<1>1. ASSUME NEW c \in Clients, NEW kind, NEW place, NEW n, place # "write", Take(c, kind, place, n)
      PROVE  TokensInv'
  <2>. DEFINE r == [kind |-> kind, at |-> place, pw |-> user.pw, totp |-> user.totp, n |-> n]
  <2>1. req' = [req EXCEPT ![c] = r] /\ r.at = place /\ r.pw = user.pw
    BY <1>1 DEF Take
  <2>. HIDE DEF r
  <2>2. \A d \in Clients : Writing(d)' => Writing(d) /\ req'[d].n = req[d].n
    BY <1>1, <2>1 DEF Writing, SessionTypes, TypeOK
  <2>3. \A d \in Clients : req'[d].at # "idle" => req'[d].pw <= user.pw
    BY <1>0, <2>1 DEF SessionTypes, TypeOK, TokensInv, NotAhead
  <2>. QED  BY <1>0, <1>1, <2>2, <2>3, TokensUnrelated DEF Take
<1>2. ASSUME NEW c \in Clients, NEW r \in Request \cup {Idle}, req' = [req EXCEPT ![c] = r],
             req[c].at # "idle", r.at # "idle" => r.pw = req[c].pw, ~(r.at = "write" /\ r.kind = "password"),
             UNCHANGED <<now, tokens, user.pw, user.after>>
      PROVE  TokensInv'
  <2>2. \A d \in Clients : Writing(d)' => Writing(d) /\ req'[d].n = req[d].n
    BY <1>2 DEF Writing, SessionTypes, TypeOK
  <2>3. \A d \in Clients : req'[d].at # "idle" => req'[d].pw <= user.pw
    BY <1>0, <1>2 DEF SessionTypes, TypeOK, TokensInv, NotAhead
  <2>. QED  BY <1>0, <1>2, <2>2, <2>3, TokensUnrelated
<1>3. ASSUME NEW c \in Clients, Ask(c) PROVE TokensInv'
  BY <1>1, <1>3 DEF Ask, Login, ChangePassword, EnableTotp, DisableTotp
<1>i. Idle \in Request \cup {Idle} /\ Idle.at = "idle"
  BY DEF Idle
<1>4. ASSUME NEW c \in Clients, VerifyPassword(c) PROVE TokensInv'
  <2>1. req[c] \in Request /\ UNCHANGED <<now, user, tokens>> /\ req[c].at # "idle"
    BY <1>4, IsRequest DEF VerifyPassword, SessionTypes
  <2>2. ASSUME NEW place \in {"hash", "issue"}, req' = [req EXCEPT ![c].at = place] PROVE TokensInv'
    <3>. DEFINE r == [req[c] EXCEPT !.at = place]
    <3>1. r \in Request /\ r.pw = req[c].pw /\ r.at = place /\ req' = [req EXCEPT ![c] = r]
      BY <2>1, <2>2 DEF Request, Places
    <3>. HIDE DEF r
    <3>. QED  BY <1>2, <2>1, <3>1
  <2>3. ASSUME req' = [req EXCEPT ![c].at = "claim", ![c].n = TotpStepFor(now)] PROVE TokensInv'
    <3>. DEFINE r == [req[c] EXCEPT !.at = "claim", !.n = TotpStepFor(now)]
    <3>1. r \in Request /\ r.pw = req[c].pw /\ r.at = "claim" /\ req' = [req EXCEPT ![c] = r]
      BY <2>1, <2>3, StepsFit DEF Request, Places, SessionTypes, TypeOK
    <3>. HIDE DEF r
    <3>. QED  BY <1>2, <2>1, <3>1
  <2>. QED  BY <1>4, <2>2, <2>3 DEF VerifyPassword, Goto
<1>5. ASSUME NEW c \in Clients, Mistaken(c) \/ WriteTotp(c) PROVE TokensInv'
  <2>1. req' = [req EXCEPT ![c] = Idle] /\ req[c].at # "idle" /\ UNCHANGED <<now, tokens>>
    BY <1>5 DEF Mistaken, WriteTotp, Refuse
  <2>2. UNCHANGED <<user.pw, user.after>>
    BY <1>5 DEF Mistaken, WriteTotp, SessionTypes, TypeOK, User
  <2>. QED  BY <1>2, <1>i, <2>1, <2>2
<1>6. ASSUME NEW c \in Clients, ClaimTotpStep(c) PROVE TokensInv'
  <2>1. req[c].at = "claim" /\ req[c].kind # "password" /\ UNCHANGED <<now, tokens>>
    BY <1>6 DEF ClaimTotpStep, SessionTypes, Fits
  <2>2. req[c] \in Request
    BY <2>1, IsRequest DEF SessionTypes
  <2>3. UNCHANGED <<user.pw, user.after>>
    BY <1>6 DEF ClaimTotpStep, SessionTypes, TypeOK, User
  <2>4. CASE Refuse(c)
    BY <1>2, <1>i, <2>1, <2>3, <2>4 DEF Refuse
  <2>5. ASSUME NEW place \in {"issue", "write"}, Goto(c, place) PROVE TokensInv'
    <3>. DEFINE r == [req[c] EXCEPT !.at = place]
    <3>1. r \in Request /\ r.pw = req[c].pw /\ r.kind = req[c].kind /\ req' = [req EXCEPT ![c] = r]
      BY <2>2, <2>5 DEF Request, Places, Goto
    <3>. HIDE DEF r
    <3>. QED  BY <1>2, <2>1, <2>3, <3>1
  <2>. QED  BY <1>6, <2>4, <2>5 DEF ClaimTotpStep
<1>7. CASE Restart \/ Tick
  <2>1. now' >= now /\ UNCHANGED <<user, tokens>>
    BY <1>0, <1>7 DEF Restart, Tick
  <2>2. \A d \in Clients : req'[d] = Idle \/ req'[d] = req[d]
    BY <1>7 DEF Restart, Tick
  <2>3. \A d \in Clients : Writing(d)' => Writing(d) /\ req'[d].n = req[d].n
    BY <1>i, <2>2 DEF Writing
  <2>4. \A d \in Clients : req'[d].at # "idle" => req'[d].pw <= user.pw
    BY <1>i, <2>2 DEF TokensInv, NotAhead
  <2>. QED  BY <2>1, <2>3, <2>4, TokensUnrelated
<1>8. CASE Poll \/ Logout \/ UNCHANGED vars
  <2>1. UNCHANGED <<now, user, req, tokens>>
    BY <1>8 DEF Poll, SendPoll, ServePoll, ReceivePoll, Logout, vars
  <2>. QED  BY <1>0, <2>1, TokensUnrelated DEF Writing, TokensInv, NotAhead
<1>. QED
  BY <1>3, <1>4, <1>5, <1>6, <1>7, <1>8, HashKeepsTokens, WriteKeepsTokens, IssueKeepsTokens DEF Next, Handle

\* A request that was refused carried a revoked token, and what is revoked stays so.
RefusedPoll == poll.answer = "401" => poll.tok.iat < user.after

LEMMA RefusedPollKept == SessionTypes /\ TokensInv /\ RefusedPoll /\ [Next]_vars => RefusedPoll'
<1>. SUFFICES ASSUME SessionTypes, TokensInv, RefusedPoll, [Next]_vars PROVE RefusedPoll'
  OBVIOUS
<1>0. poll \in [tok : tokens \cup {NoToken}, answer : {"none", "sent", "ok", "401"}]
  BY DEF SessionTypes, TypeOK
<1>1. CASE UNCHANGED <<poll, user.after>>
  BY <1>1 DEF RefusedPoll
<1>2. CASE Poll
  BY <1>0, <1>2 DEF Poll, SendPoll, ServePoll, ReceivePoll, NoPoll, IsTokenRevoked, RefusedPoll
<1>3. CASE Restart
  BY <1>3 DEF Restart, NoPoll, RefusedPoll
<1>4. ASSUME NEW c \in Clients, WritePassword(c) PROVE RefusedPoll'
  <2>1. user'.after = req[c].n /\ user.after <= req[c].n /\ poll' = poll
    BY <1>4 DEF WritePassword, SessionTypes, TypeOK, User, TokensInv, Stamps
  <2>2. poll.tok.iat \in Nat /\ user.after \in Nat /\ req[c].n \in Nat
    BY <1>0, Numbers DEF NoToken
  <2>. QED  BY <2>1, <2>2 DEF RefusedPoll
<1>5. ASSUME NEW c \in Clients, WriteTotp(c) \/ ClaimTotpStep(c) PROVE UNCHANGED <<poll, user.after>>
  BY <1>5 DEF WriteTotp, ClaimTotpStep, SessionTypes, TypeOK, User
<1>. QED
  BY <1>1, <1>2, <1>3, <1>4, <1>5
  DEF Next, Ask, Handle, Login, ChangePassword, EnableTotp, DisableTotp, Take, VerifyPassword, HashPassword,
      IssueAccessToken, Mistaken, Logout, Tick, vars

SessionInv == SessionTypes /\ RowIsLast /\ OncePerStep /\ TokensInv /\ RefusedPoll

LEMMA InitSession == Init => SessionInv
<1>. SUFFICES ASSUME Init PROVE SessionInv
  OBVIOUS
<1>1. RowIsLast /\ OncePerStep /\ RefusedPoll
  BY DEF Init, RowIsLast, OncePerStep, RefusedPoll, NoPoll
<1>2. TokensInv
  BY DEF Init, TokensInv, Stamps, NotAhead, OvertakenKnown, TokensFollowPassword, Writing, Idle
<1>. QED  BY <1>1, <1>2, InitSessionTypes DEF SessionInv

LEMMA NextSession == SessionInv /\ [Next]_vars => SessionInv'
BY NextSessionTypes, CodesKept, TokensKept, RefusedPollKept DEF SessionInv

\* The one way to lose a token that is accepted
KeptStep == held' = NoToken /\ Accepted(held) => Logout \/ poll.tok # held

LEMMA LiveSessionStep == SessionInv /\ [Next]_vars => KeptStep
<1>. SUFFICES ASSUME SessionInv, [Next]_vars, held' = NoToken, Accepted(held), ~Logout PROVE poll.tok # held
  BY DEF KeptStep
<1>1. held # NoToken /\ ~(held.iat < user.after)
  BY DEF Accepted, IsTokenRevoked
<1>2. CASE ReceivePoll
  BY <1>1, <1>2 DEF ReceivePoll, SessionInv, RefusedPoll
<1>3. ASSUME NEW c \in Clients, IssueAccessToken(c) PROVE FALSE
  <2>1. PICK raced : held' = [iat |-> now, pw |-> req[c].pw, raced |-> raced] \/ held' = held
    BY <1>3 DEF IssueAccessToken
  <2>2. now # 0
    BY Numbers DEF SessionInv
  <2>. QED  BY <1>1, <2>1, <2>2 DEF NoToken
<1>4. held' # held
  BY <1>1
<1>. QED
  BY <1>2, <1>3, <1>4
  DEF Next, Ask, Handle, Login, ChangePassword, EnableTotp, DisableTotp, Take, VerifyPassword, HashPassword,
      ClaimTotpStep, WriteTotp, WritePassword, Mistaken, Poll, SendPoll, ServePoll, Restart, Tick, vars







-----------------------------------------------------------------------------
(* Navigation: types *)

MeQuery == [data : {"unknown", "null", "must", "user"}, at : {"no", "out", "back"},
            sent : {"none", "good", "dead"}, answer : {"null", "error", "must", "user"}, failed : BOOLEAN]
StatusQuery == [data : {"unknown", "needs", "done"}, at : {"no", "out", "back"},
                answer : {"needs", "done", "error"}, failed : BOOLEAN]
Form == [kind : {"none", "login", "setup", "password"}, at : {"none", "out", "refetch", "refetched"},
         first : BOOLEAN]

NavPages ==
  /\ account \in {"none", "must", "set"} /\ token \in {"none", "good", "dead"}
  /\ page \in {"home", "hosts", "onboarding", "password", "login", "setup"}
  /\ from \in {"home", "hosts", "onboarding", "password"}
  /\ lists \in {"unknown", "failed", "empty", "some"}
NavFlags == dismissed \in BOOLEAN /\ overtaken \in BOOLEAN
NavQueries == me \in MeQuery /\ status \in StatusQuery

NavTypes == NavPages /\ NavFlags /\ NavQueries /\ form \in Form /\ asked \in 0 .. MaxAsked

LEMMA NavTypesSuffice == NavTypes => Nav!NavTypeOK
BY DEF NavTypes, NavPages, NavFlags, NavQueries, MeQuery, StatusQuery, Form, Nav!NavTypeOK, Nav!Pages,
       Nav!Protected,
   Nav!Signed

\* What the handlers make of a query is a query.
LEMMA QueryTypes ==
  ASSUME NEW q \in MeQuery, NEW s \in StatusQuery, NEW t \in {"none", "good", "dead"}
  PROVE  /\ Nav!AskedMe(q, t) \in MeQuery /\ Nav!Settled(q) \in MeQuery /\ Nav!FreshMe(t) \in MeQuery
         /\ Nav!Asked(s) \in StatusQuery /\ Nav!FreshStatus \in StatusQuery
BY DEF MeQuery, StatusQuery, Nav!AskedMe, Nav!Settled, Nav!FreshMe, Nav!Asked, Nav!FreshStatus

LEMMA InvalidatedTypes ==
  ASSUME NavQueries, NEW t \in {"none", "good", "dead"}
  PROVE  Nav!InvalidateMe(t) \in MeQuery /\ Nav!InvalidateStatus \in StatusQuery
BY QueryTypes DEF NavQueries, Nav!InvalidateMe, Nav!InvalidateStatus

LEMMA InitNavTypes == Nav!NavInit => NavTypes
<1>. SUFFICES ASSUME Nav!NavInit PROVE NavTypes
  OBVIOUS
<1>1. token \in {"none", "good", "dead"} /\ me = Nav!FreshMe(token) /\ status = Nav!FreshStatus
  BY DEF Nav!NavInit
<1>2. NavQueries
  BY <1>1 DEF NavQueries, MeQuery, StatusQuery, Nav!FreshMe, Nav!FreshStatus
<1>3. NavPages
  BY DEF Nav!NavInit, NavPages
<1>4. NavFlags
  BY DEF Nav!NavInit, NavFlags
<1>5. form \in Form
  BY DEF Nav!NavInit, Nav!NoForm, Form
<1>6. asked \in 0 .. MaxAsked
  BY BrowserAssumption DEF Nav!NavInit
<1>. QED  BY <1>2, <1>3, <1>4, <1>5, <1>6 DEF NavTypes

LEMMA NavPagesKept == NavTypes /\ Nav!NavNext => NavPages'
<1>. SUFFICES ASSUME NavTypes, Nav!NavNext PROVE NavPages'
  OBVIOUS
<1>. USE DEF NavTypes, NavPages
<1>1. ASSUME NEW p \in Nav!Pages, NEW f \in Nav!Protected, Nav!GoTo(p, f) PROVE NavPages'
  BY <1>1 DEF Nav!GoTo, Nav!Pages, Nav!Protected
<1>2. CASE Nav!Network
  BY <1>2 DEF Nav!Network, Nav!AnswerMe, Nav!AnswerStatus, Nav!ReceiveMe, Nav!ReceiveStatus
<1>3. CASE Nav!Effects
  BY <1>1, <1>3 DEF Nav!Effects, Nav!RouteGuard, Nav!LoginEffect, Nav!SetupEffect, Nav!DashboardEffect,
                    Nav!Decided, Nav!Pages, Nav!Protected
<1>4. CASE Nav!Answers
  BY <1>4 DEF Nav!Answers, Nav!Refused, Nav!LoggedIn, Nav!SetUp, Nav!PasswordChanged
<1>5. CASE Nav!PasswordLeft \/ Nav!RefetchMe \/ Nav!RefetchStatus \/ Nav!Unauthorized
  BY <1>5 DEF Nav!PasswordLeft, Nav!RefetchMe, Nav!RefetchStatus, Nav!Unauthorized
<1>6. CASE Nav!FetchLists \/ Nav!LeaveOnboarding \/ Nav!Reload \/ Nav!Logout \/ Nav!Revoke \/ Nav!SetUpElsewhere
  BY <1>6 DEF Nav!FetchLists, Nav!LeaveOnboarding, Nav!Reload, Nav!Logout, Nav!Revoke, Nav!SetUpElsewhere
<1>7. ASSUME NEW p \in {"home", "hosts", "onboarding"}, Nav!Visit(p) PROVE NavPages'
  BY <1>1, <1>7 DEF Nav!Visit, Nav!Pages, Nav!Protected
<1>8. ASSUME NEW k, Nav!Submit(k) PROVE NavPages'
  BY <1>8 DEF Nav!Submit
<1>. QED  BY <1>2, <1>3, <1>4, <1>5, <1>6, <1>7, <1>8 DEF Nav!NavNext

LEMMA NavFlagsKept == NavTypes /\ Nav!NavNext => NavFlags'
<1>. SUFFICES ASSUME NavTypes, Nav!NavNext PROVE NavFlags'
  OBVIOUS
<1>1. dismissed \in BOOLEAN /\ overtaken \in BOOLEAN
  BY DEF NavTypes, NavFlags
<1>2. Nav!KeptOnInvalidate(me) \in BOOLEAN /\ Nav!KeptOnInvalidate(status) \in BOOLEAN
  BY DEF Nav!KeptOnInvalidate
<1>3. dismissed' \in BOOLEAN /\ overtaken' \in BOOLEAN
  BY <1>1, <1>2
  DEF Nav!NavNext, Nav!Network, Nav!AnswerMe, Nav!AnswerStatus, Nav!ReceiveMe, Nav!ReceiveStatus,
      Nav!Effects, Nav!RouteGuard, Nav!LoginEffect, Nav!SetupEffect, Nav!DashboardEffect, Nav!GoTo,
      Nav!Answers, Nav!Refused, Nav!LoggedIn, Nav!SetUp, Nav!PasswordChanged, Nav!PasswordLeft,
      Nav!RefetchMe, Nav!RefetchStatus, Nav!Unauthorized, Nav!FetchLists, Nav!LeaveOnboarding, Nav!Visit,
      Nav!Reload, Nav!Submit, Nav!Logout, Nav!Revoke, Nav!SetUpElsewhere
<1>. QED  BY <1>3 DEF NavFlags

LEMMA MeKept == NavTypes /\ Nav!NavNext => me' \in MeQuery
<1>. SUFFICES ASSUME NavTypes, Nav!NavNext PROVE me' \in MeQuery
  OBVIOUS
<1>0. me \in MeQuery /\ token \in {"none", "good", "dead"} /\ NavQueries
  BY DEF NavTypes, NavQueries, NavPages
<1>1. ASSUME Nav!AnswerMe PROVE me' \in MeQuery
  <2>1. PICK a \in {"null", "must", "user", "error"} : me' = [me EXCEPT !.at = "back", !.answer = a]
    BY <1>1 DEF Nav!AnswerMe, Nav!WhoIs
  <2>. QED  BY <1>0, <2>1 DEF MeQuery
<1>2. ASSUME Nav!ReceiveMe PROVE me' \in MeQuery
  <2>1. Nav!Settled(me) \in MeQuery /\ Nav!AskedMe(me, "none") \in MeQuery
    BY <1>0 DEF MeQuery, Nav!Settled, Nav!AskedMe
  <2>2. [Nav!Settled(me) EXCEPT !.failed = TRUE] \in MeQuery
    BY <2>1 DEF MeQuery
  <2>3. [Nav!Settled(me) EXCEPT !.data = "null", !.failed = FALSE] \in MeQuery
    BY <2>1 DEF MeQuery
  <2>4. me.answer # "error" => [Nav!Settled(me) EXCEPT !.data = me.answer, !.failed = FALSE] \in MeQuery
    BY <1>0, <2>1 DEF MeQuery
  <2>. QED  BY <1>2, <2>1, <2>2, <2>3, <2>4 DEF Nav!ReceiveMe
<1>3. CASE Nav!AnswerStatus \/ Nav!ReceiveStatus \/ Nav!Effects
  BY <1>0, <1>3 DEF Nav!AnswerStatus, Nav!ReceiveStatus, Nav!Effects, Nav!RouteGuard, Nav!LoginEffect,
                    Nav!SetupEffect, Nav!DashboardEffect, Nav!GoTo
<1>4. CASE Nav!Answers \/ Nav!PasswordLeft \/ Nav!Unauthorized
  BY <1>0, <1>4, InvalidatedTypes
  DEF Nav!Answers, Nav!Refused, Nav!LoggedIn, Nav!SetUp, Nav!PasswordChanged, Nav!PasswordLeft,
      Nav!Unauthorized
<1>5. CASE Nav!RefetchMe \/ Nav!Reload \/ Nav!Logout
  BY <1>0, <1>5, QueryTypes DEF NavQueries, Nav!RefetchMe, Nav!Reload, Nav!Logout
<1>6. CASE Nav!RefetchStatus \/ Nav!FetchLists \/ Nav!LeaveOnboarding \/ Nav!Revoke \/ Nav!SetUpElsewhere
  BY <1>0, <1>6 DEF Nav!RefetchStatus, Nav!FetchLists, Nav!LeaveOnboarding, Nav!Revoke, Nav!SetUpElsewhere
<1>7. ASSUME NEW p, Nav!Visit(p) \/ Nav!Submit(p) PROVE me' = me
  BY <1>7 DEF Nav!Visit, Nav!GoTo, Nav!Submit
<1>. QED  BY <1>0, <1>1, <1>2, <1>3, <1>4, <1>5, <1>6, <1>7 DEF Nav!NavNext, Nav!Network

LEMMA StatusKept == NavTypes /\ Nav!NavNext => status' \in StatusQuery
<1>. SUFFICES ASSUME NavTypes, Nav!NavNext PROVE status' \in StatusQuery
  OBVIOUS
<1>0. me \in MeQuery /\ token \in {"none", "good", "dead"} /\ NavQueries /\ status \in StatusQuery
  BY DEF NavTypes, NavQueries, NavPages
<1>1. ASSUME Nav!AnswerStatus PROVE status' \in StatusQuery
  <2>1. PICK a \in {"needs", "done", "error"} : status' = [status EXCEPT !.at = "back", !.answer = a]
    BY <1>1 DEF Nav!AnswerStatus
  <2>. QED  BY <1>0, <2>1 DEF StatusQuery
<1>2. ASSUME Nav!ReceiveStatus PROVE status' \in StatusQuery
  <2>1. CASE status.answer = "error"
    BY <1>0, <1>2, <2>1 DEF Nav!ReceiveStatus, StatusQuery
  <2>2. CASE status.answer # "error"
    <3>1. status.answer \in {"needs", "done"}
      BY <1>0, <2>2 DEF StatusQuery
    <3>2. status' = [data |-> status.answer, at |-> "no", answer |-> "needs", failed |-> FALSE]
      BY <1>2, <2>2 DEF Nav!ReceiveStatus
    <3>. QED  BY <3>1, <3>2 DEF StatusQuery
  <2>. QED  BY <2>1, <2>2
<1>3. CASE Nav!AnswerMe \/ Nav!ReceiveMe \/ Nav!Effects
  BY <1>0, <1>3 DEF Nav!AnswerMe, Nav!ReceiveMe, Nav!Effects, Nav!RouteGuard, Nav!LoginEffect,
                    Nav!SetupEffect, Nav!DashboardEffect, Nav!GoTo
<1>4. CASE Nav!Answers \/ Nav!PasswordLeft \/ Nav!Unauthorized
  BY <1>0, <1>4, InvalidatedTypes
  DEF Nav!Answers, Nav!Refused, Nav!LoggedIn, Nav!SetUp, Nav!PasswordChanged, Nav!PasswordLeft,
      Nav!Unauthorized
<1>5. CASE Nav!RefetchStatus \/ Nav!Reload \/ Nav!Logout
  BY <1>0, <1>5, QueryTypes DEF NavQueries, Nav!RefetchStatus, Nav!Reload, Nav!Logout
<1>6. CASE Nav!RefetchMe \/ Nav!FetchLists \/ Nav!LeaveOnboarding \/ Nav!Revoke \/ Nav!SetUpElsewhere
  BY <1>0, <1>6 DEF Nav!RefetchMe, Nav!FetchLists, Nav!LeaveOnboarding, Nav!Revoke, Nav!SetUpElsewhere
<1>7. ASSUME NEW p, Nav!Visit(p) \/ Nav!Submit(p) PROVE status' = status
  BY <1>7 DEF Nav!Visit, Nav!GoTo, Nav!Submit
<1>. QED  BY <1>0, <1>1, <1>2, <1>3, <1>4, <1>5, <1>6, <1>7 DEF Nav!NavNext, Nav!Network

LEMMA FormKept == NavTypes /\ Nav!NavNext => form' \in Form /\ asked' \in 0 .. MaxAsked
<1>. SUFFICES ASSUME NavTypes, Nav!NavNext PROVE form' \in Form /\ asked' \in 0 .. MaxAsked
  OBVIOUS
<1>0. form \in Form /\ asked \in 0 .. MaxAsked /\ MaxAsked \in Nat
  BY BrowserAssumption DEF NavTypes
<1>1. Nav!NoForm \in Form /\ [form EXCEPT !.at = "refetch"] \in Form /\ [form EXCEPT !.at = "refetched"] \in Form
  BY <1>0 DEF Form, Nav!NoForm
<1>2. CASE Nav!Network
  BY <1>0, <1>1, <1>2 DEF Nav!Network, Nav!AnswerMe, Nav!AnswerStatus, Nav!ReceiveMe, Nav!ReceiveStatus
<1>3. CASE Nav!Effects
  BY <1>0, <1>3 DEF Nav!Effects, Nav!RouteGuard, Nav!LoginEffect, Nav!SetupEffect, Nav!DashboardEffect,
                    Nav!GoTo
<1>4. CASE Nav!Answers \/ Nav!PasswordLeft \/ Nav!Unauthorized
  BY <1>0, <1>1, <1>4
  DEF Nav!Answers, Nav!Refused, Nav!LoggedIn, Nav!SetUp, Nav!PasswordChanged, Nav!PasswordLeft,
      Nav!Unauthorized
<1>5. CASE Nav!RefetchStatus \/ Nav!Reload \/ Nav!Logout
  BY <1>0, <1>5 DEF Nav!RefetchStatus, Nav!Reload, Nav!Logout
<1>6. CASE Nav!RefetchMe \/ Nav!FetchLists \/ Nav!LeaveOnboarding \/ Nav!Revoke \/ Nav!SetUpElsewhere
  BY <1>0, <1>6 DEF Nav!RefetchMe, Nav!FetchLists, Nav!LeaveOnboarding, Nav!Revoke, Nav!SetUpElsewhere
<1>7. ASSUME NEW p, Nav!Visit(p) PROVE UNCHANGED <<form, asked>>
  BY <1>7 DEF Nav!Visit, Nav!GoTo
<1>8. ASSUME NEW k \in {"login", "setup", "password"}, Nav!Submit(k)
      PROVE  form' \in Form /\ asked' \in 0 .. MaxAsked
  <2>1. PICK b \in BOOLEAN : form' = [kind |-> k, at |-> "out", first |-> b]
    BY <1>8 DEF Nav!Submit
  <2>2. form' \in Form
    BY <2>1 DEF Form
  <2>. QED  BY <1>0, <1>8, <2>2 DEF Nav!Submit
<1>. QED  BY <1>0, <1>2, <1>3, <1>4, <1>5, <1>6, <1>7, <1>8 DEF Nav!NavNext

LEMMA NextNav == NavTypes /\ [Nav!NavNext]_navVars => NavTypes'
<1>1. NavTypes /\ UNCHANGED navVars => NavTypes'
  BY DEF NavTypes, NavPages, NavFlags, NavQueries, navVars
<1>2. NavTypes /\ Nav!NavNext => NavTypes'
  BY NavPagesKept, NavFlagsKept, MeKept, StatusKept, FormKept DEF NavTypes, NavQueries
<1>. QED  BY <1>1, <1>2

-----------------------------------------------------------------------------
(* EventStream: types *)

LEMMA InitStream == Stream!Init => Stream!TypeOK
BY BrowserAssumption DEF Stream!Init, Stream!TypeOK, Stream!Steps, Stream!Streaming

LEMMA NextStream == Stream!TypeOK /\ [Stream!Next]_streamVars => Stream!TypeOK'
<1>. SUFFICES ASSUME Stream!TypeOK, [Stream!Next]_streamVars PROVE Stream!TypeOK'
  OBVIOUS
<1>. USE DEF Stream!TypeOK
<1>1. ASSUME NEW m \in Mounts, NEW s \in Stream!Steps, Stream!Go(m, s) PROVE hook' \in [Mounts -> Stream!Steps]
  BY <1>1 DEF Stream!Go
<1>2. {"none", "off", "ticket", "retry", "gone", "opening", "open"} = Stream!Steps
  BY DEF Stream!Steps, Stream!Streaming
<1>3. ASSUME NEW m \in Mounts, Stream!Mount(m) \/ Stream!Unmount(m) PROVE Stream!TypeOK'
  BY <1>1, <1>2, <1>3 DEF Stream!Mount, Stream!Unmount
<1>4. ASSUME NEW m \in Mounts, Stream!Effect(m) PROVE Stream!TypeOK'
  BY <1>1, <1>2, <1>4 DEF Stream!Effect, Stream!GetTicket, Stream!TicketFails, Stream!OpenStream,
                          Stream!Backoff, Stream!Retry
<1>5. ASSUME NEW m \in Mounts, Stream!StreamFails(m) \/ Stream!Cleanup(m) PROVE Stream!TypeOK'
  BY <1>1, <1>2, <1>5 DEF Stream!StreamFails, Stream!Retry, Stream!Cleanup
<1>6. CASE Stream!MinutePasses \/ Stream!BackendStarts \/ Stream!SessionChanges \/ UNCHANGED streamVars
  BY <1>6 DEF Stream!MinutePasses, Stream!BackendStarts, Stream!SessionChanges, streamVars
<1>7. ASSUME Stream!BackendDies PROVE Stream!TypeOK'
  <2>1. hook' \in [Mounts -> Stream!Steps]
    BY <1>2, <1>7 DEF Stream!BackendDies
  <2>2. deaths' \in 0 .. MaxDeaths
    BY <1>7, BrowserAssumption DEF Stream!BackendDies
  <2>3. up' \in BOOLEAN /\ bus' \subseteq Mounts /\ UNCHANGED <<signedIn, closed, ticket>>
    BY <1>7 DEF Stream!BackendDies
  <2>. QED  BY <2>1, <2>2, <2>3
<1>. QED  BY <1>3, <1>4, <1>5, <1>6, <1>7 DEF Stream!Next

-----------------------------------------------------------------------------
(* PlayitClaim: types *)


Loop == [code : {Claim!None} \cup Codes, at : {"off", "ask", "asked", "pause"}, on : {Claim!None} \cup Requests]

\* A handler that is under way was given a code that had been made up.
HandlersKnow == \A r \in Requests : handler[r].at \in {"setup", "exchange", "create"} => handler[r].code \in Codes

ClaimShapes == Claim!TypeOK /\ HandlersKnow

LEMMA InitClaim == Claim!Init => ClaimShapes
<1>. SUFFICES ASSUME Claim!Init PROVE ClaimShapes
  OBVIOUS
<1>1. lost \in 0 .. MaxLost /\ cRestarts \in 0 .. MaxRestarts
  BY BrowserAssumption DEF Claim!Init
<1>2. handler \in [Requests -> [code : {Claim!None} \cup Codes,
                                at : {"none", "setup", "exchange", "create"} \cup Claim!Answers]]
  BY DEF Claim!Init, Claim!NoHandler
<1>3. loop \in Loop
  BY DEF Claim!Init, Claim!Off, Claim!None, Loop
<1>4. HandlersKnow
  BY DEF Claim!Init, Claim!NoHandler, HandlersKnow
<1>5. /\ cMade \in {0} \cup Codes /\ claim \in {Claim!None} \cup Codes
      /\ pending \subseteq Codes /\ expired \subseteq Codes /\ accounts \subseteq Codes
      /\ remote \in [Codes -> {"unvisited", "visited", "accepted", "rejected", "exchanged"}]
  BY DEF Claim!Init, Claim!None
<1>. QED  BY <1>1, <1>2, <1>3, <1>4, <1>5 DEF ClaimShapes, Claim!TypeOK, Loop

LEMMA NextClaim == ClaimShapes /\ [Claim!Next]_claimVars => ClaimShapes'
<1>. SUFFICES ASSUME ClaimShapes, [Claim!Next]_claimVars PROVE ClaimShapes'
  OBVIOUS
<1>. DEFINE At == {"none", "setup", "exchange", "create"} \cup Claim!Answers
            Handler == [code : {Claim!None} \cup Codes, at : At]
<1>0. /\ MaxLost \in Nat /\ MaxRestarts \in Nat
      /\ loop \in Loop /\ handler \in [Requests -> Handler] /\ lost \in 0 .. MaxLost
      /\ pending \subseteq Codes /\ expired \subseteq Codes /\ accounts \subseteq Codes
  BY BrowserAssumption DEF ClaimShapes, Claim!TypeOK, Loop
<1>a. {"linked", "waiting", "502", "rejected", "refused", "404", "none", "setup", "exchange", "create"} = At
  BY DEF Claim!Answers
<1>b. /\ Claim!Off \in Loop /\ [loop EXCEPT !.at = "pause", !.on = Claim!None] \in Loop
      /\ \A c \in Codes : [Claim!Off EXCEPT !.code = c, !.at = "ask"] \in Loop
      /\ \A r \in Requests : [loop EXCEPT !.at = "asked", !.on = r] \in Loop
      /\ [loop EXCEPT !.at = "ask"] \in Loop
  BY <1>0 DEF Loop, Claim!Off, Claim!None
<1>c. Claim!NoHandler \in Handler /\ Claim!NoHandler.at = "none"
  BY DEF Claim!NoHandler
<1>. HIDE DEF At
<1>d. ASSUME NEW r \in Requests, NEW h \in Handler, handler' = [handler EXCEPT ![r] = h],
             h.at \in {"setup", "exchange", "create"} => h.code \in Codes
      PROVE  handler' \in [Requests -> Handler] /\ HandlersKnow'
  BY <1>0, <1>d DEF ClaimShapes, HandlersKnow
<1>e. ASSUME NEW r \in Requests, NEW a \in At, Claim!Answer(r, a),
             a \in {"setup", "exchange", "create"} => handler[r].code \in Codes
      PROVE  handler' \in [Requests -> Handler] /\ HandlersKnow'
  <2>. DEFINE h == [handler[r] EXCEPT !.at = a]
  <2>1. h \in Handler /\ h.at = a /\ h.code = handler[r].code /\ handler' = [handler EXCEPT ![r] = h]
    BY <1>0, <1>e DEF Claim!Answer
  <2>. HIDE DEF h
  <2>. QED  BY <1>d, <1>e, <2>1
<1>1. ASSUME Claim!StartClaim PROVE ClaimShapes'
  <2>1. loop' \in Loop
    BY <1>1, <1>b DEF Claim!StartClaim
  <2>2. pending' \subseteq Codes /\ cMade' \in {0} \cup Codes /\ claim' \in {Claim!None} \cup Codes
    BY <1>0, <1>1 DEF Claim!StartClaim
  <2>. QED  BY <1>1, <2>1, <2>2 DEF Claim!StartClaim, ClaimShapes, Claim!TypeOK, HandlersKnow, Loop
<1>2. ASSUME Claim!CloseModal PROVE ClaimShapes'
  BY <1>2, <1>b DEF Claim!CloseModal, ClaimShapes, Claim!TypeOK, HandlersKnow, Loop
<1>3. ASSUME Claim!Poll PROVE ClaimShapes'
  <2>1. loop' \in Loop
    BY <1>3, <1>b DEF Claim!Poll, Claim!Pause
  <2>2. lost' \in 0 .. MaxLost
    <3>1. lost' = lost \/ (lost < MaxLost /\ lost' = lost + 1)
      BY <1>3 DEF Claim!Poll
    <3>2. lost \in Nat /\ lost <= MaxLost
      BY <1>0
    <3>. QED  BY <1>0, <3>1, <3>2
  <2>3. handler' \in [Requests -> Handler] /\ HandlersKnow'
    <3>1. CASE UNCHANGED handler
      BY <1>0, <3>1 DEF ClaimShapes, HandlersKnow
    <3>2. ASSUME NEW r \in Requests,
                 handler' = [handler EXCEPT ![r] =
                   [code |-> loop.code, at |-> IF loop.code \in pending \ expired THEN "setup" ELSE "404"]]
          PROVE  handler' \in [Requests -> Handler] /\ HandlersKnow'
      <4>1. loop.code \in {Claim!None} \cup Codes /\ "setup" \in At /\ "404" \in At
        BY <1>0, <1>a DEF Loop
      <4>2. CASE loop.code \in pending \ expired
        BY <1>0, <1>d, <3>2, <4>1, <4>2
      <4>3. CASE loop.code \notin pending \ expired
        BY <1>0, <1>d, <3>2, <4>1, <4>3
      <4>. QED  BY <4>2, <4>3
    <3>. QED  BY <1>3, <3>1, <3>2 DEF Claim!Poll
  <2>. QED  BY <1>3, <2>1, <2>2, <2>3 DEF Claim!Poll, ClaimShapes, Claim!TypeOK, Loop, At
<1>4. ASSUME Claim!TwoSeconds \/ Claim!LoseAnswer PROVE ClaimShapes'
  <2>1. loop' \in Loop
    BY <1>4, <1>b DEF Claim!TwoSeconds, Claim!LoseAnswer, Claim!Pause
  <2>2. lost' \in 0 .. MaxLost
    BY <1>0, <1>4 DEF Claim!TwoSeconds, Claim!LoseAnswer, ClaimShapes, Claim!TypeOK
  <2>. QED
    BY <1>4, <2>1, <2>2 DEF Claim!TwoSeconds, Claim!LoseAnswer, ClaimShapes, Claim!TypeOK, HandlersKnow, Loop
<1>5. ASSUME NEW r \in Requests, Claim!Receive(r) PROVE ClaimShapes'
  <2>1. loop' \in Loop /\ claim' \in {Claim!None} \cup Codes
    BY <1>0, <1>5, <1>b DEF Claim!Receive, Claim!Pause, Claim!Stop, ClaimShapes, Claim!TypeOK
  <2>2. handler' \in [Requests -> Handler] /\ HandlersKnow'
    BY <1>5, <1>c, <1>d DEF Claim!Receive
  <2>. QED  BY <1>5, <2>1, <2>2 DEF Claim!Receive, ClaimShapes, Claim!TypeOK, Loop, At
<1>6. ASSUME NEW r \in Requests, Claim!ClaimSetup(r) PROVE ClaimShapes'
  <2>1. handler[r].code \in Codes
    BY <1>6 DEF Claim!ClaimSetup, ClaimShapes, HandlersKnow
  <2>2. handler' \in [Requests -> Handler] /\ HandlersKnow'
    BY <1>6, <1>a, <1>e, <2>1 DEF Claim!ClaimSetup
  <2>3. pending' \subseteq Codes
    BY <1>0, <1>6 DEF Claim!ClaimSetup
  <2>. QED  BY <1>6, <2>2, <2>3 DEF Claim!ClaimSetup, ClaimShapes, Claim!TypeOK, At
<1>7. ASSUME NEW r \in Requests, Claim!ClaimExchange(r) PROVE ClaimShapes'
  <2>1. handler[r].code \in Codes
    BY <1>7 DEF Claim!ClaimExchange, ClaimShapes, HandlersKnow
  <2>2. handler' \in [Requests -> Handler] /\ HandlersKnow'
    BY <1>7, <1>a, <1>e, <2>1 DEF Claim!ClaimExchange
  <2>3. pending' \subseteq Codes
    BY <1>0, <1>7 DEF Claim!ClaimExchange
  <2>4. remote' \in [Codes -> {"unvisited", "visited", "accepted", "rejected", "exchanged"}]
    BY <1>7 DEF Claim!ClaimExchange, ClaimShapes, Claim!TypeOK
  <2>. QED  BY <1>7, <2>2, <2>3, <2>4 DEF Claim!ClaimExchange, ClaimShapes, Claim!TypeOK, At
<1>8. ASSUME NEW r \in Requests, Claim!CreateAccount(r) PROVE ClaimShapes'
  <2>1. handler[r].code \in Codes
    BY <1>8 DEF Claim!CreateAccount, ClaimShapes, HandlersKnow
  <2>2. handler' \in [Requests -> Handler] /\ HandlersKnow'
    BY <1>8, <1>a, <1>e, <2>1 DEF Claim!CreateAccount
  <2>3. accounts' \subseteq Codes
    BY <1>0, <1>8, <2>1 DEF Claim!CreateAccount
  <2>. QED  BY <1>8, <2>2, <2>3 DEF Claim!CreateAccount, ClaimShapes, Claim!TypeOK, At
<1>9. ASSUME Claim!Restart PROVE ClaimShapes'
  <2>1. loop' \in Loop
    BY <1>0, <1>9, <1>b DEF Claim!Restart, Claim!Pause
  <2>2. handler' \in [Requests -> Handler] /\ HandlersKnow'
    BY <1>9, <1>c DEF Claim!Restart, HandlersKnow
  <2>3. cRestarts' \in 0 .. MaxRestarts
    BY <1>0, <1>9 DEF Claim!Restart, ClaimShapes, Claim!TypeOK
  <2>. QED  BY <1>9, <2>1, <2>2, <2>3 DEF Claim!Restart, ClaimShapes, Claim!TypeOK, Loop, At
<1>10. ASSUME NEW c \in Codes, Claim!Visit(c) \/ Claim!Expire(c) PROVE ClaimShapes'
  BY <1>10 DEF Claim!Visit, Claim!Expire, ClaimShapes, Claim!TypeOK, HandlersKnow
<1>11. CASE UNCHANGED claimVars
  BY <1>11 DEF claimVars, ClaimShapes, Claim!TypeOK, HandlersKnow
<1>. QED
  BY <1>1, <1>2, <1>3, <1>4, <1>5, <1>6, <1>7, <1>8, <1>9, <1>10, <1>11 DEF Claim!Next, Claim!Handle

-----------------------------------------------------------------------------
(* Assistant: types *)

Turn == [step : Chat!Steps, conv : 0 .. Convs, fresh : BOOLEAN, mode : Chat!Modes, turn : Chat!Tokens, sees : BOOLEAN,
         tools : SUBSET {"read", "write"}, calm : BOOLEAN]

\* What the assistant keeps; of the settings and the presses of Run, nothing runs here.
ChatStore ==
  /\ mode \in Chat!Modes /\ url \in Urls /\ key \in Urls \cup {Chat!NoKey}
  /\ there \subseteq 1 .. Convs /\ made \in 0 .. Convs /\ rows \in [1 .. Convs -> Nat]
  /\ shown \in [Drawers -> 0 .. Convs]
  /\ action \in [Chat!Tokens -> {"none", "new", "old"}]
  /\ ran \in [Chat!Tokens -> Nat] /\ met \subseteq Chat!Tokens
  /\ turns \in 0 .. MaxTurns /\ restarts \in 0 .. MaxRestarts
ChatFlags == torn \in BOOLEAN /\ surprise \in BOOLEAN
Unsent == [step |-> "idle"]
InTurn == chat \in [Drawers -> {Unsent} \cup Turn]
NoClicks == click \in [{} -> [step : {"idle", "find", "delete", "run", "done"}, token : {0} \cup Chat!Tokens]]

ChatTypes == ChatStore /\ ChatFlags /\ InTurn /\ NoClicks

LEMMA ChatTypesSuffice == ChatTypes => Chat!TypeOK
BY DEF ChatTypes, ChatStore, ChatFlags, InTurn, NoClicks, Turn, Unsent, Chat!TypeOK, Chat!Chats, Chat!Idle

LEMMA InitChat == Chat!Init => ChatTypes
<1>. SUFFICES ASSUME Chat!Init PROVE ChatTypes
  OBVIOUS
<1>1. ChatStore
  BY BrowserAssumption DEF Chat!Init, ChatStore, Chat!Modes, Chat!Tokens
<1>2. ChatFlags
  BY DEF Chat!Init, ChatFlags
<1>3. InTurn
  BY DEF Chat!Init, InTurn, Chat!Idle, Unsent
<1>4. NoClicks
  BY DEF Chat!Init, NoClicks, Chat!Unpressed
<1>. QED  BY <1>1, <1>2, <1>3, <1>4 DEF ChatTypes

\* A step of a handler goes on with its turn or answers it.
LEMMA TurnTypes ==
  ASSUME NEW h \in Turn
  PROVE  /\ \A s \in Chat!Steps : [h EXCEPT !.step = s] \in Turn
         /\ \A m \in Chat!Modes : [h EXCEPT !.step = "key", !.mode = m] \in Turn
         /\ \A c \in 0 .. Convs : [h EXCEPT !.step = "user", !.conv = c] \in Turn
         /\ \A b \in BOOLEAN : [h EXCEPT !.step = "ask", !.sees = b] \in Turn
         /\ \A t \in SUBSET {"read", "write"} : [h EXCEPT !.step = "calls", !.tools = t] \in Turn
         /\ [h EXCEPT !.calm = FALSE] \in Turn
<1>. USE DEF Turn, Chat!Steps
<1>1. \A s \in Chat!Steps : [h EXCEPT !.step = s] \in Turn
  OBVIOUS
<1>2. \A m \in Chat!Modes : [h EXCEPT !.step = "key", !.mode = m] \in Turn
  OBVIOUS
<1>3. \A c \in 0 .. Convs : [h EXCEPT !.step = "user", !.conv = c] \in Turn
  OBVIOUS
<1>4. \A b \in BOOLEAN : [h EXCEPT !.step = "ask", !.sees = b] \in Turn
  OBVIOUS
<1>5. \A t \in SUBSET {"read", "write"} : [h EXCEPT !.step = "calls", !.tools = t] \in Turn
  OBVIOUS
<1>6. [h EXCEPT !.calm = FALSE] \in Turn
  OBVIOUS
<1>. QED  BY <1>1, <1>2, <1>3, <1>4, <1>5, <1>6

LEMMA HandleTurns ==
  ASSUME ChatTypes, NEW d \in Drawers, Chat!Handle(d)
  PROVE  InTurn'
<1>. DEFINE h == chat[d]
<1>1. h \in Turn
  BY DEF ChatTypes, InTurn, Unsent, Chat!Handle, Chat!ReadSettings, Chat!ReadKey, Chat!FindConversation,
         Chat!StoreMessage, Chat!Recall, Chat!Ask, Chat!StoreAnswer, Chat!StoreCalls, Chat!Dispatch,
         Chat!StoreResults, Chat!FollowUp, Chat!StoreFollowUp, Chat!Answer, Chat!Store
<1>2. ASSUME NEW g \in Turn \cup {Unsent}, chat' = [chat EXCEPT ![d] = g] PROVE InTurn'
  BY <1>2 DEF ChatTypes, InTurn
<1>3. CASE Chat!Respond(d)
  BY <1>2, <1>3 DEF Chat!Respond, Chat!Idle, Unsent
<1>4. ASSUME NEW s \in Chat!Steps, Chat!Go(d, s) PROVE InTurn'
  BY <1>1, <1>2, <1>4, TurnTypes DEF Chat!Go
<1>5. CASE Chat!ReadSettings(d)
  <2>1. mode \in Chat!Modes
    BY DEF ChatTypes, ChatStore
  <2>2. Chat!Respond(d) \/ chat' = [chat EXCEPT ![d] = [h EXCEPT !.step = "key", !.mode = mode]]
    BY <1>5 DEF Chat!ReadSettings
  <2>3. [h EXCEPT !.step = "key", !.mode = mode] \in Turn
    BY <1>1, <2>1, TurnTypes
  <2>. QED  BY <1>2, <1>3, <2>2, <2>3
<1>6. CASE Chat!ReadKey(d)
  BY <1>3, <1>4, <1>6 DEF Chat!ReadKey, Chat!Steps
<1>7. CASE Chat!FindConversation(d)
  <2>1. made' = made + 1 /\ made < Convs => made' \in 0 .. Convs
    BY BrowserAssumption DEF ChatTypes, ChatStore
  <2>2. CASE made' \in 0 .. Convs /\ chat' = [chat EXCEPT ![d] = [h EXCEPT !.step = "user", !.conv = made']]
    <3>1. [h EXCEPT !.step = "user", !.conv = made'] \in Turn
      BY <1>1, <2>2, TurnTypes
    <3>. QED  BY <1>2, <2>2, <3>1
  <2>3. CASE Chat!Go(d, "user")
    BY <1>4, <2>3 DEF Chat!Steps
  <2>4. CASE chat[d].conv = 0
    BY <1>7, <2>1, <2>2, <2>4 DEF Chat!FindConversation
  <2>5. CASE chat[d].conv # 0
    BY <1>3, <1>7, <2>3, <2>5 DEF Chat!FindConversation
  <2>. QED  BY <2>4, <2>5
<1>8. CASE Chat!Recall(d)
  <2>1. PICK b \in BOOLEAN : chat' = [chat EXCEPT ![d] = [h EXCEPT !.step = "ask", !.sees = b]]
    BY <1>8 DEF Chat!Recall
  <2>. QED  BY <1>1, <1>2, <2>1, TurnTypes
<1>9. CASE Chat!Ask(d)
  <2>1. ASSUME NEW tools \in SUBSET {"read", "write"},
               chat' = [chat EXCEPT ![d] = [h EXCEPT !.step = "calls", !.tools = tools]]
        PROVE  InTurn'
    <3>1. [h EXCEPT !.step = "calls", !.tools = tools] \in Turn
      BY <1>1, TurnTypes
    <3>. QED  BY <1>2, <2>1, <3>1
  <2>2. CASE Chat!Go(d, "answer")
    BY <1>4, <2>2 DEF Chat!Steps
  <2>. QED  BY <1>3, <1>9, <2>1, <2>2 DEF Chat!Ask
<1>10. CASE Chat!StoreMessage(d) \/ Chat!StoreAnswer(d) \/ Chat!StoreCalls(d) \/ Chat!StoreResults(d)
  BY <1>3, <1>4, <1>10 DEF Chat!StoreMessage, Chat!StoreAnswer, Chat!StoreCalls, Chat!StoreResults,
                           Chat!Store, Chat!Steps
<1>11. CASE Chat!Dispatch(d) \/ Chat!FollowUp(d) \/ Chat!StoreFollowUp(d) \/ Chat!Answer(d)
  BY <1>3, <1>4, <1>11 DEF Chat!Dispatch, Chat!FollowUp, Chat!StoreFollowUp, Chat!Answer, Chat!Steps
<1>. QED  BY <1>5, <1>6, <1>7, <1>8, <1>9, <1>10, <1>11 DEF Chat!Handle

LEMMA HandleStores ==
  ASSUME ChatTypes, NEW d \in Drawers, Chat!Handle(d)
  PROVE  ChatStore'
<1>. USE DEF ChatStore
<1>0. ChatStore /\ Convs \in Nat
  BY BrowserAssumption DEF ChatTypes
<1>1. ASSUME NEW n \in Nat, Chat!Insert(d, n) PROVE rows' \in [1 .. Convs -> Nat]
  <2>1. CASE rows' = rows
    BY <1>0, <2>1
  <2>2. ASSUME NEW c \in 1 .. Convs, rows' = [rows EXCEPT ![c] = @ + n] PROVE rows' \in [1 .. Convs -> Nat]
    BY <1>0, <2>2
  <2>. QED  BY <1>0, <1>1, <2>1, <2>2 DEF Chat!Insert
<1>2. ASSUME NEW s, NEW t, NEW n \in Nat, Chat!Store(d, s, n, t) PROVE ChatStore'
  BY <1>0, <1>1, <1>2 DEF Chat!Store, Chat!data, Chat!settings
<1>3. CASE Chat!ReadSettings(d) \/ Chat!ReadKey(d)
  BY <1>0, <1>3 DEF Chat!ReadSettings, Chat!ReadKey, Chat!settings, Chat!others
<1>4. CASE Chat!FindConversation(d)
  <2>1. there' \subseteq 1 .. Convs /\ made' \in 0 .. Convs
    BY <1>0, <1>4 DEF Chat!FindConversation
  <2>. QED  BY <1>0, <1>4, <2>1 DEF Chat!FindConversation, Chat!settings
<1>5. CASE Chat!Recall(d) \/ Chat!Ask(d) \/ Chat!FollowUp(d)
  BY <1>0, <1>5 DEF Chat!Recall, Chat!Ask, Chat!FollowUp, Chat!data, Chat!settings
<1>6. CASE Chat!StoreMessage(d) \/ Chat!StoreAnswer(d) \/ Chat!StoreCalls(d) \/ Chat!StoreResults(d)
  <2>1. 1 \in Nat /\ (IF chat[d].tools = {"read", "write"} THEN 2 ELSE 1) \in Nat
    OBVIOUS
  <2>. QED  BY <1>2, <1>6, <2>1 DEF Chat!StoreMessage, Chat!StoreAnswer, Chat!StoreCalls, Chat!StoreResults
<1>7. CASE Chat!StoreFollowUp(d)
  BY <1>0, <1>1, <1>7 DEF Chat!StoreFollowUp, Chat!data, Chat!settings
<1>8. CASE Chat!Dispatch(d)
  BY <1>0, <1>8 DEF Chat!Dispatch, Chat!settings
<1>9. CASE Chat!Answer(d)
  <2>1. chat[d].conv \in 0 .. Convs
    BY <1>9 DEF Chat!Answer, ChatTypes, InTurn, Turn, Unsent
  <2>2. shown' \in [Drawers -> 0 .. Convs]
    BY <1>0, <1>9, <2>1 DEF Chat!Answer
  <2>. QED  BY <1>0, <1>9, <2>2 DEF Chat!Answer, Chat!settings
<1>. QED  BY <1>3, <1>4, <1>5, <1>6, <1>7, <1>8, <1>9 DEF Chat!Handle

LEMMA NextChat == ChatTypes /\ [Chat!Next]_chatVars => ChatTypes'
<1>. SUFFICES ASSUME ChatTypes, [Chat!Next]_chatVars PROVE ChatTypes'
  OBVIOUS
<1>0. ChatStore /\ ChatFlags /\ InTurn /\ NoClicks
  BY DEF ChatTypes
<1>1. ASSUME NEW d \in Drawers, Chat!Handle(d) PROVE ChatTypes'
  <2>1. NoClicks'
    BY <1>0, <1>1 DEF NoClicks, Chat!Handle, Chat!ReadSettings, Chat!ReadKey, Chat!FindConversation,
                      Chat!StoreMessage, Chat!Recall, Chat!Ask, Chat!StoreAnswer, Chat!StoreCalls,
                      Chat!Dispatch, Chat!StoreResults, Chat!FollowUp, Chat!StoreFollowUp, Chat!Answer,
                      Chat!Store, Chat!data, Chat!others
  <2>2. torn' = torn
    BY <1>1 DEF Chat!Handle, Chat!ReadSettings, Chat!ReadKey, Chat!FindConversation, Chat!StoreMessage,
                Chat!Recall, Chat!Ask, Chat!StoreAnswer, Chat!StoreCalls, Chat!Dispatch, Chat!StoreResults,
                Chat!FollowUp, Chat!StoreFollowUp, Chat!Answer, Chat!Store, Chat!data, Chat!settings
  <2>3. surprise' \in BOOLEAN
    BY <1>0, <1>1 DEF ChatFlags, Chat!Handle, Chat!ReadSettings, Chat!ReadKey, Chat!FindConversation,
                      Chat!StoreMessage, Chat!Recall, Chat!Ask, Chat!StoreAnswer, Chat!StoreCalls,
                      Chat!Dispatch, Chat!StoreResults, Chat!FollowUp, Chat!StoreFollowUp, Chat!Answer,
                      Chat!Store, Chat!data, Chat!others
  <2>. QED  BY <1>0, <1>1, <2>1, <2>2, <2>3, HandleTurns, HandleStores DEF ChatTypes, ChatFlags
<1>2. ASSUME NEW d \in Drawers, Chat!Send(d) PROVE ChatTypes'
  <2>1. PICK calm \in BOOLEAN : chat' = [chat EXCEPT ![d] =
          [step |-> "settings", conv |-> shown[d], fresh |-> shown[d] = 0, mode |-> "off", turn |-> turns',
           sees |-> FALSE, tools |-> {}, calm |-> calm]]
    BY <1>2 DEF Chat!Send
  <2>2. PICK fresh \in BOOLEAN : chat' = [chat EXCEPT ![d] =
          [step |-> "settings", conv |-> shown[d], fresh |-> fresh, mode |-> "off", turn |-> turns',
           sees |-> FALSE, tools |-> {}, calm |-> calm]]
    BY <2>1
  <2>3. turns' \in Chat!Tokens /\ turns' \in 0 .. MaxTurns
    BY <1>0, <1>2, BrowserAssumption DEF Chat!Send, ChatStore, Chat!Tokens
  <2>4. shown[d] \in 0 .. Convs
    BY <1>0 DEF ChatStore
  <2>5. [step |-> "settings", conv |-> shown[d], fresh |-> fresh, mode |-> "off", turn |-> turns',
           sees |-> FALSE, tools |-> {}, calm |-> calm] \in Turn
    BY <2>3, <2>4 DEF Turn, Chat!Steps, Chat!Modes
  <2>6. InTurn'
    BY <1>0, <2>2, <2>5 DEF InTurn
  <2>7. ChatStore'
    BY <1>0, <1>2, <2>3 DEF Chat!Send, ChatStore, Chat!settings
  <2>8. ChatFlags' /\ NoClicks'
    BY <1>0, <1>2 DEF Chat!Send, ChatFlags, NoClicks, Chat!settings
  <2>. QED  BY <2>6, <2>7, <2>8 DEF ChatTypes
<1>3. ASSUME NEW d \in Drawers, Chat!Open(d) \/ Chat!Delete(d) PROVE ChatTypes'
  <2>1. UNCHANGED <<chat, click, torn, surprise>>
    BY <1>3 DEF Chat!Open, Chat!Delete, Chat!settings
  <2>2. ASSUME Chat!Open(d) PROVE ChatStore'
    <3>1. PICK c \in {0} \cup there : shown' = [shown EXCEPT ![d] = c]
      BY <2>2 DEF Chat!Open
    <3>2. c \in 0 .. Convs
      BY <1>0, <3>1, BrowserAssumption DEF ChatStore
    <3>. QED  BY <1>0, <2>2, <3>1, <3>2 DEF Chat!Open, Chat!settings, ChatStore
  <2>3. ASSUME Chat!Delete(d) PROVE ChatStore'
    <3>1. there' \subseteq 1 .. Convs /\ rows' \in [1 .. Convs -> Nat] /\ shown' \in [Drawers -> 0 .. Convs]
      <4>1. shown[d] \in there /\ shown[d] \in 1 .. Convs /\ 0 \in 0 .. Convs
        BY <1>0, <2>3, BrowserAssumption DEF Chat!Delete, ChatStore
      <4>2. there' \subseteq 1 .. Convs
        BY <1>0, <2>3 DEF Chat!Delete, ChatStore
      <4>3. rows' \in [1 .. Convs -> Nat]
        BY <1>0, <2>3, <4>1 DEF Chat!Delete, ChatStore
      <4>4. shown' \in [Drawers -> 0 .. Convs]
        BY <1>0, <2>3, <4>1 DEF Chat!Delete, ChatStore
      <4>. QED  BY <4>2, <4>3, <4>4
    <3>. QED  BY <1>0, <2>3, <3>1 DEF Chat!Delete, Chat!settings, ChatStore
  <2>4. ChatStore'
    BY <1>3, <2>2, <2>3
  <2>. QED  BY <1>0, <2>1, <2>4 DEF ChatTypes, ChatFlags, InTurn, NoClicks
<1>4. CASE Chat!FiveMinutes
  <2>1. ChatStore'
    BY <1>0, <1>4 DEF Chat!FiveMinutes, Chat!settings, ChatStore
  <2>. QED  BY <1>0, <1>4, <2>1 DEF Chat!FiveMinutes, Chat!settings, ChatTypes, ChatFlags, InTurn, NoClicks
<1>5. CASE Chat!Restart
  <2>1. ChatStore'
    BY <1>0, <1>5, BrowserAssumption DEF Chat!Restart, ChatStore
  <2>2. ChatFlags'
    BY <1>0, <1>5 DEF Chat!Restart, ChatFlags
  <2>3. InTurn'
    BY <1>5 DEF Chat!Restart, InTurn, Chat!Idle, Unsent
  <2>4. NoClicks'
    BY <1>5 DEF Chat!Restart, NoClicks
  <2>. QED  BY <2>1, <2>2, <2>3, <2>4 DEF ChatTypes
<1>6. CASE UNCHANGED chatVars
  BY <1>0, <1>6 DEF chatVars, ChatTypes, ChatStore, ChatFlags, InTurn, NoClicks
<1>. QED  BY <1>1, <1>2, <1>3, <1>4, <1>5, <1>6 DEF Chat!Next

-----------------------------------------------------------------------------
(* The five together *)

allVars == <<vars, navVars, streamVars, claimVars, chatVars, scene>>

BrowserInv == SessionInv /\ NavTypes /\ Stream!TypeOK /\ ClaimShapes /\ ChatTypes

LEMMA InitBrowser == MCInit => BrowserInv
BY InitSession, InitNavTypes, InitStream, InitClaim, InitChat DEF MCInit, BrowserInv

LEMMA EachSteps ==
  [MCNext]_allVars =>
    /\ [Next]_vars /\ [Nav!NavNext]_navVars /\ [Stream!Next]_streamVars
    /\ [Claim!Next]_claimVars /\ [Chat!Next]_chatVars
BY DEF MCNext, allVars

LEMMA NextBrowser == BrowserInv /\ [MCNext]_allVars => BrowserInv'
BY EachSteps, NextSession, NextNav, NextStream, NextClaim, NextChat DEF BrowserInv

LEMMA BrowserAlways == MCSpec => []BrowserInv
BY InitBrowser, NextBrowser, PTL DEF MCSpec, allVars

(* A token that the account accepts was issued under the password it has,  *)
(* or raced with its change, and a step of a TOTP code is accepted once    *)
(* (auth.ts issueAccessToken, claimTotpStep, changePassword).              *)
THEOREM AccessIsProved == MCSpec => []AccessProved
<1>1. BrowserInv => BrowserTypeOK
  BY NavTypesSuffice, ChatTypesSuffice DEF BrowserInv, SessionInv, SessionTypes, ClaimShapes, BrowserTypeOK
<1>2. BrowserInv => TokensFollowPassword /\ OncePerStep
  BY DEF BrowserInv, SessionInv, TokensInv
<1>. QED  BY BrowserAlways, <1>1, <1>2, PTL DEF AccessProved

(* A page loses a token the account accepts by logging out, never because  *)
(* a request was refused (api/auth.ts: a 401 drops the token).             *)
THEOREM LiveSessionIsKept == MCSpec => LiveSessionKept
<1>1. BrowserInv /\ [MCNext]_allVars => [KeptStep]_vars
  BY LiveSessionStep, EachSteps DEF BrowserInv
<1>2. MCSpec => [][KeptStep]_vars
  BY BrowserAlways, <1>1, PTL DEF MCSpec, allVars
<1>. QED  BY <1>2 DEF LiveSessionKept, KeptStep
=============================================================================
