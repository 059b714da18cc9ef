---------------------------- MODULE PlayitClaim ----------------------------
(***************************************************************************)
(* Linking a playit account: PlayitPage.tsx asks POST /playit/claim for a  *)
(* code, sends its user to playit.gg to approve it, and polls              *)
(* POST /playit/claim/:code (routes/playit.ts) until the account is        *)
(* linked.  Answers get lost on the way although the handler goes on,      *)
(* playit.gg fails, the code runs out after fifteen minutes, and a restart *)
(* forgets every code.                                                     *)
(***************************************************************************)
EXTENDS Naturals

CONSTANTS Codes,       \* codes made up, 1 .. n
          Requests,    \* requests that can be in the backend at once
          MaxLost,     \* bounds the requests and answers lost between page and backend
          MaxRestarts

VARIABLES
  made,     \* codes made up so far
  pending,  \* pendingClaims
  expired,  \* the codes of which fifteen minutes have gone by
  remote,   \* what playit.gg makes of each code
  accounts, \* the codes an account was created for
  claim,    \* the code the page shows
  loop,     \* the page's polling loop: its code, where it is, the request it waits for
  handler,  \* the handlers of the page's requests, and their answers
  lost, restarts

vars == <<made, pending, expired, remote, accounts, claim, loop, handler, lost, restarts>>

None == 0
NoHandler == [code |-> None, at |-> "none"]
Off == [code |-> None, at |-> "off", on |-> None]
Answers == {"linked", "waiting", "502", "rejected", "refused", "404"}

TypeOK ==
  /\ made \in {0} \cup Codes /\ claim \in {None} \cup Codes
  /\ pending \subseteq Codes /\ expired \subseteq Codes /\ accounts \subseteq Codes
  /\ remote \in [Codes -> {"unvisited", "visited", "accepted", "rejected", "exchanged"}]
  /\ loop \in [code : {None} \cup Codes, at : {"off", "ask", "asked", "pause"}, on : {None} \cup Requests]
  /\ handler \in [Requests -> [code : {None} \cup Codes,
                               at : {"none", "setup", "exchange", "create"} \cup Answers]]
  /\ lost \in 0..MaxLost /\ restarts \in 0..MaxRestarts

Init ==
  /\ made = 0 /\ pending = {} /\ expired = {} /\ accounts = {}
  /\ remote = [c \in Codes |-> "unvisited"]
  /\ claim = None /\ loop = Off /\ handler = [r \in Requests |-> NoHandler]
  /\ lost = 0 /\ restarts = 0

-----------------------------------------------------------------------------
(* The page                                                                *)

\* onStartClaim, and POST /claim; codes that have run out are forgotten.
StartClaim ==
  /\ claim = None /\ made + 1 \in Codes
  /\ made' = made + 1 /\ claim' = made + 1
  /\ pending' = (pending \ expired) \cup {made + 1}
  /\ loop' = [Off EXCEPT !.code = made + 1, !.at = "ask"]
  /\ UNCHANGED <<expired, remote, accounts, handler, lost, restarts>>

\* closeModal: the effect is cleaned up, and a request under way is not waited for.
CloseModal ==
  /\ claim # None /\ claim' = None
  /\ loop' = Off
  /\ UNCHANGED <<made, pending, expired, remote, accounts, handler, lost, restarts>>

Pause == loop' = [loop EXCEPT !.at = "pause", !.on = None]
Stop == claim' = None /\ loop' = Off

\* pollClaim sends; what is lost on the way is a network error, and asked again.
Poll ==
  /\ loop.at = "ask"
  /\ \/ \E r \in Requests :
          /\ handler[r] = NoHandler
          /\ handler' = [handler EXCEPT ![r] =
               [code |-> loop.code, at |-> IF loop.code \in pending \ expired THEN "setup" ELSE "404"]]
          /\ loop' = [loop EXCEPT !.at = "asked", !.on = r] /\ UNCHANGED lost
     \/ lost < MaxLost /\ lost' = lost + 1 /\ Pause /\ UNCHANGED handler
  /\ UNCHANGED <<made, pending, expired, remote, accounts, claim, restarts>>

TwoSeconds ==
  /\ loop.at = "pause" /\ loop' = [loop EXCEPT !.at = "ask"]
  /\ UNCHANGED <<made, pending, expired, remote, accounts, claim, handler, lost, restarts>>

\* The connection of the request breaks; the handler goes on.
LoseAnswer ==
  /\ loop.at = "asked" /\ lost < MaxLost /\ lost' = lost + 1
  /\ Pause
  /\ UNCHANGED <<made, pending, expired, remote, accounts, claim, handler, restarts>>

\* Mutant of AskAgain: a 404 is taken for a backend that is briefly away
AskAgainPatiently(answer) == answer \in {"waiting", "502", "404"}

\* waiting, and an error that passes.
AskAgain(answer) == answer \in {"waiting", "502"}

\* The answer: linked, or an error that is shown, ends the claim.  A loop that was
\* stopped since, or waits for another request, does not hear it.
Receive(r) ==
  /\ handler[r].at \in Answers /\ handler' = [handler EXCEPT ![r] = NoHandler]
  /\ IF loop.on # r THEN UNCHANGED <<claim, loop>>
     ELSE IF AskAgain(handler[r].at) THEN Pause /\ UNCHANGED claim
     ELSE Stop
  /\ UNCHANGED <<made, pending, expired, remote, accounts, lost, restarts>>

-----------------------------------------------------------------------------
(* POST /claim/:code                                                       *)

Answer(r, a) == handler' = [handler EXCEPT ![r].at = a]

\* claimSetup: playit.gg reports what its user has done, refuses, or fails.
ClaimSetup(r) ==
  LET c == handler[r].code
  IN /\ handler[r].at = "setup"
     /\ \/ \E a \in {"502", "refused"} : Answer(r, a) /\ UNCHANGED pending
        \/ /\ remote[c] = "rejected"
           /\ pending' = pending \ {c} /\ Answer(r, "rejected")
        \/ remote[c] \in {"unvisited", "visited"} /\ Answer(r, "waiting") /\ UNCHANGED pending
        \/ remote[c] = "accepted" /\ Answer(r, "exchange") /\ UNCHANGED pending
     /\ UNCHANGED <<made, expired, remote, accounts, claim, loop, lost, restarts>>

\* claimExchange: the secret is given out once, and may not arrive.
ClaimExchange(r) ==
  LET c == handler[r].code
  IN /\ handler[r].at = "exchange"
     /\ \/ \E a \in {"502", "refused"} : Answer(r, a) /\ UNCHANGED <<remote, pending>>
        \/ /\ remote[c] = "accepted" /\ remote' = [remote EXCEPT ![c] = "exchanged"]
           /\ \/ Answer(r, "502") /\ UNCHANGED pending
              \/ Answer(r, "create") /\ pending' = pending \ {c}
     /\ UNCHANGED <<made, expired, accounts, claim, loop, lost, restarts>>

\* createAccount and startAgentFor; an agent that does not start is only
\* logged, an insert that fails is answered with a 500.
CreateAccount(r) ==
  /\ handler[r].at = "create"
  /\ \/ accounts' = accounts \cup {handler[r].code} /\ Answer(r, "linked")
     \/ Answer(r, "refused") /\ UNCHANGED accounts
  /\ UNCHANGED <<made, pending, expired, remote, claim, loop, lost, restarts>>

-----------------------------------------------------------------------------
(* playit.gg's user, time and death                                        *)

Visit(c) ==
  /\ c <= made
  /\ \/ remote[c] = "unvisited" /\ remote' = [remote EXCEPT ![c] = "visited"]
     \/ remote[c] = "visited" /\ \E s \in {"accepted", "rejected"} : remote' = [remote EXCEPT ![c] = s]
  /\ UNCHANGED <<made, pending, expired, accounts, claim, loop, handler, lost, restarts>>

Expire(c) ==
  /\ c <= made /\ c \notin expired /\ expired' = expired \cup {c}
  /\ UNCHANGED <<made, pending, remote, accounts, claim, loop, handler, lost, restarts>>

Restart ==
  /\ restarts < MaxRestarts /\ restarts' = restarts + 1
  /\ pending' = {} /\ handler' = [r \in Requests |-> NoHandler]
  /\ IF loop.at = "asked" THEN Pause ELSE UNCHANGED loop
  /\ UNCHANGED <<made, expired, remote, accounts, claim, lost>>

Handle(r) == ClaimSetup(r) \/ ClaimExchange(r) \/ CreateAccount(r)
Next ==
  \/ StartClaim \/ CloseModal \/ Poll \/ TwoSeconds \/ LoseAnswer
  \/ \E r \in Requests : Handle(r) \/ Receive(r)
  \/ \E c \in Codes : Visit(c) \/ Expire(c)
  \/ Restart

(* The handler's awaits settle, its answer arrives or is lost, the page's  *)
(* timer fires, and fifteen minutes go by.                                 *)
Fairness ==
  /\ WF_vars(Poll \/ TwoSeconds)
  /\ \A r \in Requests : WF_vars(Receive(r) \/ Handle(r))
  /\ \A c \in Codes : WF_vars(Expire(c))

FairSpec == Init /\ [][Next]_vars /\ Fairness

-----------------------------------------------------------------------------
\* The page polls no code for ever (~> in MCBrowser): whatever playit.gg answers, whichever
\* answer is lost and although a restart forgets the code, the claim ends in an account or
\* an error that is shown.
Linking == claim # None

=============================================================================
