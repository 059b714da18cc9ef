----------------------------- MODULE MCBrowser -----------------------------
(***************************************************************************)
(* The panel in a browser and the backend that answers it, for TLC: tokens *)
(* and their session, the way to the page one asked for, the event stream, *)
(* linking a playit account, and the chat with the assistant.  The five    *)
(* modules share no state, so one of them, chosen at the start, runs while *)
(* the others stay at their initial states: every behaviour of each is     *)
(* checked, and the states add up instead of multiplying.  Fairness speaks *)
(* of the one that runs.                                                   *)
(***************************************************************************)
EXTENDS Sessions

CONSTANTS MaxAsked,
          Mounts, MaxDeaths,
          Codes, Requests, MaxLost, MaxRestarts,
          Drawers, Convs, Urls, HistoryLimit, MaxTurns

ASSUME BrowserAssumption == {MaxAsked, MaxDeaths, MaxLost, MaxRestarts, Convs, MaxTurns} \subseteq Nat

VARIABLES scene,
          account, token, page, from, me, status, lists, dismissed, form, overtaken, asked,
          up, signedIn, hook, closed, ticket, bus, deaths,
          cMade, pending, expired, remote, accounts, claim, loop, handler, lost, cRestarts,
          mode, url, key, save, there, made, rows, chat, shown, action, click, ran, turns, restarts,
          torn, met, surprise

Nav == INSTANCE Navigation
Stream == INSTANCE EventStream
Claim == INSTANCE PlayitClaim WITH made <- cMade, restarts <- cRestarts
\* The settings and the confirmed actions are in MCTunnels' scenes.
Chat == INSTANCE Assistant WITH Saves <- {}, Clicks <- {}

navVars == <<account, token, page, from, me, status, lists, dismissed, form, overtaken, asked>>
streamVars == <<up, signedIn, hook, closed, ticket, bus, deaths>>
claimVars == <<cMade, pending, expired, remote, accounts, claim, loop, handler, lost, cRestarts>>
chatVars == <<mode, url, key, save, there, made, rows, chat, shown, action, click, ran, turns,
              restarts, torn, met, surprise>>

MCInit ==
  /\ scene \in {"session", "navigation", "stream", "claim", "chat"}
  /\ Init /\ Nav!NavInit /\ Stream!Init /\ Claim!Init /\ Chat!Init
  /\ scene # "navigation" => account = "none" /\ page = "home"
  /\ scene # "stream" => signedIn = FALSE
  /\ scene # "chat" => key = url

MCNext ==
  /\ UNCHANGED scene
  /\ \/ scene = "session" /\ Next
        /\ UNCHANGED <<navVars, streamVars, claimVars, chatVars>>
     \/ scene = "navigation" /\ Nav!NavNext
        /\ UNCHANGED <<vars, streamVars, claimVars, chatVars>>
     \/ scene = "stream" /\ Stream!Next
        /\ UNCHANGED <<vars, navVars, claimVars, chatVars>>
     \/ scene = "claim" /\ Claim!Next
        /\ UNCHANGED <<vars, navVars, streamVars, chatVars>>
     \/ scene = "chat" /\ Chat!Next
        /\ UNCHANGED <<vars, navVars, streamVars, claimVars>>

\* The fairness of the five modules, each in its scene.
MCFairness ==
  /\ WF_vars(scene = "session" /\ Poll)
  /\ \A c \in Clients : WF_vars(scene = "session" /\ Handle(c))
  /\ WF_navVars(scene = "navigation" /\ (Nav!AnswerMe \/ Nav!ReceiveMe))
  /\ WF_navVars(scene = "navigation" /\ (Nav!AnswerStatus \/ Nav!ReceiveStatus))
  /\ WF_navVars(scene = "navigation" /\ (Nav!RouteGuard \/ Nav!LoginEffect \/ Nav!SetupEffect))
  /\ WF_navVars(scene = "navigation" /\ (Nav!Answers \/ Nav!PasswordLeft))
  /\ \A m \in Mounts : WF_streamVars(scene = "stream" /\ (Stream!Effect(m) \/ Stream!Refused(m)))
  /\ WF_claimVars(scene = "claim" /\ (Claim!Poll \/ Claim!TwoSeconds))
  /\ \A r \in Requests : WF_claimVars(scene = "claim" /\ (Claim!Receive(r) \/ Claim!Handle(r)))
  /\ \A c \in Codes : WF_claimVars(scene = "claim" /\ Claim!Expire(c))
  /\ \A d \in Drawers : WF_chatVars(scene = "chat" /\ Chat!Handle(d))

MCSpec ==
  MCInit /\ [][MCNext]_<<vars, navVars, streamVars, claimVars, chatVars, scene>> /\ MCFairness

-----------------------------------------------------------------------------
\* Every variable of the five modules has its type.
BrowserTypeOK == TypeOK /\ Nav!NavTypeOK /\ Stream!TypeOK /\ Claim!TypeOK /\ Chat!TypeOK

\* Sessions: a token is worth what the password it was issued under is worth, and a TOTP
\* step is accepted once.
AccessProved == BrowserTypeOK /\ TokensFollowPassword /\ OncePerStep

\* Navigation: one gets to where one was going.
GetsIn == Nav!GetsIn

\* EventStream: the events come back, over one stream at a time.
StreamComesBack == []Stream!OneStream /\ Stream!StreamComesBack

\* Nothing in the browser waits for ever: a session that is over is given up (Sessions),
\* the wait for a playit code ends (PlayitClaim), and every message to the assistant is
\* answered (Assistant).
InWait ==
  \/ scene = "session" /\ DeadSession
  \/ scene = "claim" /\ Claim!Linking
  \/ scene = "chat" /\ Chat!Waiting
WaitsEnd == InWait ~> ~InWait

=============================================================================
