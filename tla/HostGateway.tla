---------------------------- MODULE HostGateway ----------------------------
(***************************************************************************)
(* Visitor credentials of one host: routes/host-auth.ts and services/      *)
(* host-auth.ts, which save them and redeploy the tunnel, and services/    *)
(* host-gateway.ts, which signs visitors in against them.  Saves, removals *)
(* and sign-ins overlap: each reads the row, awaits, and goes on from what *)
(* it read.  The tunnel's daemon reads config.yml when it starts and when  *)
(* it is told to, which it is only while its last health check was good.   *)
(***************************************************************************)
EXTENDS Integers, FiniteSets

CONSTANTS Admins,    \* requests of the host's owner that may be under way at once
          Visitors,  \* sign-ins that may be under way at once
          MaxSaves,  \* bound on PUTs: each takes a new updated_at
          MaxActive, \* bound on all of these under way at once
          MaxStep    \* bound on the TOTP steps that pass

VARIABLES row,       \* the host's row of table host_auth
          conf,      \* where config.yml sends the host: to its "origin" or to the "gateway"
          daemon,    \* cloudflared: no child, one whose status is not 'running', or a running one
          edge,      \* where it sends the host: what it has read last
          missed,    \* history: a reload since then was dropped
          adrift,    \* the last deploy was the one of a rollback, and it failed
          saves,     \* the updated_at stamps taken so far
          now,       \* the TOTP step of the clock
          change,    \* the owner's requests
          login,     \* the sign-ins
          cookie,    \* one of the cookies issued: its ep, and what was proved for it
          undone     \* history: a rollback has put a row back

vars == <<row, conf, daemon, edge, missed, adrift, saves, now, change, login, cookie, undone>>

Stamps == 1 .. MaxSaves
Steps == 1 .. MaxStep

NoRow == [id |-> 0, pw |-> 0, totp |-> FALSE, step |-> 0, ep |-> 0]

\* A password is named after the save that set it, a row's id after the one that inserted it.
Row == [id : Stamps, pw : Stamps, totp : BOOLEAN, step : 0 .. MaxStep, ep : Stamps] \cup {NoRow}

Protected == row # NoRow

Idle == [at |-> "idle", prev |-> NoRow, found |-> FALSE,
         pw |-> FALSE, totp |-> "keep", n |-> 0]
Change == [at : {"load", "save", "write", "deploy", "undo", "redeploy"},
           prev : Row, found : BOOLEAN, pw : BOOLEAN, totp : {"keep", "off", "on"},
           n : 0 .. MaxSaves] \cup {Idle}

Away == [at |-> "away", auth |-> NoRow, step |-> 0]
Sign == [at : {"password", "claim", "issue"}, auth : Row, step : 0 .. MaxStep] \cup {Away}

NoCookie == [ep |-> 0, pw |-> 0, totp |-> FALSE, step |-> 0]

TypeOK ==
  /\ row \in Row
  /\ conf \in {"origin", "gateway"} /\ edge \in {"origin", "gateway"}
  /\ daemon \in {"down", "unready", "running"} /\ missed \in BOOLEAN /\ adrift \in BOOLEAN
  /\ saves \in 0 .. MaxSaves /\ now \in Steps
  /\ change \in [Admins -> Change] /\ login \in [Visitors -> Sign]
  /\ cookie \in [ep : Stamps, pw : Stamps, totp : BOOLEAN, step : 0 .. MaxStep] \cup {NoCookie}
  /\ undone \in BOOLEAN

Init ==
  /\ row = NoRow /\ conf = "origin" /\ daemon = "down" /\ edge = "origin"
  /\ missed = FALSE /\ adrift = FALSE
  /\ saves = 0 /\ now = 1
  /\ change = [a \in Admins |-> Idle] /\ login = [v \in Visitors |-> Away]
  /\ cookie = NoCookie /\ undone = FALSE

gatewayVars == <<now, login, cookie>>
routing == <<conf, daemon, edge, missed>>

Goto(a, place) == change' = [change EXCEPT ![a].at = place]
\* The handler goes on to redeploy; of what it has read it needs only the old row.
GoDeploy(a) ==
  change' = [change EXCEPT ![a] = [Idle EXCEPT !.at = "deploy", !.prev = change[a].prev]]
Answer(a) == change' = [change EXCEPT ![a] = Idle]

-----------------------------------------------------------------------------
(* routes/host-auth.ts                                                     *)

Room == Cardinality({a \in Admins : change[a] # Idle})
          + Cardinality({v \in Visitors : login[v] # Away}) < MaxActive

\* Both handlers keep the row as it is before they change it.
Put(a, pw, totp) ==
  /\ change[a] = Idle /\ Room
  /\ change' = [change EXCEPT ![a] = [Idle EXCEPT !.at = "load", !.prev = row,
                                                  !.pw = pw, !.totp = totp]]
  /\ UNCHANGED <<row, routing, adrift, saves, undone, gatewayVars>>

Delete(a) ==
  /\ change[a] = Idle /\ Room
  /\ change' = [change EXCEPT ![a] = [Idle EXCEPT !.at = "write", !.prev = row]]
  /\ UNCHANGED <<row, routing, adrift, saves, undone, gatewayVars>>

\* saveHostAuth reads the row again, refuses a first save without a password, and
\* takes the stamp before it hashes the password.
SaveHostAuth(a) ==
  /\ change[a].at = "load"
  /\ IF Protected \/ change[a].pw
     THEN /\ saves < MaxSaves
          /\ saves' = saves + 1
          /\ change' = [change EXCEPT ![a].at = "save", ![a].n = saves + 1, ![a].found = Protected]
     ELSE Answer(a) /\ UNCHANGED saves
  /\ UNCHANGED <<row, routing, adrift, undone, gatewayVars>>

Patched(old, c) ==
  [old EXCEPT !.pw = IF c.pw THEN c.n ELSE @,
              !.totp = CASE c.totp = "on" -> TRUE [] c.totp = "off" -> FALSE [] OTHER -> @,
              !.step = CASE c.totp = "on" -> now [] c.totp = "off" -> 0 [] OTHER -> @,
              !.ep = c.n]

\* UPDATE finds no row when it has been removed meanwhile; the password was optional.
UpdateRow(a) ==
  /\ change[a].at = "save" /\ change[a].found
  /\ row' = IF Protected THEN Patched(row, change[a]) ELSE row
  /\ GoDeploy(a)
  /\ UNCHANGED <<routing, adrift, saves, undone, gatewayVars>>

\* INSERT is refused when another request has inserted: host_id is unique.
InsertRow(a) ==
  /\ change[a].at = "save" /\ ~ change[a].found
  /\ IF Protected
     THEN Answer(a) /\ UNCHANGED row
     ELSE /\ row' = [Patched(NoRow, change[a]) EXCEPT !.id = change[a].n]
          /\ GoDeploy(a)
  /\ UNCHANGED <<routing, adrift, saves, undone, gatewayVars>>

RemoveHostAuth(a) ==
  /\ change[a].at = "write"
  /\ row' = NoRow
  /\ GoDeploy(a)
  /\ UNCHANGED <<routing, adrift, saves, undone, gatewayVars>>

\* deployHost renders the row it finds, and reload() asks the daemon to read it: without a
\* child there is nobody to ask, and of one that is not 'running' it logs that it did not.
\* The deploy has succeeded either way; one that fails leaves the routing alone.
Deployed(a) ==
  /\ change[a].at \in {"deploy", "redeploy"}
  /\ conf' = IF Protected THEN "gateway" ELSE "origin"
  /\ edge' = IF daemon = "running" THEN conf' ELSE edge
  /\ missed' = CASE daemon = "running" -> FALSE [] daemon = "unready" -> TRUE [] OTHER -> missed
  /\ adrift' = FALSE
  /\ Answer(a)
  /\ UNCHANGED <<row, daemon, saves, undone, gatewayVars>>

DeployFails(a) ==
  /\ change[a].at = "deploy"
  /\ Goto(a, "undo")
  /\ UNCHANGED <<row, routing, adrift, saves, undone, gatewayVars>>

\* rollback: one transaction, then a redeploy whose failure is only logged.
RestoreHostAuth(a) ==
  /\ change[a].at = "undo"
  /\ row' = change[a].prev
  /\ undone' = TRUE
  /\ Goto(a, "redeploy")
  /\ UNCHANGED <<routing, adrift, saves, gatewayVars>>

RedeployFails(a) ==
  /\ change[a].at = "redeploy"
  /\ adrift' = TRUE
  /\ Answer(a)
  /\ UNCHANGED <<row, routing, saves, undone, gatewayVars>>

-----------------------------------------------------------------------------
(* services/host-gateway.ts                                                *)

ownerVars == <<routing, adrift, saves, change, undone>>

\* lookup(): the credentials the sign-in is judged by.
PostLogin(v) ==
  /\ login[v] = Away /\ Room
  /\ Protected
  /\ login' = [login EXCEPT ![v] = [at |-> "password", auth |-> [row EXCEPT !.step = 0], step |-> 0]]
  /\ UNCHANGED <<row, now, cookie, ownerVars>>

\* checkHostLogin, after argon2: the code is tested and its step computed in one turn.
CheckHostLogin(v) ==
  /\ login[v].at = "password"
  /\ \/ login' = [login EXCEPT ![v] = Away]
     \/ /\ ~ login[v].auth.totp
        /\ login' = [login EXCEPT ![v].at = "issue"]
     \/ /\ login[v].auth.totp
        /\ login' = [login EXCEPT ![v].at = "claim", ![v].step = now]
  /\ UNCHANGED <<row, now, cookie, ownerVars>>

\* Mutant of ClaimStep: the UPDATE does not compare the step
ClaimAnyStep(v) ==
  LET won == row.id = login[v].auth.id
  IN /\ login[v].at = "claim"
     /\ row' = IF won THEN [row EXCEPT !.step = login[v].step] ELSE row
     /\ login' = [login EXCEPT ![v] = IF won THEN [@ EXCEPT !.at = "issue"] ELSE Away]
     /\ UNCHANGED <<now, cookie, ownerVars>>

\* The conditional UPDATE names the id of the row that was read.
ClaimStep(v) ==
  LET won == row.id = login[v].auth.id /\ row.step < login[v].step
  IN /\ login[v].at = "claim"
     /\ row' = IF won THEN [row EXCEPT !.step = login[v].step] ELSE row
     /\ login' = [login EXCEPT ![v] = IF won THEN [@ EXCEPT !.at = "issue"] ELSE Away]
     /\ UNCHANGED <<now, cookie, ownerVars>>

CookieFor(l) == [ep |-> l.auth.ep, pw |-> l.auth.pw, totp |-> l.auth.totp, step |-> l.step]

\* Any of the cookies issued may be the one that is looked at.
IssueHostSession(v) ==
  /\ login[v].at = "issue"
  /\ cookie' \in {cookie, CookieFor(login[v])}
  /\ login' = [login EXCEPT ![v] = Away]
  /\ UNCHANGED <<row, now, ownerVars>>

-----------------------------------------------------------------------------
(* cloudflared                                                             *)

\* A new child reads config.yml.
DaemonStarts ==
  /\ daemon = "down" /\ daemon' = "unready"
  /\ edge' = conf /\ missed' = FALSE
  /\ UNCHANGED <<row, conf, adrift, saves, change, undone, gatewayVars>>

\* The health check finds it ready, or no longer so.
HealthCheck ==
  /\ daemon # "down" /\ daemon' = IF daemon = "running" THEN "unready" ELSE "running"
  /\ UNCHANGED <<row, conf, edge, missed, adrift, saves, change, undone, gatewayVars>>

DaemonDies ==
  /\ daemon # "down" /\ daemon' = "down"
  /\ UNCHANGED <<row, conf, edge, missed, adrift, saves, change, undone, gatewayVars>>

-----------------------------------------------------------------------------
Tick ==
  /\ now < MaxStep
  /\ now' = now + 1
  /\ UNCHANGED <<row, login, cookie, ownerVars>>

Owner(a) ==
  \/ \E pw \in BOOLEAN, totp \in {"keep", "off", "on"} : Put(a, pw, totp)
  \/ Delete(a)
  \/ SaveHostAuth(a) \/ UpdateRow(a) \/ InsertRow(a) \/ RemoveHostAuth(a)
  \/ Deployed(a) \/ DeployFails(a) \/ RestoreHostAuth(a) \/ RedeployFails(a)

Visitor(v) == PostLogin(v) \/ CheckHostLogin(v) \/ ClaimStep(v) \/ IssueHostSession(v)

Next ==
  \/ \E a \in Admins : Owner(a)
  \/ \E v \in Visitors : Visitor(v)
  \/ DaemonStarts \/ HealthCheck \/ DaemonDies
  \/ Tick

Spec == Init /\ [][Next]_vars

-----------------------------------------------------------------------------
\* verifyHostSession: the cookie opens the host if its ep is the row's updated_at.
VerifyHostSession == Protected /\ cookie.ep = row.ep

\* Changing the credentials ends the sessions of the old ones, also one issued
\* after the change by a sign-in that had begun before it: a cookie that opens the
\* host was issued for exactly the credentials in force (updated_at as the epoch).
CookieProvesCurrent == VerifyHostSession => cookie.pw = row.pw /\ cookie.totp = row.totp

\* Once no request of the owner is under way, config.yml sends the host to the gateway if
\* and only if it has credentials, and so does cloudflared: the host is neither shown as
\* protected while open, nor routed to a gateway that knows nothing of it.  There are two
\* exceptions.  A rollback's own redeploy may have failed; and a reload may have been
\* dropped, of which nobody is told, so that a child that was not 'running' keeps what it
\* read at its start: a PUT has then answered that a host is protected which is open.
ShownAsRouted ==
  (\A a \in Admins : change[a] = Idle) /\ ~ adrift =>
    /\ Protected <=> conf = "gateway"
    /\ daemon # "down" /\ ~ missed => edge = conf

\* A TOTP step is good for one session of the same credentials, although sign-ins
\* carry its code concurrently and saves rewrite the row beneath them.  The exception
\* is a rollback, which puts back the row's totp_last_step with the rest.
HostStepOnce ==
  [][\A v \in Visitors : IssueHostSession(v) /\ login[v].auth.totp /\ ~ undone
                     /\ login[v].auth.ep = row.ep
       => <<cookie.ep, cookie.step>> # <<login[v].auth.ep, login[v].step>>]_vars

=============================================================================
