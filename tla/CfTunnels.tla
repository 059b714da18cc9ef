----------------------------- MODULE CfTunnels -----------------------------
(***************************************************************************)
(* The cloudflared tunnels of one Cloudflare account: what routes/         *)
(* tunnels.ts, routes/cloudflare.ts, tunnel-teardown.ts and                *)
(* tunnel-manager.ts do, one await after the other, to their rows, their   *)
(* counterparts at Cloudflare, their credential files, their daemons and   *)
(* the DNS target of the hosts on them.  Each request is a script of       *)
(* steps; the steps of two requests interleave.                            *)
(*                                                                         *)
(* How one daemon is supervised, and how overlapping starts and stops of   *)
(* it meet, is CloudflaredProcess and CloudflaredProvider: here stop() is  *)
(* one step and start() ends in one.                                       *)
(***************************************************************************)
EXTENDS Integers, FiniteSets, Sequences

CONSTANTS Rows,     \* ids of table tunnels
          MaxUuid,  \* bound on the tunnels created at Cloudflare
          MaxRequests, \* bound on the requests and restarts
          MaxPurges, \* bound on the purges of credential files under way at once
          Callers   \* requests that may be under way at once, the boot included

VARIABLES uuid,     \* tunnel_id of each row, 0 where there is no row
          account,  \* the account's row exists
          alive,    \* the tunnels that exist at Cloudflare
          files,    \* the credential files /data/cloudflared/<uuid>.json
          slot,     \* the tunnel the cached process of a row was constructed for, or 0
          dns,      \* the tunnel the records of the row's hosts point at
          call,     \* what each request is doing
          purge,    \* the purges of credential files under way: what they keep
          made,     \* tunnels created at Cloudflare so far
          lastRow,  \* the last id given to a row (AUTOINCREMENT)
          asked     \* requests and restarts so far (bound: MaxRequests)

vars == <<uuid, account, alive, files, slot, dns, call, purge, made, lastRow, asked>>

Uuids == 1 .. MaxUuid
None == 0
Known == {uuid[r] : r \in Rows} \ {None}

Start == <<"read", "creds", "launch">>
Redeploy == <<"target", "dns">>

\* The handlers, step by step; those over several rows begin anew for each.
Script ==
  [create   |-> <<"cfCreate", "insert">> \o Start,
   restart  |-> <<"stop">> \o Start,
   sync     |-> <<"stop">> \o Start \o Redeploy,
   redeploy |-> Redeploy,
   recreate |-> <<"stop", "cfDelete", "cfCreate", "swap">> \o Start \o Redeploy,
   delete   |-> <<"stop", "cfDelete", "drop">>,
   account  |-> <<"stop", "cfDelete", "drop">>,
   network  |-> <<"stop">> \o Start,
   boot     |-> Start]

Ops == DOMAIN Script
OverAll == {"account", "network", "boot"}
Idle == [op |-> "none", row |-> None, todo |-> <<>>, more |-> {}, u |-> None,
         old |-> None, alone |-> TRUE, ok |-> TRUE, silent |-> FALSE]

TypeOK ==
  /\ uuid \in [Rows -> {None} \cup Uuids] /\ account \in BOOLEAN
  /\ alive \subseteq Uuids /\ files \subseteq Uuids
  /\ slot \in [Rows -> {None} \cup Uuids] /\ dns \in [Rows -> {None} \cup Uuids]
  /\ \A c \in Callers :
       /\ call[c].op \in Ops \cup {"none"} /\ call[c].row \in Rows \cup {None}
       /\ call[c].more \subseteq Rows /\ call[c].u \in {None} \cup Uuids
       /\ call[c].old \in {None} \cup Uuids /\ {call[c].alone, call[c].ok, call[c].silent} \subseteq BOOLEAN
  /\ purge \subseteq [at : {"select", "delete"}, keep : SUBSET Uuids]
  /\ made \in Uuids /\ lastRow \in Rows /\ asked \in 0 .. MaxRequests

\* One tunnel, up and in use.
Init ==
  LET first == [r \in Rows |-> IF r = 1 THEN 1 ELSE None]
  IN /\ uuid = first /\ account = TRUE
     /\ alive = {1} /\ files = {1} /\ slot = first /\ dns = first
     /\ call = [c \in Callers |-> Idle] /\ purge = {}
     /\ made = 1 /\ lastRow = 1 /\ asked = 0

-----------------------------------------------------------------------------
(* Requests.                                                               *)

Active == {c \in Callers : call[c] # Idle}

\* History: whether two requests touch the same tunnel while both are under way.
Meet(op, r, d) == op \in OverAll \/ call[d].op \in OverAll \/ call[d].row = r

Begin(c, op, r, more) ==
  LET met == {d \in Active : Meet(op, r, d)}
      new == [Idle EXCEPT !.op = op, !.row = r, !.more = more, !.alone = (met = {}),
                          !.todo = IF op \in OverAll THEN <<>> ELSE Script[op],
                          !.old = IF r = None THEN None ELSE uuid[r]]
  IN /\ call[c] = Idle
     /\ asked < MaxRequests /\ asked' = asked + 1
     /\ call' = [d \in Callers |-> IF d = c THEN new
                                   ELSE IF d \in met THEN [call[d] EXCEPT !.alone = FALSE]
                                   ELSE call[d]]
     /\ UNCHANGED <<uuid, account, alive, files, slot, dns, purge, made, lastRow>>

\* POST /:id/restart, /:id/force-sync, /:id/redeploy-all, /:id/recreate, DELETE /:id:
\* findOwnedTunnel joins the account.
OnTunnel(c, op, r) ==
  /\ op \in {"restart", "sync", "redeploy", "recreate", "delete"}
  /\ account /\ uuid[r] # None
  /\ Begin(c, op, r, {})

CreateTunnel(c) == account /\ Begin(c, "create", None, {})

\* DELETE /accounts/:id: destroyTunnelsForAccount lists the rows first.
DeleteAccount(c) ==
  account /\ Begin(c, "account", None, {r \in Rows : uuid[r] # None})

\* PUT /network: restartAll goes through the cached processes.
PutNetwork(c) ==
  Begin(c, "network", None, {r \in Rows : slot[r] # None})

\* What was under way is lost, and initAll starts every row.
Restart ==
  /\ asked < MaxRequests /\ asked' = asked + 1
  /\ slot' = [r \in Rows |-> None]
  /\ purge' = {}
  /\ \E b \in Callers :
       call' = [c \in Callers |->
                  IF c = b THEN [Idle EXCEPT !.op = "boot", !.more = {r \in Rows : uuid[r] # None}]
                  ELSE Idle]
  /\ UNCHANGED <<uuid, account, alive, files, dns, made, lastRow>>

-----------------------------------------------------------------------------
(* Steps.                                                                  *)

At(c, step) == call[c].todo # <<>> /\ Head(call[c].todo) = step

Step(c, x) == call' = [call EXCEPT ![c] = [x EXCEPT !.todo = Tail(call[c].todo)]]

\* A step fails and is logged: the answer says nothing of it.
Silently(c, rest) == call' = [call EXCEPT ![c] = [@ EXCEPT !.silent = TRUE, !.todo = rest]]

\* A step throws.  delete and the account's deletion go on whatever fails; force-sync and
\* recreate catch what stop and start throw, and deploy the hosts all the same; initAll
\* goes to the next row; the others answer with an error.
Fail(c) ==
  LET x == call[c]
  IN CASE x.op \in {"delete", "account"} -> Silently(c, Tail(x.todo))
       [] x.op \in {"sync", "recreate"} /\ Head(x.todo) = "stop" -> Silently(c, Tail(x.todo))
       [] x.op \in {"sync", "recreate"} /\ Head(x.todo) = "read" -> Silently(c, Redeploy)
       [] x.op = "boot" -> Silently(c, <<>>)
       [] OTHER -> call' = [call EXCEPT ![c] = [x EXCEPT !.ok = FALSE, !.todo = <<>>, !.more = {}]]

\* Mutant of Stop: the process stays in the cache
StopCached(c) ==
  LET r == call[c].row
  IN /\ At(c, "stop")
     /\ IF uuid[r] # None \/ call[c].op = "network" THEN Step(c, call[c]) ELSE Fail(c)
     /\ UNCHANGED <<uuid, account, alive, files, slot, dns, purge, made, lastRow, asked>>

\* stopTunnel looks the provider up in the row; restartAll does not.
Stop(c) ==
  LET r == call[c].row
  IN /\ At(c, "stop")
     /\ IF uuid[r] # None \/ call[c].op = "network"
        THEN slot' = [slot EXCEPT ![r] = None] /\ Step(c, call[c])
        ELSE Fail(c) /\ UNCHANGED slot
     /\ UNCHANGED <<uuid, account, alive, files, dns, purge, made, lastRow, asked>>

\* Best effort: a failure is logged, whether or not Cloudflare has deleted the tunnel.
CfDelete(c) ==
  /\ At(c, "cfDelete")
  /\ \/ account /\ alive' = alive \ {call[c].old} /\ Step(c, call[c])
     \/ alive' \in {alive, alive \ {call[c].old}} /\ Silently(c, Tail(call[c].todo))
  /\ UNCHANGED <<uuid, account, files, slot, dns, purge, made, lastRow, asked>>

\* A create that fails for its caller may have taken effect.
CfCreate(c) ==
  /\ At(c, "cfCreate")
  /\ \/ /\ made < MaxUuid
        /\ made' = made + 1
        /\ alive' = alive \cup {made + 1}
        /\ Step(c, [call[c] EXCEPT !.u = made + 1]) \/ Fail(c)
     \/ UNCHANGED <<made, alive>> /\ Fail(c)
  /\ UNCHANGED <<uuid, account, files, slot, dns, purge, lastRow, asked>>

\* Refused by the foreign key when the account has been deleted.  Bound: Rows.
Insert(c) ==
  /\ At(c, "insert")
  /\ IF account
     THEN /\ lastRow + 1 \in Rows
          /\ lastRow' = lastRow + 1
          /\ uuid' = [uuid EXCEPT ![lastRow + 1] = call[c].u]
          /\ Step(c, [call[c] EXCEPT !.row = lastRow + 1])
     ELSE Fail(c) /\ UNCHANGED <<uuid, lastRow>>
  /\ UNCHANGED <<account, alive, files, slot, dns, purge, made, asked>>

\* The UPDATE of recreate; it finds no row when that was deleted meanwhile.
Swap(c) ==
  LET r == call[c].row
  IN /\ At(c, "swap")
     /\ uuid' = [uuid EXCEPT ![r] = IF @ = None THEN None ELSE call[c].u]
     /\ Step(c, call[c])
     /\ UNCHANGED <<account, alive, files, slot, dns, purge, made, lastRow, asked>>

\* Providers' start() goes on from the row as it is read here.
Read(c) ==
  LET r == call[c].row
  IN /\ At(c, "read")
     /\ IF uuid[r] # None THEN Step(c, [call[c] EXCEPT !.u = uuid[r]]) ELSE Fail(c)
     /\ UNCHANGED <<uuid, account, alive, files, slot, dns, purge, made, lastRow, asked>>

\* start() ends without a daemon, and without an error, when the credentials cannot be
\* read or written or the config not rendered: the row says that a relink is needed.
ParkTunnel(c) ==
  /\ \E step \in {"creds", "launch"} :
       /\ At(c, step)
       /\ Silently(c, SubSeq(call[c].todo, IF step = "creds" THEN 3 ELSE 2, Len(call[c].todo)))
  /\ UNCHANGED <<uuid, account, alive, files, slot, dns, purge, made, lastRow, asked>>

\* ensureCredentialsFile; nobody awaits the purge.
WriteCreds(c) ==
  /\ At(c, "creds")
  /\ Cardinality(purge) < MaxPurges
  /\ files' = files \cup {call[c].u}
  /\ purge' = purge \cup {[at |-> "select", keep |-> {call[c].u}]}
  /\ Step(c, call[c])
  /\ UNCHANGED <<uuid, account, alive, slot, dns, made, lastRow, asked>>

\* A cached process is started as it was constructed.
Launch(c) ==
  LET r == call[c].row
  IN /\ At(c, "launch")
     /\ slot' = [slot EXCEPT ![r] = IF @ = None THEN call[c].u ELSE @]
     /\ Step(c, call[c])
     /\ UNCHANGED <<uuid, account, alive, files, dns, purge, made, lastRow, asked>>

\* deployHost of the row's hosts: addHost names the target.  They lost their tunnel_id
\* with the row.
Target(c) ==
  LET r == call[c].row
  IN /\ At(c, "target")
     /\ IF uuid[r] # None THEN Step(c, [call[c] EXCEPT !.u = uuid[r]])
        ELSE call' = [call EXCEPT ![c].todo = <<>>]
     /\ UNCHANGED <<uuid, account, alive, files, slot, dns, purge, made, lastRow, asked>>

\* The record is written, or the error is listed in the answer.
WriteDns(c) ==
  /\ At(c, "dns")
  /\ \/ dns' = [dns EXCEPT ![call[c].row] = call[c].u] /\ Step(c, call[c])
     \/ Fail(c) /\ UNCHANGED dns
  /\ UNCHANGED <<uuid, account, alive, files, slot, purge, made, lastRow, asked>>

Drop(c) ==
  /\ At(c, "drop")
  /\ uuid' = [uuid EXCEPT ![call[c].row] = None]
  /\ Step(c, call[c])
  /\ UNCHANGED <<account, alive, files, slot, dns, purge, made, lastRow, asked>>

\* The loops of destroyTunnelsForAccount, restartAll and initAll.
NextRow(c) ==
  LET x == call[c]
  IN /\ x.todo = <<>>
     /\ \E r \in x.more :
          call' = [call EXCEPT ![c] = [x EXCEPT !.row = r, !.more = x.more \ {r}, !.old = uuid[r],
                                                !.todo = Script[x.op]]]
     /\ UNCHANGED <<uuid, account, alive, files, slot, dns, purge, made, lastRow, asked>>

\* The request is answered; deleting the account takes the rows that are left with it.
Answer(c) ==
  LET gone == call[c].op = "account"
  IN /\ call[c].op # "none" /\ call[c].todo = <<>> /\ call[c].more = {}
     /\ call' = [call EXCEPT ![c] = Idle]
     /\ account' = (account /\ ~ gone)
     /\ uuid' = IF gone THEN [r \in Rows |-> None] ELSE uuid
     /\ UNCHANGED <<alive, files, slot, dns, purge, made, lastRow, asked>>

\* purgeStaleCredFiles asks for the tunnels it knows, then lists the directory.
PurgeSelect(p) ==
  /\ p.at = "select"
  /\ purge' = (purge \ {p}) \cup {[at |-> "delete", keep |-> p.keep \cup Known]}
  /\ UNCHANGED <<uuid, account, alive, files, slot, dns, call, made, lastRow, asked>>

PurgeDelete(p) ==
  /\ p.at = "delete"
  /\ files' = files \cap p.keep
  /\ purge' = purge \ {p}
  /\ UNCHANGED <<uuid, account, alive, slot, dns, call, made, lastRow, asked>>

Handle(c) ==
  \/ Stop(c) \/ CfDelete(c) \/ CfCreate(c) \/ Insert(c) \/ Swap(c)
  \/ Read(c) \/ ParkTunnel(c) \/ WriteCreds(c) \/ Launch(c) \/ Target(c) \/ WriteDns(c)
  \/ Drop(c) \/ NextRow(c) \/ Answer(c)

Next ==
  \/ \E c \in Callers :
       \/ CreateTunnel(c) \/ DeleteAccount(c) \/ PutNetwork(c)
       \/ \E op \in Ops, r \in Rows : OnTunnel(c, op, r)
       \/ Handle(c)
  \/ \E p \in purge : PurgeSelect(p) \/ PurgeDelete(p)
  \/ Restart

Spec == Init /\ [][Next]_vars

-----------------------------------------------------------------------------
(* Properties.                                                             *)

\* The daemon of the row runs the tunnel the row names.
Runs(r) == uuid[r] # None /\ slot[r] = uuid[r]

\* A request that no other met on its tunnel, and that reports no error, has done what
\* it was asked, whatever earlier requests, failures and restarts left behind: after a
\* create, restart, force-sync or recreate the daemon runs the tunnel of the row, or, if
\* start() parked the tunnel, there is none: never one of another tunnel ("live and
\* running but page not found", provider.ts).  After a force-sync or a recreate the hosts'
\* records point at the row's tunnel too; a recreate has replaced the old one, which is
\* left at Cloudflare only if its deletion failed; and so it is after deleting a tunnel or
\* its account, which leave neither row nor daemon.
EndsAsAsked ==
  [][\A c \in Callers : (Answer(c) \/ Drop(c)) /\ call[c].ok /\ call[c].alone =>
       LET x == call[c]
       IN /\ x.op \in {"create", "restart", "sync", "recreate"} =>
               Runs(x.row) \/ (x.silent /\ uuid[x.row] # None /\ slot[x.row] = None)
          /\ x.op \in {"sync", "recreate"} => dns[x.row] = uuid[x.row]
          /\ x.op = "recreate" => uuid[x.row] \in alive /\ (x.silent \/ x.old \notin alive)
          /\ x.op \in {"delete", "account"} /\ x.row # None =>
               uuid'[x.row] = None /\ slot[x.row] = None /\ (x.silent \/ x.old \notin alive)]_vars

=============================================================================
