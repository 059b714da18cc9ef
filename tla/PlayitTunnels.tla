--------------------------- MODULE PlayitTunnels ---------------------------
(***************************************************************************)
(* One playit account: its tunnel rows (routes/tunnels.ts, routes/         *)
(* playit.ts, playit-account.ts), the agent process they share, and the    *)
(* tunnels that tunnel-providers/playit/provider.ts creates at playit.gg   *)
(* for the hosts on row 1.  A row's provider_meta is one JSON value: it is *)
(* read in one await and written back in another.                          *)
(***************************************************************************)
EXTENDS Integers, FiniteSets

CONSTANTS Rows,     \* ids of the account's tunnel rows, from 1 on
          Hosts,    \* the hosts on row 1
          Origins,  \* forward targets a host may have
          Tunnels,  \* bound on the tunnels created at playit, 1 .. n
          Clients,  \* requests that may be under way at once
          Asked     \* bound on the requests

VARIABLES row,      \* the rows that exist
          lastRow,  \* the last id given to one
          account,  \* the account's row exists
          origin,   \* the forward target in each host's row
          meta,     \* row 1's provider_meta.hosts
          made,     \* the tunnels created there so far
          remote,   \* playit's tunnels: their host and origin
          agent,    \* the process map has an agent for the account
          seen,     \* playit has seen the agent: no AgentVersionTooOld any more
          job,      \* what each request is doing
          lost,     \* history: tunnels whose loss is explained (see NoPortBurnt)
          asked

vars == <<row, lastRow, account, origin, meta, made, remote, agent, seen, job, lost, asked>>

None == 0
NoTunnel == [host |-> None, origin |-> None]
Idle == [op |-> "none", at |-> "idle", key |-> None, want |-> None, u |-> None,
         copy |-> [h \in Hosts |-> None], saved |-> FALSE, alone |-> TRUE, ok |-> TRUE,
         silent |-> FALSE, more |-> {}]

TypeOK ==
  /\ row \subseteq Rows /\ lastRow \in Rows /\ account \in BOOLEAN
  /\ origin \in [Hosts -> Origins] /\ meta \in [Hosts -> {None} \cup Tunnels]
  /\ remote \in [Tunnels -> {NoTunnel} \cup [host : Hosts, origin : Origins]]
  /\ made \in {0} \cup Tunnels /\ agent \in BOOLEAN /\ seen \in BOOLEAN /\ lost \subseteq Tunnels
  /\ \A c \in Clients :
       /\ job[c].op \in {"none", "deploy", "undeploy", "create", "delete", "unlink"}
       /\ job[c].copy \in [Hosts -> {None} \cup Tunnels] /\ job[c].u \in {None} \cup Tunnels
       /\ job[c].more \subseteq Rows /\ {job[c].ok, job[c].silent, job[c].alone} \subseteq BOOLEAN

\* An account is linked, with the row that ensurePlayitTunnelRow has given it.
Init ==
  /\ row = {1} /\ lastRow = 1 /\ account = TRUE
  /\ origin \in [Hosts -> Origins]
  /\ meta = [h \in Hosts |-> None] /\ made = 0 /\ remote = [u \in Tunnels |-> NoTunnel]
  /\ agent = TRUE /\ seen = FALSE
  /\ job = [c \in Clients |-> Idle] /\ lost = {} /\ asked = 0

Exists(u) == u # None /\ remote[u] # NoTunnel
rowVars == <<row, lastRow, account, made>>
At(c, place) == job[c].at = place
Goto(c, x, place) == job' = [job EXCEPT ![c] = [x EXCEPT !.at = place]]

\* A step fails, and the request with it; or it is logged, and the request goes on.
Fail(c) == Goto(c, [job[c] EXCEPT !.ok = FALSE], "answer")
Silently(c, place) == Goto(c, [job[c] EXCEPT !.silent = TRUE], place)

\* History: requests that meet on the account are not alone.
Begin(c, new) ==
  LET active == {d \in Clients : job[d] # Idle}
  IN /\ job[c] = Idle /\ asked < Asked /\ asked' = asked + 1
     /\ job' = [d \in Clients |->
                  IF d = c THEN [new EXCEPT !.alone = (active = {})]
                  ELSE IF d \in active THEN [job[d] EXCEPT !.alone = FALSE] ELSE job[d]]

-----------------------------------------------------------------------------
(* addHost: deployHost after an edit, a toggle or a redeploy.              *)

\* The host's row may have been edited before; deployHost goes on from it as it is.
Deploy(c, h) ==
  \E o \in Origins :
    /\ 1 \in row
    /\ origin' = [origin EXCEPT ![h] = o]
    /\ Begin(c, [Idle EXCEPT !.op = "deploy", !.at = "load", !.key = h, !.want = o])
    /\ UNCHANGED <<rowVars, meta, remote, agent, seen, lost>>

\* loadTunnelContext.
Load(c) ==
  /\ At(c, "load")
  /\ IF 1 \in row /\ account
     THEN Goto(c, [job[c] EXCEPT !.u = meta[job[c].key]],
               IF meta[job[c].key] = None THEN "create" ELSE "find")
     ELSE Fail(c)
  /\ UNCHANGED <<rowVars, origin, meta, remote, agent, seen, lost, asked>>

\* The tunnel of the last deploy is reused, deleted, or gone; without an answer of
\* playit the deploy fails.
Find(c) ==
  LET u == job[c].u
  IN /\ At(c, "find")
     /\ \/ /\ Exists(u) /\ remote[u].origin = job[c].want
           /\ Goto(c, job[c], "alloc")
        \/ /\ Exists(u) /\ remote[u].origin # job[c].want
           /\ Goto(c, job[c], "replace")
        \/ ~ Exists(u) /\ Goto(c, job[c], "create")
        \/ Fail(c)
     /\ UNCHANGED <<rowVars, origin, meta, remote, agent, seen, lost, asked>>

\* Whether playit has done it is not known from a call that fails: it may have been aborted
\* after 15 seconds.
Replace(c) ==
  /\ At(c, "replace")
  /\ \/ /\ Exists(job[c].u)
        /\ remote' = [remote EXCEPT ![job[c].u] = NoTunnel]
        /\ Goto(c, job[c], "create") \/ Fail(c)
     \/ Fail(c) /\ UNCHANGED remote
  /\ UNCHANGED <<rowVars, origin, meta, agent, seen, lost, asked>>

\* Mutant of CreateRemote: the tunnel is saved when its address is known
CreateUnsaved(c) ==
  /\ At(c, "create") /\ seen /\ made + 1 \in Tunnels
  /\ made' = made + 1
  /\ remote' = [remote EXCEPT ![made + 1] = [host |-> job[c].key, origin |-> job[c].want]]
  /\ Goto(c, [job[c] EXCEPT !.u = made + 1], "alloc")
  /\ UNCHANGED <<row, lastRow, account, origin, meta, agent, seen, lost, asked>>

\* Bound: Tunnels.
CreateRemote(c) ==
  /\ At(c, "create") /\ seen /\ made + 1 \in Tunnels
  /\ made' = made + 1
  /\ remote' = [remote EXCEPT ![made + 1] = [host |-> job[c].key, origin |-> job[c].want]]
  /\ Goto(c, [job[c] EXCEPT !.u = made + 1, !.saved = FALSE], "read")
  /\ UNCHANGED <<row, lastRow, account, origin, meta, agent, seen, lost, asked>>

\* Any other error, or the agent does not connect in time.  History: a tunnel that was
\* created all the same is known to nobody.
CreateFails(c) ==
  /\ At(c, "create") /\ Fail(c)
  /\ \/ UNCHANGED <<made, remote, lost>>
     \/ /\ seen /\ made + 1 \in Tunnels
        /\ made' = made + 1
        /\ remote' = [remote EXCEPT ![made + 1] = [host |-> job[c].key, origin |-> job[c].want]]
        /\ lost' = lost \cup {made + 1}
  /\ UNCHANGED <<row, lastRow, account, origin, meta, agent, seen, asked>>

\* AgentVersionTooOld: start() the agent and try again.
StartAgent(c) ==
  /\ At(c, "create") /\ ~ seen
  /\ IF 1 \in row /\ account
     THEN agent' = TRUE /\ UNCHANGED job
     ELSE Fail(c) /\ UNCHANGED agent
  /\ UNCHANGED <<rowVars, origin, meta, remote, seen, lost, asked>>

AgentConnects ==
  /\ agent /\ ~ seen /\ seen' = TRUE
  /\ UNCHANGED <<rowVars, origin, meta, remote, agent, job, lost, asked>>

\* persistHostAssignment, once the tunnel is created and once its address is known.
ReadMeta(c) ==
  /\ At(c, "read")
  /\ IF 1 \in row THEN Goto(c, [job[c] EXCEPT !.copy = meta], "write")
     ELSE Goto(c, [job[c] EXCEPT !.saved = TRUE], IF job[c].saved THEN "answer" ELSE "alloc")
  /\ lost' = IF 1 \in row THEN lost ELSE lost \cup {job[c].u}
  /\ UNCHANGED <<rowVars, origin, meta, remote, agent, seen, asked>>

\* History: what another request has written since is overwritten.
Overwritten(new) == {meta[h] : h \in Hosts} \ ({None} \cup {new[h] : h \in Hosts})

WriteMeta(c) ==
  LET new == [job[c].copy EXCEPT ![job[c].key] = job[c].u]
  IN /\ At(c, "write")
     /\ meta' = IF 1 \in row THEN new ELSE meta
     /\ lost' = lost \cup (IF 1 \in row THEN Overwritten(new) ELSE {job[c].u})
     /\ Goto(c, [job[c] EXCEPT !.saved = TRUE, !.copy = Idle.copy],
             IF job[c].saved THEN "answer" ELSE "alloc")
     /\ UNCHANGED <<rowVars, origin, remote, agent, seen, asked>>

\* waitForAllocation: the tunnel gets its address, or it is gone, disabled or late.
Allocated(c) ==
  /\ At(c, "alloc")
  /\ \/ Exists(job[c].u) /\ Goto(c, [job[c] EXCEPT !.saved = TRUE], "read")
     \/ Fail(c)
  /\ UNCHANGED <<rowVars, origin, meta, remote, agent, seen, lost, asked>>

-----------------------------------------------------------------------------
(* removeHost.                                                             *)

\* The host is disabled or deleted; its deploy may still be under way.
Undeploy(c, h) ==
  /\ 1 \in row
  /\ Begin(c, IF meta[h] = None
              THEN [Idle EXCEPT !.op = "undeploy", !.at = "answer", !.key = h]
              ELSE [Idle EXCEPT !.op = "undeploy", !.at = "remove", !.key = h,
                                !.u = meta[h], !.copy = [meta EXCEPT ![h] = None]])
  /\ UNCHANGED <<rowVars, origin, meta, remote, agent, seen, lost>>

\* A failure is logged, and the assignment forgotten with the rest.
DeleteRemote(c) ==
  LET u == job[c].u
  IN /\ At(c, "remove")
     /\ \/ /\ account
           /\ remote' = [remote EXCEPT ![u] = NoTunnel]
           /\ Goto(c, job[c], "forget") /\ UNCHANGED lost
        \/ /\ lost' = lost \cup {u}
           /\ remote' \in {remote, [remote EXCEPT ![u] = NoTunnel]}
           /\ Silently(c, "forget")
     /\ UNCHANGED <<rowVars, origin, meta, agent, seen, asked>>

\* The meta that was read before the call to playit is written back.
Forget(c) ==
  /\ At(c, "forget")
  /\ meta' = IF 1 \in row THEN job[c].copy ELSE meta
  /\ lost' = lost \cup Overwritten(job[c].copy)
  /\ Goto(c, job[c], "answer")
  /\ UNCHANGED <<rowVars, origin, remote, agent, seen, asked>>

-----------------------------------------------------------------------------
(* Rows and the shared agent.                                              *)

\* POST /tunnels for playit inserts a row and starts it.
CreateRow(c) ==
  /\ account /\ lastRow + 1 \in Rows
  /\ Begin(c, [Idle EXCEPT !.op = "create", !.at = "start", !.key = lastRow + 1])
  /\ lastRow' = lastRow + 1 /\ row' = row \cup {lastRow + 1}
  /\ UNCHANGED <<made, account, origin, meta, remote, agent, seen, lost>>

\* start(): the row and its account must be there still, and the secret readable.  What it
\* throws is logged, and the new row is answered.
StartRow(c) ==
  /\ At(c, "start")
  /\ \/ job[c].key \in row /\ account /\ agent' = TRUE /\ Goto(c, job[c], "answer")
     \/ Silently(c, "answer") /\ UNCHANGED agent
  /\ UNCHANGED <<rowVars, origin, meta, remote, seen, lost, asked>>

DeleteRow(c, r) ==
  /\ account /\ r \in row
  /\ Begin(c, [Idle EXCEPT !.op = "delete", !.at = "stop", !.key = r])
  /\ UNCHANGED <<rowVars, origin, meta, remote, agent, seen, lost>>

\* DELETE /accounts/:id lists the rows of the account.
Unlink(c) ==
  /\ account
  /\ Begin(c, [Idle EXCEPT !.op = "unlink", !.at = "next", !.more = row])
  /\ UNCHANGED <<rowVars, origin, meta, remote, agent, seen, lost>>

NextRow(c) ==
  /\ At(c, "next")
  /\ IF job[c].more = {}
     THEN account' = FALSE /\ Goto(c, job[c], "answer")
     ELSE /\ UNCHANGED account
          /\ \E r \in job[c].more :
               Goto(c, [job[c] EXCEPT !.key = r, !.more = @ \ {r}], "stop")
  /\ UNCHANGED <<made, row, lastRow, origin, meta, remote, agent, seen, lost, asked>>

\* stop() ends the agent unless another row uses the account; what it throws, when the row
\* has been deleted meanwhile or the secret is unreadable, destroyTunnel logs.
StopRow(c) ==
  /\ At(c, "stop")
  /\ \/ /\ job[c].key \in row
        /\ agent' = (agent /\ row # {job[c].key})
        /\ Goto(c, job[c], "drop")
     \/ Silently(c, "drop") /\ UNCHANGED agent
  /\ UNCHANGED <<rowVars, origin, meta, remote, seen, lost, asked>>

\* The tunnels at playit are left to the removal of their hosts, which finds no row.
DropRow(c) ==
  LET r == job[c].key
  IN /\ At(c, "drop")
     /\ row' = row \ {r}
     /\ meta' = IF r = 1 THEN Idle.copy ELSE meta
     /\ lost' = IF r = 1 THEN lost \cup Overwritten(Idle.copy) ELSE lost
     /\ Goto(c, job[c], IF job[c].op = "unlink" THEN "next" ELSE "answer")
     /\ UNCHANGED <<made, lastRow, account, origin, remote, agent, seen, asked>>

Answer(c) ==
  /\ At(c, "answer")
  /\ job' = [job EXCEPT ![c] = Idle]
  /\ UNCHANGED <<rowVars, origin, meta, remote, agent, seen, lost, asked>>

\* The backend is restarted: initAll gives an account without a row one again and
\* starts the agent, or logs that it cannot.  History: a tunnel that nobody has recorded
\* yet is lost.
Restart ==
  /\ asked < Asked /\ asked' = asked + 1
  /\ lost' = lost \cup {u \in Tunnels : Exists(u) /\ \A h \in Hosts : meta[h] # u}
  /\ job' = [c \in Clients |-> Idle]
  /\ IF account /\ row = {}
     THEN /\ lastRow + 1 \in Rows
          /\ lastRow' = lastRow + 1 /\ row' = {lastRow + 1}
     ELSE UNCHANGED <<row, lastRow>>
  /\ agent' \in {FALSE, account /\ row' # {}}
  /\ UNCHANGED <<made, account, origin, meta, remote, seen>>

Handle(c) ==
  \/ Load(c) \/ Find(c) \/ Replace(c) \/ CreateRemote(c) \/ CreateFails(c) \/ StartAgent(c)
  \/ ReadMeta(c) \/ WriteMeta(c) \/ Allocated(c) \/ DeleteRemote(c) \/ Forget(c)
  \/ StartRow(c) \/ NextRow(c) \/ StopRow(c) \/ DropRow(c) \/ Answer(c)

Next ==
  \/ \E c \in Clients :
       \/ \E h \in Hosts : Deploy(c, h) \/ Undeploy(c, h)
       \/ CreateRow(c) \/ Unlink(c)
       \/ \E r \in Rows : DeleteRow(c, r)
       \/ Handle(c)
  \/ AgentConnects
  \/ Restart

Spec == Init /\ [][Next]_vars

-----------------------------------------------------------------------------
(* Properties.                                                             *)

InHand(u) == \E c \in Clients : job[c].u = u

\* Ports at playit are few: every tunnel there is the recorded one of its host, or in
\* the hand of a request, however deploys and removals end and overlap.  The losses
\* that the code accepts are in history variable lost: a create that took effect although
\* its answer was lost, a delete that failed, a row deleted under its hosts, a death
\* between create and save, and a provider_meta written back over a newer one.
NoPortBurnt ==
  \A u \in Tunnels : Exists(u) /\ u \notin lost => InHand(u) \/ \E h \in Hosts : meta[h] = u

\* A request that met no other on the account and reports no error has done what it
\* was asked.  After a deploy the host has a recorded tunnel, with the origin of its row;
\* after its removal it has none, recorded or at playit, but for those of accepted losses.
\* A new row has a running agent and the last row takes the agent with it, unless the
\* request swallowed the failure of a start or a stop.
PlayitEndsAsAsked ==
  [][\A c \in Clients : (Answer(c) \/ DropRow(c)) /\ job[c].ok /\ job[c].alone =>
       LET h == job[c].key
       IN CASE job[c].op = "deploy" -> Exists(meta[h]) /\ remote[meta[h]].host = h
                                         /\ remote[meta[h]].origin = origin[h]
            [] job[c].op = "undeploy" ->
                 meta[h] = None /\ \A u \in Tunnels : Exists(u) /\ remote[u].host = h => u \in lost
            [] job[c].op = "create" -> h \in row /\ (agent \/ job[c].silent)
            [] OTHER -> row' = {} /\ row # {} => ~ agent \/ job[c].silent]_vars

\* A redeploy takes up the tunnel it has while the origin is the same: a create finds
\* no recorded tunnel of that host and origin, unless requests have met.
ReusesTunnel ==
  [][\A c \in Clients : CreateRemote(c) /\ job[c].alone =>
       LET u == meta[job[c].key] IN ~ (Exists(u) /\ remote[u].origin = job[c].want)]_vars

=============================================================================
