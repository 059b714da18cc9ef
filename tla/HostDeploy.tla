----------------------------- MODULE HostDeploy -----------------------------
(***************************************************************************)
(* services/host-deploy.ts and routes/hosts.ts for hosts published through *)
(* cloudflared: the host's row, its CNAME at Cloudflare, the config.yml    *)
(* rendered by cloudflared/config-writer.ts, and the daemons that read it. *)
(*                                                                         *)
(* A handler answers before its deploy is through, and Node runs another   *)
(* one at every await, so a request is its handler with everything it      *)
(* leaves running.  A step is what happens between two awaits, or a call   *)
(* to Cloudflare at the moment it takes effect.  Rows are abstracted to    *)
(* the columns that decide something; a forward target is its revision.    *)
(* Diagnostics after a deploy only add to last_error and are left out.     *)
(***************************************************************************)
EXTENDS Naturals, Sequences

CONSTANTS
    Host,      \* hostnames, each with at most one row
    Tunnel,    \* cloudflared tunnels
    Zone,      \* Cloudflare zones a host may be published in
    Rev,       \* revisions of a forward target
    Request,   \* requests that can be under way at once
    Kinds,     \* what they ask for
    Input,     \* what forms ask for
    Installed, \* the sets of hosts that may be there at first, deployed
    Faults,    \* "dns" (a call to Cloudflare), "disk" (a write of config.yml),
               \* "status" (a reload comes while a daemon is not reported running)
    MaxOps     \* bound: requests in a behaviour

ASSUME ConstantsAssumption ==
    /\ Rev \subseteq Nat \ {0}
    /\ Kinds \subseteq {"create", "edit", "toggle", "redeploy", "delete"}
    /\ Faults \subseteq {"dns", "disk", "status"}
    /\ Input \subseteq [tunnel : Tunnel, zone : Zone, rev : Rev]
    /\ MaxOps \in Nat
    /\ Installed \subseteq SUBSET Host
    /\ \A S \in {Host, Request, Input} : S # {}

VARIABLES
    row,       \* proxy_hosts
    record,    \* the CNAME of a hostname in a zone
    made,      \* records created for a host so far: the source of their ids
    pc,        \* where each request is suspended, "idle" without one
    job,       \* what it was asked, and the row its handler read
    seen,      \* the row its deployHost or undeployHost read
    queue,     \* the rebuildConfig calls, the running one first
    built,     \* the context that one has read from the database
    config,    \* config.yml
    signalled, \* daemons that have a SIGHUP to handle
    loaded,    \* the config.yml each daemon has read
    missed,    \* history: daemons not told of a config.yml since they last read it
    raced,     \* history: hosts two requests were at at once
    faulty,    \* history: hosts for which a call to Cloudflare failed
    ops        \* requests so far

vars == <<row, record, made, pc, job, seen, queue, built, config, signalled, loaded,
          missed, raced, faulty, ops>>

None == 0

Row == [no : Nat, there : BOOLEAN, on : BOOLEAN, tunnel : Tunnel, zone : Zone, rev : Rev,
        rec : Nat, err : BOOLEAN]

\* What a handler goes on to use of the row it read, and what a deploy does
HandlerRead == [no : Nat, on : BOOLEAN, tunnel : Tunnel, zone : Zone]
DeployRead == [tunnel : Tunnel, zone : Zone, rec : Nat]

AnyInput == CHOOSE in \in Input : TRUE
AnyTunnel == AnyInput.tunnel
AnyZone == AnyInput.zone

NoRow == [no |-> 0, there |-> FALSE, on |-> FALSE, tunnel |-> AnyTunnel, zone |-> AnyZone,
          rev |-> AnyInput.rev, rec |-> None, err |-> FALSE]

NoRecord == [id |-> None, target |-> AnyTunnel]

NotRead == [tunnel |-> AnyTunnel, zone |-> AnyZone, rec |-> None]

NoJob == [kind |-> "none", host |-> CHOOSE h \in Host : TRUE,
          was |-> [no |-> 0, on |-> FALSE, tunnel |-> AnyTunnel, zone |-> AnyZone],
          input |-> AnyInput]

\* buildContext: the enabled hosts of the tunnel, each with its target
Ingress(t) ==
    [of |-> t,
     hosts |-> [h \in Host |-> IF row[h].there /\ row[h].on /\ row[h].tunnel = t
                               THEN row[h].rev ELSE None]]

\* A host deployed earlier
Published == [NoRow EXCEPT !.there = TRUE, !.on = TRUE, !.rec = 1]

Init ==
    /\ \E old \in Installed :
          /\ row = [h \in Host |-> IF h \in old THEN Published ELSE NoRow]
          /\ record = [z \in Zone |-> [h \in Host |->
                IF h \in old /\ z = AnyZone THEN [NoRecord EXCEPT !.id = 1] ELSE NoRecord]]
          /\ made = [h \in Host |-> IF h \in old THEN 1 ELSE 0]
    /\ pc = [r \in Request |-> "idle"]
    /\ job = [r \in Request |-> NoJob]
    /\ seen = [r \in Request |-> NotRead]
    /\ queue = <<>> /\ built = <<>>
    /\ config = Ingress(AnyTunnel) /\ signalled = {}
    /\ loaded = [t \in Tunnel |-> Ingress(t)]
    /\ missed = {} /\ raced = {} /\ faulty = {}
    /\ ops = 0

HostOf(r) == job[r].host
Read(R) == [tunnel |-> R.tunnel, zone |-> R.zone, rec |-> R.rec]
Moved(r) == job[r].input.zone # job[r].was.zone

daemonVars == <<queue, built, config, signalled, loaded, missed>>

\* What is needed from step p on: of its handler, a deploy knows the host's id
JobAt(j, p) ==
    CASE p = "idle" -> NoJob
      [] p = "read" -> [NoJob EXCEPT !.host = j.host, !.was.no = j.was.no]
      [] OTHER -> j

\* and of the row it read, the reload needs the tunnel
SeenAt(s, p) ==
    CASE p \in {"idle", "read", "update", "remove", "fail"} -> NotRead
      [] p \in {"deployed", "reload", "rerender", "deploying", "undeploying"} ->
            [NotRead EXCEPT !.tunnel = s.tunnel]
      [] OTHER -> s

\* r goes on at step p
Goto(r, p) ==
    /\ pc' = [pc EXCEPT ![r] = p]
    /\ job' = [job EXCEPT ![r] = JobAt(@, p)]
    /\ seen' = [seen EXCEPT ![r] = SeenAt(@, p)]

\* The row r is about; a later one of the same hostname has another id
Present(r) == row[HostOf(r)].there /\ row[HostOf(r)].no = job[r].was.no

\* UPDATE ... WHERE id
Updated(r, R) == row' = IF Present(r) THEN [row EXCEPT ![HostOf(r)] = R] ELSE row

-----------------------------------------------------------------------------
(* routes/hosts.ts *)

Begin(r, kind, h, in, p) ==
    /\ kind \in Kinds /\ ops < MaxOps
    /\ pc[r] = "idle"
    /\ pc' = [pc EXCEPT ![r] = p]
    /\ job' = [job EXCEPT ![r] = JobAt([kind |-> kind, host |-> h, input |-> in,
                             was |-> [no |-> row'[h].no, on |-> row'[h].on,
                                      tunnel |-> row'[h].tunnel, zone |-> row'[h].zone]], p)]
    /\ ops' = ops + 1
    /\ raced' = IF \E q \in Request \ {r} : pc[q] # "idle" /\ HostOf(q) = h
                THEN raced \cup {h} ELSE raced
    /\ UNCHANGED <<record, made, seen, daemonVars, faulty>>

\* POST /: the insert, refused for a hostname that has a row
Create(r, h, in) ==
    /\ ~row[h].there
    /\ row' = [row EXCEPT ![h] = [no |-> ops + 1, there |-> TRUE, on |-> TRUE, tunnel |-> in.tunnel,
                                  zone |-> in.zone, rev |-> in.rev, rec |-> None, err |-> FALSE]]
    /\ Begin(r, "create", h, in, "read")

\* The other routes read the row first and answer 404 without it
Ask(r, kind, h, in) ==
    /\ row[h].there
    /\ UNCHANGED row
    /\ \/ kind = "edit"
          /\ Begin(r, kind, h, in, IF in.tunnel # row[h].tunnel \/ in.zone # row[h].zone
                                   THEN "undeploy" ELSE "update")
       \/ in = AnyInput
          /\ \/ kind = "toggle" /\ Begin(r, kind, h, in, "flip")
             \/ kind = "redeploy" /\ Begin(r, kind, h, in, "clear")
             \/ kind = "delete" /\ Begin(r, kind, h, in, "undeploy")

\* PUT /:id: a record id belongs to one zone
Update(r) ==
    LET h == HostOf(r)
        in == job[r].input
    IN  /\ pc[r] = "update"
        /\ Updated(r, [row[h] EXCEPT !.tunnel = in.tunnel, !.zone = in.zone, !.rev = in.rev,
                          !.rec = IF Moved(r) THEN None ELSE @,
                          !.err = IF in.tunnel # job[r].was.tunnel THEN FALSE ELSE @])
        /\ Goto(r, "read")
        /\ UNCHANGED <<record, made, daemonVars, raced, faulty, ops>>

\* POST /:id/toggle: the opposite of what the handler read
Flip(r) ==
    /\ pc[r] = "flip"
    /\ Updated(r, [row[HostOf(r)] EXCEPT !.on = ~job[r].was.on])
    /\ Goto(r, IF job[r].was.on THEN "undeploy" ELSE "read")
    /\ UNCHANGED <<record, made, daemonVars, raced, faulty, ops>>

\* POST /:id/redeploy clears the stale error
Clear(r) ==
    /\ pc[r] = "clear"
    /\ Updated(r, [row[HostOf(r)] EXCEPT !.err = FALSE])
    /\ Goto(r, "read")
    /\ UNCHANGED <<record, made, daemonVars, raced, faulty, ops>>

\* DELETE /:id, after undeployHost
Remove(r) ==
    /\ pc[r] = "remove"
    /\ Updated(r, NoRow)
    /\ Goto(r, "idle")
    /\ UNCHANGED <<record, made, daemonVars, raced, faulty, ops>>

-----------------------------------------------------------------------------
(* deployHost *)

\* A host that is gone throws outside the try block
DeployHost(r) ==
    /\ pc[r] = "read"
    /\ IF Present(r)
       THEN /\ seen' = [seen EXCEPT ![r] = Read(row[HostOf(r)])]
            /\ pc' = [pc EXCEPT ![r] = IF row[HostOf(r)].rec = None THEN "create" ELSE "upsert"]
            /\ UNCHANGED job
       ELSE Goto(r, "idle")
    /\ UNCHANGED <<row, record, made, daemonVars, raced, faulty, ops>>

\* upsertCnameRecord with a record id: an update, and on 404 a create
UpsertCnameRecord(r) ==
    LET s == seen[r]
        h == HostOf(r)
        known == record[s.zone][h].id = s.rec
    IN  /\ pc[r] = "upsert"
        /\ record' = IF known THEN [record EXCEPT ![s.zone][h].target = s.tunnel] ELSE record
        /\ Goto(r, IF known THEN "persist" ELSE "create")
        /\ UNCHANGED <<row, made, daemonVars, raced, faulty, ops>>

\* Cloudflare refuses a second record of the name (81057)
CreateRecord(r) ==
    LET s == seen[r]
        h == HostOf(r)
        free == record[s.zone][h] = NoRecord
    IN  /\ pc[r] = "create"
        /\ IF free
           THEN /\ made' = [made EXCEPT ![h] = @ + 1]
                /\ record' = [record EXCEPT ![s.zone][h] = [id |-> made[h] + 1, target |-> s.tunnel]]
                /\ seen' = [seen EXCEPT ![r].rec = made[h] + 1]
                /\ pc' = [pc EXCEPT ![r] = "persist"]
                /\ UNCHANGED job
           ELSE Goto(r, "fail") /\ UNCHANGED <<made, record>>
        /\ UNCHANGED <<row, daemonVars, raced, faulty, ops>>

\* The call fails, before or after it has had its effect
CloudflareFails(r) ==
    LET s == seen[r]
        h == HostOf(r)
    IN  /\ "dns" \in Faults
        /\ pc[r] \in {"upsert", "create"}
        /\ \/ UNCHANGED <<record, made>>
           \/ /\ pc[r] = "upsert" /\ record[s.zone][h].id = s.rec
              /\ record' = [record EXCEPT ![s.zone][h].target = s.tunnel]
              /\ UNCHANGED made
           \/ /\ pc[r] = "create" /\ record[s.zone][h] = NoRecord
              /\ made' = [made EXCEPT ![h] = @ + 1]
              /\ record' = [record EXCEPT ![s.zone][h] = [id |-> made[h] + 1, target |-> s.tunnel]]
        /\ faulty' = faulty \cup {h}
        /\ Goto(r, "fail")
        /\ UNCHANGED <<row, daemonVars, raced, ops>>

PersistDnsRecordId(r) ==
    /\ pc[r] = "persist"
    /\ Updated(r, [row[HostOf(r)] EXCEPT !.rec = seen[r].rec])
    /\ Goto(r, "deployed")
    /\ UNCHANGED <<record, made, daemonVars, raced, faulty, ops>>

\* edge_endpoint, last_deployed_at and last_error = null
Deployed(r) ==
    /\ pc[r] = "deployed"
    /\ Updated(r, [row[HostOf(r)] EXCEPT !.err = FALSE])
    /\ Goto(r, "reload")
    /\ UNCHANGED <<record, made, daemonVars, raced, faulty, ops>>

\* the catch block
Fail(r) ==
    /\ pc[r] = "fail"
    /\ Updated(r, [row[HostOf(r)] EXCEPT !.err = TRUE])
    /\ Goto(r, "idle")
    /\ UNCHANGED <<record, made, daemonVars, raced, faulty, ops>>

-----------------------------------------------------------------------------
(* undeployHost *)

\* What its caller does next
AfterUndeploy(r) ==
    CASE job[r].kind = "delete" -> "remove"
      [] job[r].kind = "edit" -> "update"
      [] OTHER -> "idle"

UndeployHost(r) ==
    LET R == row[HostOf(r)]
    IN  /\ pc[r] = "undeploy"
        /\ IF Present(r)
           THEN LET p == IF R.rec # None THEN "unpublish" ELSE "rerender"
                IN  /\ pc' = [pc EXCEPT ![r] = p]
                    /\ seen' = [seen EXCEPT ![r] = SeenAt(Read(R), p)]
                    /\ UNCHANGED job
           ELSE Goto(r, AfterUndeploy(r))
        /\ UNCHANGED <<row, record, made, daemonVars, raced, faulty, ops>>

\* Mutant of DeleteDnsRecord: the id is looked up in the zone of the new row
DeleteInNewZone(r) ==
    LET h == HostOf(r)
        z == job[r].input.zone
    IN  /\ pc[r] = "unpublish"
        /\ record' = IF record[z][h].id = seen[r].rec
                     THEN [record EXCEPT ![z][h] = NoRecord] ELSE record
        /\ Goto(r, "rerender")
        /\ UNCHANGED <<row, made, daemonVars, raced, faulty, ops>>

\* 404 is fine
DeleteDnsRecord(r) ==
    LET h == HostOf(r)
        z == seen[r].zone
    IN  /\ pc[r] = "unpublish"
        /\ record' = IF record[z][h].id = seen[r].rec
                     THEN [record EXCEPT ![z][h] = NoRecord] ELSE record
        /\ Goto(r, "rerender")
        /\ UNCHANGED <<row, made, daemonVars, raced, faulty, ops>>

\* logged, and on with it
DeleteFails(r) ==
    /\ "dns" \in Faults
    /\ pc[r] = "unpublish"
    /\ faulty' = faulty \cup {HostOf(r)}
    /\ Goto(r, "rerender")
    /\ UNCHANGED <<row, record, made, daemonVars, raced, ops>>

-----------------------------------------------------------------------------
(* provider.reload and rebuildConfig *)

\* rebuildConfig joins the queue; its caller waits
Reload(r) ==
    /\ \/ pc[r] = "reload" /\ Goto(r, "deploying")
       \/ pc[r] = "rerender" /\ Goto(r, "undeploying")
    /\ queue' = Append(queue, r)
    /\ UNCHANGED <<row, record, made, built, config, signalled, loaded, missed, raced, faulty, ops>>

\* the context of the call whose turn it is
BuildContext ==
    /\ queue # <<>> /\ built = <<>>
    /\ built' = <<Ingress(seen[Head(queue)].tunnel)>>
    /\ UNCHANGED <<row, record, made, pc, job, seen, queue, config, signalled, loaded,
                   missed, raced, faulty, ops>>

Waiting == {"deploying", "undeploying"}

\* Where a caller goes on: undeployHost logs an error that deployHost passes on
Resumed(r, next) == IF pc[r] = "undeploying" THEN AfterUndeploy(r) ELSE next

\* Mutant of CallEnds: callers that come while a call runs are served by it
CallsEndTogether(r, next) ==
    /\ pc[r] \in Waiting /\ built # <<>> /\ r = Head(queue)
    /\ queue' = <<>> /\ built' = <<>>
    /\ pc' = [q \in Request |-> IF pc[q] \in Waiting THEN Resumed(q, next) ELSE pc[q]]
    /\ job' = [q \in Request |-> JobAt(job[q], pc'[q])]
    /\ seen' = [q \in Request |-> SeenAt(seen[q], pc'[q])]

\* The running call is over
CallEnds(r, next) ==
    /\ pc[r] \in Waiting /\ built # <<>> /\ r = Head(queue)
    /\ queue' = Tail(queue) /\ built' = <<>>
    /\ Goto(r, Resumed(r, next))

\* temp file and rename, then SIGHUP, which reload() sends only to a daemon whose
\* status is "running": one that has just started may have read the old file
WriteConfig(r) ==
    /\ CallEnds(r, "idle")
    /\ config' = Head(built)
    /\ \/ signalled' = signalled \cup {seen[r].tunnel} /\ UNCHANGED missed
       \/ /\ "status" \in Faults
          /\ missed' = missed \cup {seen[r].tunnel}
          /\ UNCHANGED signalled
    /\ UNCHANGED <<row, record, made, loaded, raced, faulty, ops>>

\* Mutant of WriteFails: the next call waits for one that succeeds
WriteFailsForGood(r) ==
    /\ "disk" \in Faults
    /\ pc[r] \in Waiting /\ built # <<>> /\ r = Head(queue)
    /\ Goto(r, Resumed(r, "fail"))
    /\ UNCHANGED <<row, record, made, daemonVars, raced, faulty, ops>>

WriteFails(r) ==
    /\ "disk" \in Faults
    /\ CallEnds(r, "fail")
    /\ UNCHANGED <<row, record, made, config, signalled, loaded, missed, raced, faulty, ops>>

\* The daemon handles its SIGHUP, or is a new process
ReadConfig(t) ==
    /\ loaded' = [loaded EXCEPT ![t] = config]
    /\ signalled' = signalled \ {t} /\ missed' = missed \ {t}
    /\ UNCHANGED <<row, record, made, pc, job, seen, queue, built, config, raced, faulty, ops>>

Sighup(t) == t \in signalled /\ ReadConfig(t)
Respawn(t) == loaded[t] # config /\ ReadConfig(t)

-----------------------------------------------------------------------------
RequestStep(r) ==
    \/ Update(r) \/ Flip(r) \/ Clear(r) \/ Remove(r)
    \/ DeployHost(r) \/ UpsertCnameRecord(r) \/ CreateRecord(r) \/ CloudflareFails(r)
    \/ PersistDnsRecordId(r) \/ Deployed(r) \/ Fail(r)
    \/ UndeployHost(r) \/ DeleteDnsRecord(r) \/ DeleteFails(r)
    \/ Reload(r) \/ WriteConfig(r) \/ WriteFails(r)

Next ==
    \/ \E r \in Request, h \in Host, in \in Input :
          \/ Create(r, h, in)
          \/ \E kind \in Kinds : Ask(r, kind, h, in)
    \/ \E r \in Request : RequestStep(r)
    \/ BuildContext
    \/ \E t \in Tunnel : Sighup(t) \/ Respawn(t)

(* Every await settles: the calls to Cloudflare have a time limit, the     *)
(* database and the disk answer.  Nobody has to ask for anything.          *)
Fairness ==
    /\ \A r \in Request : WF_vars(RequestStep(r))
    /\ WF_vars(BuildContext)
    /\ \A t \in Tunnel : WF_vars(Sighup(t))

Spec == Init /\ [][Next]_vars
FairSpec == Spec /\ Fairness

-----------------------------------------------------------------------------
(* Properties *)

Active == {r \in Request : pc[r] # "idle"}
Settled == Active = {} /\ signalled = {}

TypeOK ==
    /\ row \in [Host -> Row]
    /\ record \in [Zone -> [Host -> [id : Nat, target : Tunnel]]]
    /\ made \in [Host -> Nat]
    /\ \A r \in Request : seen[r] \in DeployRead /\ job[r].was \in HandlerRead
                            /\ job[r].host \in Host /\ job[r].input \in Input
    /\ queue \in Seq({r \in Request : pc[r] \in Waiting})
    /\ \A m, n \in 1..Len(queue) : queue[m] = queue[n] => m = n
    /\ Len(built) <= 1 /\ (built # <<>> => queue # <<>>)
    /\ signalled \subseteq Tunnel /\ missed \subseteq Tunnel /\ raced \subseteq Host /\ faulty \subseteq Host
    /\ ops \in Nat

(* Once nothing is under way, a daemon that has read its own tunnel's      *)
(* config.yml and was told of the last one serves each host that reports   *)
(* no error with the target its row holds, and a disabled one not at all   *)
(* (unless the disk failed), however the requests interleaved: this is     *)
(* what rebuildConfig's "one call at a time" is for.                       *)
ServedAsRow ==
    TypeOK /\ (Settled => \A h \in Host \ raced :
        LET t == row[h].tunnel
        IN  row[h].there /\ ~row[h].err /\ t \notin missed /\ loaded[t].of = t =>
                /\ row[h].on => loaded[t].hosts[h] = row[h].rev
                /\ ~row[h].on /\ "disk" \notin Faults => loaded[t].hosts[h] = None)

(* An enabled host without an error has its record, on the right tunnel,   *)
(* and its row knows the id, whatever calls failed before, as long as the  *)
(* host's own requests came one after the other.                           *)
RecordKnown ==
    \A h \in Host \ raced :
        row[h].there /\ row[h].on /\ ~row[h].err /\ (\A r \in Active : HostOf(r) # h)
        => record[row[h].zone][h] = [id |-> row[h].rec, target |-> row[h].tunnel]

(* A record that no row knows, of a deleted host or in a zone the host has *)
(* left, comes only of a failed call or of requests that overlapped.       *)
NoOrphan ==
    \A h \in Host \ (raced \cup faulty), z \in Zone :
        record[z][h] # NoRecord /\ (\A r \in Active : HostOf(r) # h)
        => row[h].there /\ row[h].zone = z /\ row[h].rec = record[z][h].id

(* So at Cloudflare there is what the rows say, no less and no more.       *)
RecordsTrue == RecordKnown /\ NoOrphan

(* Every request and the deploy it left running come to an end: a failed   *)
(* write does not stop those behind it.                                    *)
RequestsEnd == \A r \in Request : pc[r] # "idle" ~> pc[r] = "idle"

=============================================================================
