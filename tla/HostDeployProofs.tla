-------------------------- MODULE HostDeployProofs --------------------------
(***************************************************************************)
(* Proofs about HostDeploy: what the daemons serve and what is recorded at *)
(* Cloudflare agree with the rows, for any hosts, tunnels, zones, requests *)
(* and failures.                                                           *)
(***************************************************************************)
EXTENDS HostDeploy, TLAPS

-----------------------------------------------------------------------------
(* The inductive invariant                                                 *)

PublishSteps == {"read", "upsert", "create", "persist", "deployed", "reload", "deploying", "fail"}
UndeploySteps == {"undeploy", "unpublish", "rerender", "undeploying"}
Step == {"idle", "update", "flip", "clear", "remove"} \cup PublishSteps \cup UndeploySteps
Job == [kind : {"none", "create", "edit", "toggle", "redeploy", "delete"}, host : Host, was : HandlerRead, input : Input]
Config == [of : Tunnel, hosts : [Host -> Nat]]
Record == [id : Nat, target : Tunnel]

Types ==
    /\ row \in [Host -> Row] /\ record \in [Zone -> [Host -> Record]] /\ made \in [Host -> Nat]
    /\ pc \in [Request -> Step] /\ job \in [Request -> Job] /\ seen \in [Request -> DeployRead]
    /\ config \in Config /\ loaded \in [Tunnel -> Config]
    /\ signalled \subseteq Tunnel /\ missed \subseteq Tunnel /\ raced \subseteq Host /\ faulty \subseteq Host
    /\ ops \in Nat

\* The calls of rebuildConfig that are queued are those whose callers wait.
QueueInv ==
    /\ queue \in Seq(Request)
    /\ \A m \in 1..Len(queue) : pc[queue[m]] \in Waiting
    /\ \A m, n \in 1..Len(queue) : queue[m] = queue[n] => m = n
    /\ built = <<>> \/ (queue # <<>> /\ \E c \in Config : built = <<c>>)

\* Every record has an id, and a record is only updated by its id.
IdsInv ==
    /\ \A z \in Zone, h \in Host : record[z][h].id = None => record[z][h] = NoRecord
    /\ \A r \in Request : pc[r] = "upsert" => seen[r].rec # None

Quiet(h) == \A q \in Request : pc[q] # "idle" => HostOf(q) # h

\* Who is at a host that was never raced for is alone there.
AloneInv == \A q, r \in Request : pc[q] # "idle" /\ pc[r] # "idle" /\ HostOf(q) = HostOf(r) /\ HostOf(r) \notin raced => q = r

\* What a request at a host knows of the host's row is still so.
KnowsRow(r) ==
    LET R == row[HostOf(r)]
        j == job[r]
        s == seen[r]
    IN  /\ R.there /\ R.no = j.was.no
        /\ pc[r] \in UndeploySteps \cup {"update", "remove", "flip"} => j.was.tunnel = R.tunnel /\ j.was.zone = R.zone
        /\ pc[r] = "flip" => j.kind = "toggle" /\ j.was.on = R.on
        /\ pc[r] \in UndeploySteps => j.kind \in {"edit", "toggle", "delete"} /\ (j.kind = "toggle" => ~R.on)
        /\ pc[r] \in {"unpublish", "rerender", "undeploying", "upsert", "create", "persist", "deployed", "reload", "deploying"}
              => s.tunnel = R.tunnel
        /\ pc[r] \in {"unpublish", "upsert", "create", "persist"} => s.zone = R.zone
        /\ pc[r] = "unpublish" => s.rec = R.rec

\* The records of a host: none, none but the one its row knows, or none but the one
\* that is about to be written down.
Gone(h) == \A z \in Zone : record[z][h] = NoRecord
Owned(h) == \A z \in Zone : record[z][h] # NoRecord => row[h].there /\ row[h].zone = z /\ row[h].rec = record[z][h].id
Made(h, s) == \A z \in Zone : record[z][h] # NoRecord => s.zone = z /\ s.rec = record[z][h].id

RecordAtStep(r) ==
    LET h == HostOf(r)
        R == row[h]
    IN  /\ pc[r] = "persist" => record[R.zone][h] = [id |-> seen[r].rec, target |-> R.tunnel]
        /\ pc[r] \in {"deployed", "reload", "deploying"} => record[R.zone][h] = [id |-> R.rec, target |-> R.tunnel]

NoneLost(r) ==
    LET h == HostOf(r)
    IN  /\ pc[r] = "persist" => Made(h, seen[r])
        /\ pc[r] \in {"rerender", "undeploying", "remove"} => Gone(h)
        /\ pc[r] = "update" => Gone(h) \/ (Owned(h) /\ ~Moved(r))
        /\ pc[r] \notin {"persist", "rerender", "undeploying", "remove", "update"} => Owned(h)

\* What a render of a host's tunnel says of the host, now.
Want(h) == IF row[h].on THEN row[h].rev ELSE None
Good(h, c) == c.of = row[h].tunnel => c.hosts[h] = Want(h)
Cares(h) == row[h].there /\ ~row[h].err /\ (row[h].on \/ "disk" \notin Faults)

\* The running call has rendered its caller's host as the row is.
BuiltFor(r) == built # <<>> /\ r = Head(queue) => built[1].of = seen[r].tunnel /\ built[1].hosts[HostOf(r)] = Want(HostOf(r))

RequestInv(r) ==
    pc[r] # "idle" /\ HostOf(r) \notin raced =>
        /\ KnowsRow(r) /\ RecordAtStep(r) /\ BuiltFor(r)
        /\ HostOf(r) \notin faulty => NoneLost(r)

RecordInv(h) ==
    h \notin raced /\ Quiet(h) =>
        /\ row[h].there /\ row[h].on /\ ~row[h].err => record[row[h].zone][h] = [id |-> row[h].rec, target |-> row[h].tunnel]
        /\ h \notin faulty => Owned(h)

ServeInv(h) ==
    h \notin raced /\ Quiet(h) /\ Cares(h) =>
        /\ Good(h, config) /\ (built # <<>> => Good(h, built[1]))
        /\ row[h].tunnel \notin signalled \cup missed => Good(h, loaded[row[h].tunnel])

IInv ==
    /\ Types /\ QueueInv /\ IdsInv /\ AloneInv
    /\ \A r \in Request : RequestInv(r)
    /\ \A h \in Host : RecordInv(h) /\ ServeInv(h)

-----------------------------------------------------------------------------
(* What rows, requests and steps look like                                 *)

LEMMA Typical ==
    /\ AnyInput \in Input /\ AnyTunnel \in Tunnel /\ AnyZone \in Zone /\ AnyInput.rev \in Nat
    /\ NoRow \in Row /\ NoRecord \in Record /\ NotRead \in DeployRead /\ NoJob \in Job
    /\ \A in \in Input : in.tunnel \in Tunnel /\ in.zone \in Zone /\ in.rev \in Nat /\ in.rev \in Rev
    /\ ~NoRow.there /\ NoRecord.id = None
<1>1. AnyInput \in Input
  BY ConstantsAssumption DEF AnyInput
<1>2. ASSUME NEW in \in Input PROVE in.tunnel \in Tunnel /\ in.zone \in Zone /\ in.rev \in Nat /\ in.rev \in Rev
  BY ConstantsAssumption
<1>3. AnyTunnel \in Tunnel /\ AnyZone \in Zone /\ AnyInput.rev \in Nat /\ AnyInput.rev \in Rev
  BY <1>1, <1>2 DEF AnyTunnel, AnyZone
<1>. HIDE DEF AnyTunnel, AnyZone, AnyInput
<1>4. NoRow \in Row /\ NoRecord \in Record /\ NotRead \in DeployRead
  BY <1>3, ConstantsAssumption DEF NoRow, Row, NoRecord, Record, NotRead, DeployRead, None
<1>5. (CHOOSE h \in Host : TRUE) \in Host
  BY ConstantsAssumption
<1>6. NoJob \in Job
  BY <1>1, <1>3, <1>5 DEF NoJob, Job, HandlerRead
<1>. QED  BY <1>1, <1>2, <1>3, <1>4, <1>6 DEF NoRow, NoRecord

\* Rev excludes 0, which stands for "not served".
LEMMA IngressTypes ==
  ASSUME Types, NEW t \in Tunnel
  PROVE  /\ Ingress(t) \in Config /\ Ingress(t).of = t
         /\ \A h \in Host : row[h].there /\ row[h].tunnel = t => Ingress(t).hosts[h] = Want(h)
<1>1. \A h \in Host : row[h].rev \in Nat
  BY ConstantsAssumption DEF Types, Row
<1>2. Ingress(t).of = t /\ \A h \in Host : Ingress(t).hosts[h] =
        IF row[h].there /\ row[h].on /\ row[h].tunnel = t THEN row[h].rev ELSE None
  BY DEF Ingress
<1>3. Ingress(t) \in Config
  BY <1>1 DEF Ingress, Config, None
<1>. QED  BY <1>2, <1>3 DEF Want

LEMMA JobAtTypes ==
  ASSUME NEW j \in Job, NEW p \in Step
  PROVE  /\ JobAt(j, p) \in Job
         /\ p # "idle" => JobAt(j, p).host = j.host /\ JobAt(j, p).was.no = j.was.no
         /\ p \notin {"idle", "read"} => JobAt(j, p) = j
<1>1. CASE p = "idle"
  BY <1>1, Typical DEF JobAt
<1>2. CASE p = "read"
  <2>. DEFINE w == [NoJob.was EXCEPT !.no = j.was.no]
              k == [NoJob EXCEPT !.host = j.host, !.was = w]
  <2>1. w \in HandlerRead /\ w.no = j.was.no
    BY Typical DEF Job, HandlerRead
  <2>2. k \in Job /\ k.host = j.host /\ k.was = w
    <3>. HIDE DEF w
    <3>. QED  BY <2>1, Typical DEF Job
  <2>3. JobAt(j, p) = k
    BY <1>2 DEF JobAt
  <2>. HIDE DEF w, k
  <2>. QED  BY <1>2, <2>1, <2>2, <2>3
<1>3. CASE p \notin {"idle", "read"}
  BY <1>3 DEF JobAt
<1>. QED  BY <1>1, <1>2, <1>3

LEMMA SeenAtTypes ==
  ASSUME NEW s \in DeployRead, NEW p \in Step
  PROVE  /\ SeenAt(s, p) \in DeployRead
         /\ p \notin {"idle", "read", "update", "remove", "fail"} => SeenAt(s, p).tunnel = s.tunnel
         /\ p \in {"upsert", "create", "persist", "undeploy", "unpublish", "flip", "clear"} => SeenAt(s, p) = s
<1>1. CASE p \in {"idle", "read", "update", "remove", "fail"}
  BY <1>1, Typical DEF SeenAt
<1>2. CASE p \in {"deployed", "reload", "rerender", "deploying", "undeploying"}
  <2>. DEFINE u == [NotRead EXCEPT !.tunnel = s.tunnel]
  <2>1. u \in DeployRead /\ u.tunnel = s.tunnel
    BY Typical DEF DeployRead
  <2>2. SeenAt(s, p) = u
    BY <1>2 DEF SeenAt
  <2>. HIDE DEF u
  <2>. QED  BY <1>2, <2>1, <2>2
<1>3. CASE p \notin {"idle", "read", "update", "remove", "fail", "deployed", "reload", "rerender", "deploying", "undeploying"}
  BY <1>3 DEF SeenAt
<1>. QED  BY <1>1, <1>2, <1>3

\* What a request does when it goes on, to itself and to nobody else.
Alike(r) == \A q \in Request \ {r} : pc'[q] = pc[q] /\ job'[q] = job[q] /\ seen'[q] = seen[q]
RequestTypes == pc \in [Request -> Step] /\ job \in [Request -> Job] /\ seen \in [Request -> DeployRead]

LEMMA GotoDoes ==
  ASSUME Types, NEW r \in Request, NEW p \in Step, Goto(r, p)
  PROVE  /\ RequestTypes' /\ Alike(r) /\ pc'[r] = p
         /\ p # "idle" => job'[r].host = job[r].host /\ job'[r].was.no = job[r].was.no
         /\ p \notin {"idle", "read"} => job'[r] = job[r]
         /\ p \notin {"idle", "read", "update", "remove", "fail"} => seen'[r].tunnel = seen[r].tunnel
         /\ p \in {"upsert", "create", "persist", "undeploy", "unpublish", "flip", "clear"} => seen'[r] = seen[r]
<1>. DEFINE j == JobAt(job[r], p)
            s == SeenAt(seen[r], p)
<1>1. job[r] \in Job /\ seen[r] \in DeployRead
  BY DEF Types
<1>2. pc' = [pc EXCEPT ![r] = p] /\ job' = [job EXCEPT ![r] = j] /\ seen' = [seen EXCEPT ![r] = s]
  BY DEF Goto
<1>3. /\ j \in Job
      /\ p # "idle" => j.host = job[r].host /\ j.was.no = job[r].was.no
      /\ p \notin {"idle", "read"} => j = job[r]
  BY <1>1, JobAtTypes
<1>4. /\ s \in DeployRead
      /\ p \notin {"idle", "read", "update", "remove", "fail"} => s.tunnel = seen[r].tunnel
      /\ p \in {"upsert", "create", "persist", "undeploy", "unpublish", "flip", "clear"} => s = seen[r]
  BY <1>1, SeenAtTypes
<1>. HIDE DEF j, s
<1>5. pc'[r] = p /\ job'[r] = j /\ seen'[r] = s
  BY <1>2 DEF Types
<1>6. Alike(r)
  BY <1>2 DEF Types, Alike
<1>7. RequestTypes'
  BY <1>2, <1>3, <1>4 DEF Types, RequestTypes
<1>. QED  BY <1>3, <1>4, <1>5, <1>6, <1>7

\* What an UPDATE does.
LEMMA UpdatedDoes ==
  ASSUME Types, NEW r \in Request, NEW R \in Row, Updated(r, R)
  PROVE  /\ row' \in [Host -> Row]
         /\ \A h \in Host : h # HostOf(r) => row'[h] = row[h]
         /\ Present(r) => row'[HostOf(r)] = R
<1>1. HostOf(r) \in Host
  BY DEF Types, HostOf, Job
<1>. QED  BY <1>1 DEF Updated, Types

-----------------------------------------------------------------------------
(* Steps of a request: rows and records                                    *)

\* What a step leaves to the others, and what it owes its own host.
Framed(r) ==
    /\ Alike(r)
    /\ pc'[r] # "idle" => job'[r].host = job[r].host
    /\ \A h \in Host \ {HostOf(r)} : row'[h] = row[h] /\ \A z \in Zone : record'[z][h] = record[z][h]
    /\ raced' = raced /\ faulty \subseteq faulty' /\ faulty' \subseteq faulty \cup {HostOf(r)}

GoesOn(r) ==
    \A h \in Host : h = HostOf(r) /\ h \notin raced =>
        /\ pc'[r] # "idle" => KnowsRow(r)' /\ RecordAtStep(r)' /\ (h \notin faulty' => NoneLost(r)')
        /\ pc'[r] = "idle" =>
              /\ row'[h].there /\ row'[h].on /\ ~row'[h].err
                    => record'[row'[h].zone][h] = [id |-> row'[h].rec, target |-> row'[h].tunnel]
              /\ h \notin faulty' => Owned(h)'
              /\ pc[r] \in Waiting \/ ~row'[h].there \/ row'[h].err

Sound(r) == Types' /\ IdsInv' /\ Framed(r) /\ GoesOn(r)

\* So what a request knows it still knows, and what is at Cloudflare is still accounted for.
RecordsKept ==
    /\ AloneInv'
    /\ \A q \in Request : pc'[q] # "idle" /\ job'[q].host \notin raced' =>
          KnowsRow(q)' /\ RecordAtStep(q)' /\ (job'[q].host \notin faulty' => NoneLost(q)')
    /\ \A h \in Host : RecordInv(h)'

LEMMA AtHost ==
  ASSUME IInv, NEW r \in Request, pc[r] # "idle"
  PROVE  /\ HostOf(r) \in Host /\ row[HostOf(r)] \in Row /\ job[r] \in Job /\ seen[r] \in DeployRead
         /\ HostOf(r) \notin raced =>
              /\ Present(r) /\ KnowsRow(r) /\ RecordAtStep(r) /\ BuiltFor(r)
              /\ HostOf(r) \notin faulty => NoneLost(r)
<1>1. HostOf(r) \in Host /\ row[HostOf(r)] \in Row /\ job[r] \in Job /\ seen[r] \in DeployRead
  BY DEF IInv, Types, HostOf, Job
<1>2. RequestInv(r)
  BY DEF IInv
<1>3. KnowsRow(r) => Present(r)
  BY DEF KnowsRow, Present
<1>. QED  BY <1>1, <1>2, <1>3 DEF RequestInv

LEMMA IdsKept ==
  ASSUME IdsInv, NEW r \in Request, Alike(r), record' = record, pc'[r] # "upsert" \/ seen'[r].rec # None
  PROVE  IdsInv'
BY DEF IdsInv, Alike

\* The steps that write the row and nothing else.
LEMMA WritesRow ==
  ASSUME IInv, NEW r \in Request, NEW p \in Step \ {"upsert"}, NEW R \in Row, Goto(r, p), Updated(r, R),
         UNCHANGED <<record, made, daemonVars, raced, faulty, ops>>
  PROVE  /\ Types' /\ IdsInv' /\ Framed(r)
         /\ Present(r) => row'[HostOf(r)] = R
<1>0. Types /\ IdsInv
  BY DEF IInv
<1>1. /\ RequestTypes' /\ Alike(r) /\ pc'[r] = p
      /\ p # "idle" => job'[r].host = job[r].host
  BY <1>0, GotoDoes
<1>2. /\ row' \in [Host -> Row]
      /\ \A h \in Host : h # HostOf(r) => row'[h] = row[h]
      /\ Present(r) => row'[HostOf(r)] = R
  BY <1>0, UpdatedDoes
<1>3. Types'
  BY <1>0, <1>1, <1>2 DEF Types, RequestTypes, daemonVars
<1>4. IdsInv'
  BY <1>0, <1>1, IdsKept
<1>5. Framed(r)
  BY <1>1, <1>2 DEF Framed
<1>. QED  BY <1>2, <1>3, <1>4, <1>5

LEMMA UpdateSound == ASSUME IInv, NEW r \in Request, Update(r) PROVE Sound(r)
<1>0. PICK h \in Host : h = HostOf(r)
  BY AtHost DEF Update
<1>. DEFINE in == job[r].input
            R == [row[h] EXCEPT !.tunnel = in.tunnel, !.zone = in.zone, !.rev = in.rev,
                          !.rec = IF Moved(r) THEN None ELSE @,
                          !.err = IF in.tunnel # job[r].was.tunnel THEN FALSE ELSE @]
<1>1. pc[r] = "update" /\ Goto(r, "read") /\ Updated(r, R) /\ UNCHANGED <<record, made, daemonVars, raced, faulty, ops>>
  BY <1>0 DEF Update
<1>2. row[h] \in Row /\ in \in Input
  BY <1>0, <1>1, AtHost DEF Job
<1>3. /\ R \in Row /\ R.there = row[h].there /\ R.no = row[h].no /\ R.zone = in.zone
      /\ R.rec = IF Moved(r) THEN None ELSE row[h].rec
  <2>. DEFINE e == IF in.tunnel # job[r].was.tunnel THEN FALSE ELSE row[h].err
              c == IF Moved(r) THEN None ELSE row[h].rec
              Q == [row[h] EXCEPT !.tunnel = in.tunnel, !.zone = in.zone, !.rev = in.rev, !.rec = c, !.err = e]
  <2>1. e \in BOOLEAN
    BY <1>2 DEF Row
  <2>2. c \in Nat /\ in.tunnel \in Tunnel /\ in.zone \in Zone /\ in.rev \in Rev
    BY <1>2, Typical DEF Row, None
  <2>. HIDE DEF e, c, in
  <2>3. Q \in Row /\ Q.there = row[h].there /\ Q.no = row[h].no /\ Q.zone = in.zone /\ Q.rec = c
    BY <1>2, <2>1, <2>2 DEF Row
  <2>. QED  BY <2>3 DEF e, c
<1>. HIDE DEF R
<1>4. Types' /\ IdsInv' /\ Framed(r) /\ (Present(r) => row'[h] = R)
  BY <1>0, <1>1, <1>3, WritesRow DEF Step, PublishSteps
<1>5. pc'[r] = "read" /\ job'[r].host = h /\ job'[r].was.no = job[r].was.no
  BY <1>0, <1>1, GotoDoes DEF IInv, Step, PublishSteps, HostOf
<1>6. ASSUME h \notin raced PROVE KnowsRow(r)' /\ RecordAtStep(r)' /\ (h \notin faulty' => NoneLost(r)')
  <2>1. Present(r) /\ KnowsRow(r) /\ (h \notin faulty => NoneLost(r))
    BY <1>0, <1>1, <1>6, AtHost
  <2>2. row'[h] = R /\ R.there /\ R.no = job[r].was.no
    BY <1>0, <1>3, <1>4, <2>1 DEF KnowsRow
  <2>3. KnowsRow(r)' /\ RecordAtStep(r)'
    BY <1>5, <2>2 DEF KnowsRow, RecordAtStep, HostOf, UndeploySteps
  <2>4. ASSUME h \notin faulty PROVE Owned(h)'
    <3>1. Gone(h) \/ (Owned(h) /\ ~Moved(r))
      BY <1>0, <1>1, <2>1, <2>4 DEF NoneLost
    <3>2. CASE Gone(h)
      BY <1>1, <3>2 DEF Gone, Owned
    <3>3. CASE Owned(h) /\ ~Moved(r)
      <4>1. R.zone = row[h].zone /\ R.rec = row[h].rec
        BY <1>0, <1>1, <1>3, <2>1, <3>3 DEF KnowsRow, Moved
      <4>. QED  BY <1>1, <2>2, <3>3, <4>1 DEF Owned
    <3>. QED  BY <3>1, <3>2, <3>3
  <2>5. h \notin faulty' => NoneLost(r)'
    BY <1>1, <1>5, <2>4 DEF NoneLost, HostOf
  <2>. QED  BY <2>3, <2>5
<1>. QED  BY <1>0, <1>4, <1>5, <1>6 DEF Sound, GoesOn

LEMMA FlipSound == ASSUME IInv, NEW r \in Request, Flip(r) PROVE Sound(r)
<1>0. PICK h \in Host : h = HostOf(r)
  BY AtHost DEF Flip
<1>. DEFINE R == [row[h] EXCEPT !.on = ~job[r].was.on]
            p == IF job[r].was.on THEN "undeploy" ELSE "read"
<1>1. pc[r] = "flip" /\ Goto(r, p) /\ Updated(r, R) /\ UNCHANGED <<record, made, daemonVars, raced, faulty, ops>>
  BY <1>0 DEF Flip
<1>2. row[h] \in Row /\ job[r].was.on \in BOOLEAN
  BY <1>0, <1>1, AtHost DEF Job, HandlerRead
<1>3. /\ R \in Row /\ R.there = row[h].there /\ R.no = row[h].no /\ R.zone = row[h].zone /\ R.rec = row[h].rec
      /\ R.tunnel = row[h].tunnel
  BY <1>2 DEF Row
<1>4. R.on <=> ~job[r].was.on
  BY <1>2 DEF Row
<1>5. p \in Step \ {"upsert"} /\ p \in {"undeploy", "read"} /\ (p = "undeploy" => ~R.on)
  BY <1>4 DEF Step, PublishSteps, UndeploySteps
<1>. HIDE DEF R, p
<1>6. Types' /\ IdsInv' /\ Framed(r) /\ (Present(r) => row'[h] = R)
  BY <1>0, <1>1, <1>3, <1>5, WritesRow
<1>7. /\ pc'[r] = p /\ job'[r].host = h /\ job'[r].was.no = job[r].was.no
      /\ p = "undeploy" => job'[r] = job[r]
  BY <1>0, <1>1, <1>5, GotoDoes DEF IInv, HostOf
<1>8. ASSUME h \notin raced PROVE KnowsRow(r)' /\ RecordAtStep(r)' /\ (h \notin faulty' => NoneLost(r)')
  <2>1. Present(r) /\ KnowsRow(r) /\ (h \notin faulty => NoneLost(r))
    BY <1>0, <1>1, <1>8, AtHost
  <2>2. row'[h] = R /\ R.there /\ R.no = job[r].was.no
    BY <1>0, <1>3, <1>6, <2>1 DEF KnowsRow
  <2>3. KnowsRow(r)' /\ RecordAtStep(r)'
    BY <1>0, <1>1, <1>3, <1>5, <1>7, <2>1, <2>2 DEF KnowsRow, RecordAtStep, HostOf, UndeploySteps
  <2>4. h \notin faulty => Owned(h)
    BY <1>0, <1>1, <2>1 DEF NoneLost
  <2>5. h \notin faulty => Owned(h)'
    BY <1>1, <1>3, <2>2, <2>4 DEF Owned
  <2>6. h \notin faulty' => NoneLost(r)'
    BY <1>1, <1>5, <1>7, <2>5 DEF NoneLost, HostOf
  <2>. QED  BY <2>3, <2>6
<1>9. p # "idle"
  BY <1>5
<1>. QED  BY <1>0, <1>6, <1>7, <1>8, <1>9 DEF Sound, GoesOn

LEMMA ClearSound == ASSUME IInv, NEW r \in Request, Clear(r) PROVE Sound(r)
<1>0. PICK h \in Host : h = HostOf(r)
  BY AtHost DEF Clear
<1>. DEFINE R == [row[h] EXCEPT !.err = FALSE]
<1>1. pc[r] = "clear" /\ Goto(r, "read") /\ Updated(r, R) /\ UNCHANGED <<record, made, daemonVars, raced, faulty, ops>>
  BY <1>0 DEF Clear
<1>2. row[h] \in Row
  BY <1>0, <1>1, AtHost
<1>3. R \in Row /\ R.there = row[h].there /\ R.no = row[h].no /\ R.zone = row[h].zone /\ R.rec = row[h].rec
  BY <1>2 DEF Row
<1>. HIDE DEF R
<1>4. Types' /\ IdsInv' /\ Framed(r) /\ (Present(r) => row'[h] = R)
  BY <1>0, <1>1, <1>3, WritesRow DEF Step, PublishSteps
<1>5. pc'[r] = "read" /\ job'[r].host = h /\ job'[r].was.no = job[r].was.no
  BY <1>0, <1>1, GotoDoes DEF IInv, Step, PublishSteps, HostOf
<1>6. ASSUME h \notin raced PROVE KnowsRow(r)' /\ RecordAtStep(r)' /\ (h \notin faulty' => NoneLost(r)')
  <2>1. Present(r) /\ KnowsRow(r) /\ (h \notin faulty => NoneLost(r))
    BY <1>0, <1>1, <1>6, AtHost
  <2>2. row'[h] = R /\ R.there /\ R.no = job[r].was.no
    BY <1>0, <1>3, <1>4, <2>1 DEF KnowsRow
  <2>3. KnowsRow(r)' /\ RecordAtStep(r)'
    BY <1>5, <2>2 DEF KnowsRow, RecordAtStep, HostOf, UndeploySteps
  <2>4. h \notin faulty => Owned(h)
    BY <1>0, <1>1, <2>1 DEF NoneLost
  <2>5. h \notin faulty => Owned(h)'
    BY <1>1, <1>3, <2>2, <2>4 DEF Owned
  <2>6. h \notin faulty' => NoneLost(r)'
    BY <1>1, <1>5, <2>5 DEF NoneLost, HostOf
  <2>. QED  BY <2>3, <2>6
<1>. QED  BY <1>0, <1>4, <1>5, <1>6 DEF Sound, GoesOn

LEMMA RemoveSound == ASSUME IInv, NEW r \in Request, Remove(r) PROVE Sound(r)
<1>0. PICK h \in Host : h = HostOf(r)
  BY AtHost DEF Remove
<1>1. pc[r] = "remove" /\ Goto(r, "idle") /\ Updated(r, NoRow) /\ UNCHANGED <<record, made, daemonVars, raced, faulty, ops>>
  BY DEF Remove
<1>2. Types' /\ IdsInv' /\ Framed(r) /\ (Present(r) => row'[h] = NoRow)
  BY <1>0, <1>1, Typical, WritesRow DEF Step
<1>3. pc'[r] = "idle"
  BY <1>1, GotoDoes DEF IInv, Step
<1>4. ASSUME h \notin raced PROVE ~row'[h].there /\ (h \notin faulty' => Owned(h)')
  <2>1. Present(r) /\ (h \notin faulty => NoneLost(r))
    BY <1>0, <1>1, <1>4, AtHost
  <2>2. h \notin faulty => Gone(h)
    BY <1>0, <1>1, <2>1 DEF NoneLost
  <2>. QED  BY <1>1, <1>2, <2>1, <2>2, Typical DEF Gone, Owned
<1>. QED  BY <1>0, <1>2, <1>3, <1>4 DEF Sound, GoesOn

LEMMA PersistSound == ASSUME IInv, NEW r \in Request, PersistDnsRecordId(r) PROVE Sound(r)
<1>0. PICK h \in Host : h = HostOf(r)
  BY AtHost DEF PersistDnsRecordId
<1>. DEFINE R == [row[h] EXCEPT !.rec = seen[r].rec]
<1>1. /\ pc[r] = "persist" /\ Goto(r, "deployed") /\ Updated(r, R)
      /\ UNCHANGED <<record, made, daemonVars, raced, faulty, ops>>
  BY <1>0 DEF PersistDnsRecordId
<1>2. row[h] \in Row /\ seen[r].rec \in Nat
  BY <1>0, <1>1, AtHost DEF DeployRead
<1>3. /\ R \in Row /\ R.there = row[h].there /\ R.no = row[h].no /\ R.zone = row[h].zone /\ R.tunnel = row[h].tunnel
      /\ R.rec = seen[r].rec
  BY <1>2 DEF Row
<1>. HIDE DEF R
<1>4. Types' /\ IdsInv' /\ Framed(r) /\ (Present(r) => row'[h] = R)
  BY <1>0, <1>1, <1>3, WritesRow DEF Step, PublishSteps
<1>5. pc'[r] = "deployed" /\ job'[r] = job[r] /\ job[r].host = h /\ seen'[r].tunnel = seen[r].tunnel
  BY <1>0, <1>1, GotoDoes DEF IInv, Step, PublishSteps, HostOf
<1>6. ASSUME h \notin raced PROVE KnowsRow(r)' /\ RecordAtStep(r)' /\ (h \notin faulty' => NoneLost(r)')
  <2>1. Present(r) /\ KnowsRow(r) /\ RecordAtStep(r) /\ (h \notin faulty => NoneLost(r))
    BY <1>0, <1>1, <1>6, AtHost
  <2>2. row'[h] = R /\ R.there /\ R.no = job[r].was.no
    BY <1>0, <1>3, <1>4, <2>1 DEF KnowsRow
  <2>3. KnowsRow(r)'
    BY <1>0, <1>1, <1>3, <1>5, <2>1, <2>2 DEF KnowsRow, HostOf, UndeploySteps
  <2>4. record[R.zone][h] = [id |-> R.rec, target |-> R.tunnel]
    BY <1>0, <1>1, <1>3, <2>1 DEF RecordAtStep
  <2>5. RecordAtStep(r)'
    BY <1>1, <1>5, <2>2, <2>4 DEF RecordAtStep, HostOf
  <2>6. h \notin faulty => Made(h, seen[r]) /\ seen[r].zone = row[h].zone
    BY <1>0, <1>1, <2>1 DEF NoneLost, KnowsRow
  <2>7. h \notin faulty => Owned(h)'
    BY <1>1, <1>3, <2>2, <2>6 DEF Owned, Made
  <2>8. h \notin faulty' => NoneLost(r)'
    BY <1>1, <1>5, <2>7 DEF NoneLost, HostOf
  <2>. QED  BY <2>3, <2>5, <2>8
<1>. QED  BY <1>0, <1>4, <1>5, <1>6 DEF Sound, GoesOn

LEMMA DeployedSound == ASSUME IInv, NEW r \in Request, Deployed(r) PROVE Sound(r)
<1>0. PICK h \in Host : h = HostOf(r)
  BY AtHost DEF Deployed
<1>. DEFINE R == [row[h] EXCEPT !.err = FALSE]
<1>1. /\ pc[r] = "deployed" /\ Goto(r, "reload") /\ Updated(r, R)
      /\ UNCHANGED <<record, made, daemonVars, raced, faulty, ops>>
  BY <1>0 DEF Deployed
<1>2. row[h] \in Row
  BY <1>0, <1>1, AtHost
<1>3. /\ R \in Row /\ R.there = row[h].there /\ R.no = row[h].no /\ R.zone = row[h].zone /\ R.tunnel = row[h].tunnel
      /\ R.rec = row[h].rec
  BY <1>2 DEF Row
<1>. HIDE DEF R
<1>4. Types' /\ IdsInv' /\ Framed(r) /\ (Present(r) => row'[h] = R)
  BY <1>0, <1>1, <1>3, WritesRow DEF Step, PublishSteps
<1>5. pc'[r] = "reload" /\ job'[r] = job[r] /\ job[r].host = h /\ seen'[r].tunnel = seen[r].tunnel
  BY <1>0, <1>1, GotoDoes DEF IInv, Step, PublishSteps, HostOf
<1>6. ASSUME h \notin raced PROVE KnowsRow(r)' /\ RecordAtStep(r)' /\ (h \notin faulty' => NoneLost(r)')
  <2>1. Present(r) /\ KnowsRow(r) /\ RecordAtStep(r) /\ (h \notin faulty => NoneLost(r))
    BY <1>0, <1>1, <1>6, AtHost
  <2>2. row'[h] = R /\ R.there /\ R.no = job[r].was.no
    BY <1>0, <1>3, <1>4, <2>1 DEF KnowsRow
  <2>3. KnowsRow(r)'
    BY <1>0, <1>1, <1>3, <1>5, <2>1, <2>2 DEF KnowsRow, HostOf, UndeploySteps
  <2>4. record[R.zone][h] = [id |-> R.rec, target |-> R.tunnel]
    BY <1>0, <1>1, <1>3, <2>1 DEF RecordAtStep
  <2>5. RecordAtStep(r)'
    BY <1>1, <1>5, <2>2, <2>4 DEF RecordAtStep, HostOf
  <2>6. h \notin faulty => Owned(h)
    BY <1>0, <1>1, <2>1 DEF NoneLost
  <2>7. h \notin faulty => Owned(h)'
    BY <1>1, <1>3, <2>2, <2>6 DEF Owned
  <2>8. h \notin faulty' => NoneLost(r)'
    BY <1>1, <1>5, <2>7 DEF NoneLost, HostOf
  <2>. QED  BY <2>3, <2>5, <2>8
<1>. QED  BY <1>0, <1>4, <1>5, <1>6 DEF Sound, GoesOn

LEMMA FailSound == ASSUME IInv, NEW r \in Request, Fail(r) PROVE Sound(r)
<1>0. PICK h \in Host : h = HostOf(r)
  BY AtHost DEF Fail
<1>. DEFINE R == [row[h] EXCEPT !.err = TRUE]
<1>1. pc[r] = "fail" /\ Goto(r, "idle") /\ Updated(r, R) /\ UNCHANGED <<record, made, daemonVars, raced, faulty, ops>>
  BY <1>0 DEF Fail
<1>2. row[h] \in Row
  BY <1>0, <1>1, AtHost
<1>3. R \in Row /\ R.there = row[h].there /\ R.zone = row[h].zone /\ R.rec = row[h].rec /\ R.err
  BY <1>2 DEF Row
<1>. HIDE DEF R
<1>4. Types' /\ IdsInv' /\ Framed(r) /\ (Present(r) => row'[h] = R)
  BY <1>0, <1>1, <1>3, WritesRow DEF Step
<1>5. pc'[r] = "idle"
  BY <1>1, GotoDoes DEF IInv, Step
<1>6. ASSUME h \notin raced PROVE row'[h].err /\ (h \notin faulty' => Owned(h)')
  <2>1. Present(r) /\ (h \notin faulty => NoneLost(r))
    BY <1>0, <1>1, <1>6, AtHost
  <2>2. h \notin faulty => Owned(h)
    BY <1>0, <1>1, <2>1 DEF NoneLost
  <2>. QED  BY <1>1, <1>3, <1>4, <2>1, <2>2 DEF Owned
<1>. QED  BY <1>0, <1>4, <1>5, <1>6 DEF Sound, GoesOn

-----------------------------------------------------------------------------
(* Steps of a request: Cloudflare                                          *)

\* A request that goes on and knows more.
LEMMA GoesTo ==
  ASSUME Types, NEW r \in Request, NEW p \in Step, NEW s \in DeployRead,
         pc' = [pc EXCEPT ![r] = p], seen' = [seen EXCEPT ![r] = s], UNCHANGED job
  PROVE  RequestTypes' /\ Alike(r) /\ pc'[r] = p /\ seen'[r] = s
BY DEF Types, RequestTypes, Alike

\* One record is written.
Wrote(z, h, v) ==
    /\ record' \in [Zone -> [Host -> Record]] /\ record'[z][h] = v
    /\ \A y \in Zone, g \in Host : y # z \/ g # h => record'[y][g] = record[y][g]

LEMMA SetsRecord ==
  ASSUME Types
  PROVE  \A z \in Zone, h \in Host, v \in Record : record' = [record EXCEPT ![z][h] = v] => Wrote(z, h, v)
<1>1. record \in [Zone -> [Host -> Record]]
  BY DEF Types
<1>2. ASSUME NEW z \in Zone, NEW h \in Host, NEW v \in Record, record' = [record EXCEPT ![z][h] = v]
      PROVE  Wrote(z, h, v)
  <2>1. record' = [record EXCEPT ![z] = [record[z] EXCEPT ![h] = v]]
    BY <1>2
  <2>2. [record[z] EXCEPT ![h] = v] \in [Host -> Record]
    BY <1>1
  <2>. QED  BY <1>1, <2>1, <2>2 DEF Wrote
<1>. QED  BY <1>2

LEMMA SetsTarget ==
  ASSUME Types
  PROVE  \A z \in Zone, h \in Host, t \in Tunnel :
           record' = [record EXCEPT ![z][h].target = t] => Wrote(z, h, [id |-> record[z][h].id, target |-> t])
<1>1. SUFFICES ASSUME NEW z \in Zone, NEW h \in Host, NEW t \in Tunnel, record' = [record EXCEPT ![z][h].target = t]
               PROVE  Wrote(z, h, [id |-> record[z][h].id, target |-> t])
  OBVIOUS
<1>2. record \in [Zone -> [Host -> Record]] /\ record[z][h] \in Record
  BY DEF Types
<1>3. [record[z][h] EXCEPT !.target = t] = [id |-> record[z][h].id, target |-> t]
  BY <1>2 DEF Record
<1>4. record' = [record EXCEPT ![z] = [record[z] EXCEPT ![h] = [record[z][h] EXCEPT !.target = t]]]
  BY <1>1
<1>5. [record[z] EXCEPT ![h] = [record[z][h] EXCEPT !.target = t]] \in [Host -> Record]
  BY <1>2, <1>3 DEF Record
<1>6. record' \in [Zone -> [Host -> Record]]
  BY <1>2, <1>4, <1>5
<1>7. record'[z][h] = [record[z][h] EXCEPT !.target = t]
  BY <1>2, <1>4
<1>8. \A y \in Zone, g \in Host : y # z \/ g # h => record'[y][g] = record[y][g]
  BY <1>2, <1>4
<1>. QED  BY <1>3, <1>6, <1>7, <1>8 DEF Wrote

\* The steps that leave the rows alone.
LEMMA LeavesRow ==
  ASSUME IInv, NEW r \in Request, pc[r] # "idle", RequestTypes', Alike(r), pc'[r] # "idle" => job'[r].host = job[r].host,
         record' \in [Zone -> [Host -> Record]], made' \in [Host -> Nat],
         \A z \in Zone, h \in Host \ {HostOf(r)} : record'[z][h] = record[z][h],
         UNCHANGED <<row, config, signalled, loaded, missed, raced, ops>>,
         faulty' = faulty \/ faulty' = faulty \cup {HostOf(r)}
  PROVE  Types' /\ Framed(r)
<1>1. HostOf(r) \in Host
  BY AtHost
<1>2. Types'
  BY <1>1 DEF IInv, Types, RequestTypes
<1>3. Framed(r)
  BY DEF Framed
<1>. QED  BY <1>2, <1>3

LEMMA DeploySound == ASSUME IInv, NEW r \in Request, DeployHost(r) PROVE Sound(r)
<1>0. PICK h \in Host : h = HostOf(r)
  BY AtHost DEF DeployHost
<1>1. pc[r] = "read" /\ UNCHANGED <<row, record, made, daemonVars, raced, faulty, ops>>
  BY DEF DeployHost
<1>2. Types /\ IdsInv /\ row[h] \in Row /\ record \in [Zone -> [Host -> Record]] /\ made \in [Host -> Nat]
  BY <1>0, <1>1, AtHost DEF IInv, Types
<1>3. CASE Present(r)
  <2>. DEFINE s == Read(row[h])
              p == IF row[h].rec = None THEN "create" ELSE "upsert"
  <2>1. s \in DeployRead /\ s.tunnel = row[h].tunnel /\ s.zone = row[h].zone /\ s.rec = row[h].rec
    BY <1>2 DEF Read, DeployRead, Row
  <2>2. pc' = [pc EXCEPT ![r] = p] /\ seen' = [seen EXCEPT ![r] = s] /\ UNCHANGED job
    BY <1>0, <1>3 DEF DeployHost
  <2>3. p \in {"create", "upsert"} /\ p \in Step /\ (p = "upsert" => s.rec # None)
    BY <2>1 DEF Step, PublishSteps
  <2>. HIDE DEF s, p
  <2>4. RequestTypes' /\ Alike(r) /\ pc'[r] = p /\ seen'[r] = s
    BY <1>2, <2>1, <2>2, <2>3, GoesTo
  <2>5. Types' /\ Framed(r)
    BY <1>1, <1>2, <2>2, <2>4, LeavesRow DEF daemonVars
  <2>6. IdsInv'
    BY <1>1, <1>2, <2>3, <2>4, IdsKept
  <2>7. ASSUME h \notin raced PROVE KnowsRow(r)' /\ RecordAtStep(r)' /\ (h \notin faulty' => NoneLost(r)')
    <3>1. KnowsRow(r) /\ (h \notin faulty => NoneLost(r))
      BY <1>0, <1>1, <2>7, AtHost
    <3>2. KnowsRow(r)' /\ RecordAtStep(r)'
      BY <1>0, <1>1, <2>1, <2>2, <2>3, <2>4, <3>1 DEF KnowsRow, RecordAtStep, HostOf, UndeploySteps
    <3>3. h \notin faulty => Owned(h)
      BY <1>0, <1>1, <3>1 DEF NoneLost
    <3>4. h \notin faulty => Owned(h)'
      BY <1>1, <3>3 DEF Owned
    <3>5. h \notin faulty' => NoneLost(r)'
      BY <1>0, <1>1, <2>2, <2>3, <2>4, <3>4 DEF NoneLost, HostOf
    <3>. QED  BY <3>2, <3>5
  <2>8. pc'[r] # "idle"
    BY <2>3, <2>4
  <2>. QED  BY <1>0, <2>5, <2>6, <2>7, <2>8 DEF Sound, GoesOn
<1>4. CASE ~Present(r)
  <2>1. Goto(r, "idle")
    BY <1>4 DEF DeployHost
  <2>2. RequestTypes' /\ Alike(r) /\ pc'[r] = "idle"
    BY <1>2, <2>1, GotoDoes DEF Step
  <2>3. Types' /\ Framed(r)
    BY <1>1, <1>2, <2>2, LeavesRow DEF daemonVars
  <2>4. IdsInv'
    BY <1>1, <1>2, <2>2, IdsKept
  <2>5. h \in raced
    BY <1>0, <1>1, <1>4, AtHost
  <2>. QED  BY <1>0, <2>3, <2>4, <2>5 DEF Sound, GoesOn
<1>. QED  BY <1>3, <1>4

LEMMA UpsertSound == ASSUME IInv, NEW r \in Request, UpsertCnameRecord(r) PROVE Sound(r)
<1>0. PICK h \in Host : h = HostOf(r)
  BY AtHost DEF UpsertCnameRecord
<1>. DEFINE s == seen[r]
            known == record[s.zone][h].id = s.rec
            p == IF known THEN "persist" ELSE "create"
<1>1. pc[r] = "upsert" /\ Goto(r, p) /\ UNCHANGED <<row, made, daemonVars, raced, faulty, ops>>
  BY <1>0 DEF UpsertCnameRecord
<1>2. /\ Types /\ IdsInv /\ row[h] \in Row /\ record \in [Zone -> [Host -> Record]] /\ made \in [Host -> Nat]
      /\ s \in DeployRead /\ s.rec # None /\ s.zone \in Zone /\ s.tunnel \in Tunnel
  BY <1>0, <1>1, AtHost DEF IInv, Types, IdsInv, DeployRead
<1>3. p \in {"persist", "create"} /\ p \in Step
  BY DEF Step, PublishSteps
<1>4. /\ RequestTypes' /\ Alike(r) /\ pc'[r] = p /\ job'[r] = job[r] /\ seen'[r] = s
  BY <1>1, <1>2, <1>3, GotoDoes
<1>5. /\ record' \in [Zone -> [Host -> Record]]
      /\ \A z \in Zone, g \in Host : z # s.zone \/ g # h => record'[z][g] = record[z][g]
      /\ known => record'[s.zone][h] = [id |-> s.rec, target |-> s.tunnel]
      /\ ~known => record' = record
  <2>1. record' = IF known THEN [record EXCEPT ![s.zone][h].target = s.tunnel] ELSE record
    BY <1>0, <1>1 DEF UpsertCnameRecord
  <2>2. CASE known
    <3>1. record' = [record EXCEPT ![s.zone][h].target = s.tunnel]
      BY <2>1, <2>2
    <3>2. Wrote(s.zone, h, [id |-> record[s.zone][h].id, target |-> s.tunnel])
      BY <1>2, <3>1, SetsTarget
    <3>. QED  BY <2>2, <3>2 DEF Wrote
  <2>3. CASE ~known
    BY <1>2, <2>1, <2>3
  <2>. QED  BY <2>2, <2>3
<1>6. Types' /\ Framed(r)
  BY <1>0, <1>1, <1>2, <1>4, <1>5, LeavesRow DEF daemonVars
<1>7. IdsInv'
  <2>1. ASSUME NEW z \in Zone, NEW g \in Host, record'[z][g].id = None PROVE record'[z][g] = NoRecord
    BY <1>2, <1>5, <2>1 DEF IdsInv
  <2>2. ASSUME NEW q \in Request, pc'[q] = "upsert" PROVE seen'[q].rec # None
    BY <1>2, <1>3, <1>4, <2>2 DEF IdsInv, Alike
  <2>. QED  BY <2>1, <2>2 DEF IdsInv
<1>8. ASSUME h \notin raced PROVE KnowsRow(r)' /\ RecordAtStep(r)' /\ (h \notin faulty' => NoneLost(r)')
  <2>1. KnowsRow(r) /\ (h \notin faulty => NoneLost(r))
    BY <1>0, <1>1, <1>8, AtHost
  <2>2. s.tunnel = row[h].tunnel /\ s.zone = row[h].zone
    BY <1>0, <1>1, <2>1 DEF KnowsRow
  <2>3. KnowsRow(r)'
    BY <1>0, <1>1, <1>3, <1>4, <2>1, <2>2 DEF KnowsRow, HostOf, UndeploySteps
  <2>4. RecordAtStep(r)'
    BY <1>0, <1>1, <1>3, <1>4, <1>5, <2>2 DEF RecordAtStep, HostOf
  <2>5. h \notin faulty => Owned(h)
    BY <1>0, <1>1, <2>1 DEF NoneLost
  <2>6. CASE known
    <3>1. ASSUME h \notin faulty, NEW z \in Zone, record'[z][h] # NoRecord PROVE s.zone = z /\ s.rec = record'[z][h].id
      BY <1>5, <2>2, <2>5, <2>6, <3>1 DEF Owned
    <3>2. h \notin faulty => Made(h, s)'
      BY <1>4, <3>1 DEF Made
    <3>3. ASSUME h \notin faulty PROVE NoneLost(r)'
      <4>1. pc'[r] = "persist" /\ job'[r].host = h /\ seen'[r] = s
        BY <1>0, <1>4, <2>6 DEF HostOf
      <4>2. Made(h, seen[r])'
        BY <3>1, <3>3, <4>1 DEF Made
      <4>. QED  BY <4>1, <4>2 DEF NoneLost, HostOf
    <3>. QED  BY <1>1, <2>3, <2>4, <3>3
  <2>7. CASE ~known
    <3>1. h \notin faulty => Owned(h)'
      BY <1>1, <1>5, <2>5, <2>7 DEF Owned
    <3>2. h \notin faulty' => NoneLost(r)'
      BY <1>0, <1>1, <1>4, <2>7, <3>1 DEF NoneLost, HostOf
    <3>. QED  BY <2>3, <2>4, <3>2
  <2>. QED  BY <2>6, <2>7
<1>9. pc'[r] # "idle"
  BY <1>3, <1>4
<1>. QED  BY <1>0, <1>6, <1>7, <1>8, <1>9 DEF Sound, GoesOn

\* A record that is created: its id is new, and there was none in its place.
LEMMA Created ==
  ASSUME IInv, NEW r \in Request, pc[r] = "create", NEW h \in Host, h = HostOf(r), record[seen[r].zone][h] = NoRecord,
         made' = [made EXCEPT ![h] = @ + 1],
         record' = [record EXCEPT ![seen[r].zone][h] = [id |-> made[h] + 1, target |-> seen[r].tunnel]]
  PROVE  /\ made' \in [Host -> Nat] /\ record' \in [Zone -> [Host -> Record]]
         /\ made[h] + 1 \in Nat \ {0}
         /\ record'[seen[r].zone][h] = [id |-> made[h] + 1, target |-> seen[r].tunnel]
         /\ \A z \in Zone, g \in Host : z # seen[r].zone \/ g # h => record'[z][g] = record[z][g]
         /\ \A z \in Zone, g \in Host : record'[z][g].id = None => record'[z][g] = NoRecord
<1>1. Types /\ IdsInv /\ made \in [Host -> Nat] /\ made[h] \in Nat /\ seen[r].zone \in Zone /\ seen[r].tunnel \in Tunnel
  BY DEF IInv, Types, DeployRead
<1>. DEFINE v == [id |-> made[h] + 1, target |-> seen[r].tunnel]
<1>2. v \in Record /\ v.id = made[h] + 1 /\ v.id # None
  BY <1>1 DEF Record, None
<1>. HIDE DEF v
<1>3. /\ record' \in [Zone -> [Host -> Record]] /\ record'[seen[r].zone][h] = v
      /\ \A z \in Zone, g \in Host : z # seen[r].zone \/ g # h => record'[z][g] = record[z][g]
  <2>1. record' = [record EXCEPT ![seen[r].zone][h] = v] /\ v \in Record
    BY <1>2 DEF v
  <2>2. Wrote(seen[r].zone, h, v)
    BY <1>1, <2>1, SetsRecord
  <2>. QED  BY <2>2 DEF Wrote
<1>4. \A z \in Zone, g \in Host : record'[z][g].id = None => record'[z][g] = NoRecord
  BY <1>1, <1>2, <1>3 DEF IdsInv
<1>5. made' \in [Host -> Nat] /\ made[h] + 1 \in Nat \ {0}
  BY <1>1
<1>. QED  BY <1>3, <1>4, <1>5 DEF v

LEMMA CreateSound == ASSUME IInv, NEW r \in Request, CreateRecord(r) PROVE Sound(r)
<1>0. PICK h \in Host : h = HostOf(r)
  BY AtHost DEF CreateRecord
<1>. DEFINE s == seen[r]
<1>1. pc[r] = "create" /\ UNCHANGED <<row, daemonVars, raced, faulty, ops>>
  BY DEF CreateRecord
<1>2. /\ Types /\ IdsInv /\ row[h] \in Row /\ record \in [Zone -> [Host -> Record]] /\ made \in [Host -> Nat]
      /\ s \in DeployRead /\ s.zone \in Zone /\ s.tunnel \in Tunnel
  BY <1>0, <1>1, AtHost DEF IInv, Types, DeployRead
<1>3. CASE record[s.zone][h] = NoRecord
  <2>. DEFINE n == made[h] + 1
              u == [s EXCEPT !.rec = n]
  <2>1. /\ made' = [made EXCEPT ![h] = @ + 1]
        /\ record' = [record EXCEPT ![s.zone][h] = [id |-> n, target |-> s.tunnel]]
        /\ seen' = [seen EXCEPT ![r] = u] /\ pc' = [pc EXCEPT ![r] = "persist"] /\ UNCHANGED job
    BY <1>0, <1>3 DEF CreateRecord
  <2>2. /\ made' \in [Host -> Nat] /\ record' \in [Zone -> [Host -> Record]] /\ n \in Nat \ {0}
        /\ record'[s.zone][h] = [id |-> n, target |-> s.tunnel]
        /\ \A z \in Zone, g \in Host : z # s.zone \/ g # h => record'[z][g] = record[z][g]
        /\ \A z \in Zone, g \in Host : record'[z][g].id = None => record'[z][g] = NoRecord
    BY <1>0, <1>1, <1>3, <2>1, Created
  <2>3. u \in DeployRead /\ u.zone = s.zone /\ u.tunnel = s.tunnel /\ u.rec = n
    BY <1>2, <2>2 DEF DeployRead
  <2>. HIDE DEF u, n
  <2>4. RequestTypes' /\ Alike(r) /\ pc'[r] = "persist" /\ seen'[r] = u
    BY <1>2, <2>1, <2>3, GoesTo DEF Step, PublishSteps
  <2>5. Types' /\ Framed(r)
    BY <1>0, <1>1, <2>1, <2>2, <2>4, LeavesRow DEF daemonVars
  <2>6. IdsInv'
    <3>1. ASSUME NEW q \in Request, pc'[q] = "upsert" PROVE seen'[q].rec # None
      BY <1>2, <2>4, <3>1 DEF IdsInv, Alike
    <3>. QED  BY <2>2, <3>1 DEF IdsInv
  <2>7. ASSUME h \notin raced PROVE KnowsRow(r)' /\ RecordAtStep(r)' /\ (h \notin faulty' => NoneLost(r)')
    <3>1. KnowsRow(r) /\ (h \notin faulty => NoneLost(r))
      BY <1>0, <1>1, <2>7, AtHost
    <3>2. s.tunnel = row[h].tunnel /\ s.zone = row[h].zone
      BY <1>0, <1>1, <3>1 DEF KnowsRow
    <3>3. KnowsRow(r)'
      BY <1>0, <1>1, <2>1, <2>3, <2>4, <3>1, <3>2 DEF KnowsRow, HostOf, UndeploySteps
    <3>4. RecordAtStep(r)'
      BY <1>0, <1>1, <2>1, <2>2, <2>3, <2>4, <3>2 DEF RecordAtStep, HostOf
    <3>5. h \notin faulty => Owned(h)
      BY <1>0, <1>1, <3>1 DEF NoneLost
    <3>6. ASSUME h \notin faulty, NEW z \in Zone, record'[z][h] # NoRecord PROVE u.zone = z /\ u.rec = record'[z][h].id
      BY <2>2, <2>3, <3>2, <3>5, <3>6 DEF Owned
    <3>7. h \notin faulty => Made(h, seen[r])'
      BY <2>4, <3>6 DEF Made
    <3>8. h \notin faulty' => NoneLost(r)'
      BY <1>0, <1>1, <2>1, <2>4, <3>7 DEF NoneLost, HostOf
    <3>. QED  BY <3>3, <3>4, <3>8
  <2>. QED  BY <1>0, <2>4, <2>5, <2>6, <2>7 DEF Sound, GoesOn
<1>4. CASE record[s.zone][h] # NoRecord
  <2>1. Goto(r, "fail") /\ UNCHANGED <<made, record>>
    BY <1>0, <1>4 DEF CreateRecord
  <2>2. RequestTypes' /\ Alike(r) /\ pc'[r] = "fail" /\ job'[r] = job[r]
    BY <1>2, <2>1, GotoDoes DEF Step, PublishSteps
  <2>3. Types' /\ Framed(r)
    BY <1>1, <1>2, <2>1, <2>2, LeavesRow DEF daemonVars
  <2>4. IdsInv'
    BY <1>2, <2>1, <2>2, IdsKept
  <2>5. ASSUME h \notin raced PROVE KnowsRow(r)' /\ RecordAtStep(r)' /\ (h \notin faulty' => NoneLost(r)')
    <3>1. KnowsRow(r) /\ (h \notin faulty => NoneLost(r))
      BY <1>0, <1>1, <2>5, AtHost
    <3>2. KnowsRow(r)' /\ RecordAtStep(r)'
      BY <1>0, <1>1, <2>2, <3>1 DEF KnowsRow, RecordAtStep, HostOf, UndeploySteps
    <3>3. h \notin faulty => Owned(h)
      BY <1>0, <1>1, <3>1 DEF NoneLost
    <3>4. h \notin faulty => Owned(h)'
      BY <1>1, <2>1, <3>3 DEF Owned
    <3>5. h \notin faulty' => NoneLost(r)'
      BY <1>0, <1>1, <2>2, <3>4 DEF NoneLost, HostOf
    <3>. QED  BY <3>2, <3>5
  <2>. QED  BY <1>0, <2>2, <2>3, <2>4, <2>5 DEF Sound, GoesOn
<1>. QED  BY <1>3, <1>4

LEMMA CloudflareFailsSound == ASSUME IInv, NEW r \in Request, CloudflareFails(r) PROVE Sound(r)
<1>0. PICK h \in Host : h = HostOf(r)
  BY AtHost DEF CloudflareFails
<1>. DEFINE s == seen[r]
<1>1. /\ pc[r] \in {"upsert", "create"} /\ Goto(r, "fail") /\ faulty' = faulty \cup {h}
      /\ UNCHANGED <<row, daemonVars, raced, ops>>
  BY <1>0 DEF CloudflareFails
<1>2. /\ Types /\ IdsInv /\ row[h] \in Row /\ record \in [Zone -> [Host -> Record]] /\ made \in [Host -> Nat]
      /\ s \in DeployRead /\ s.zone \in Zone /\ s.tunnel \in Tunnel
  BY <1>0, <1>1, AtHost DEF IInv, Types, DeployRead
<1>3. RequestTypes' /\ Alike(r) /\ pc'[r] = "fail" /\ job'[r] = job[r]
  BY <1>1, <1>2, GotoDoes DEF Step, PublishSteps
<1>4. /\ made' \in [Host -> Nat] /\ record' \in [Zone -> [Host -> Record]]
      /\ \A z \in Zone, g \in Host : z # s.zone \/ g # h => record'[z][g] = record[z][g]
      /\ \A z \in Zone, g \in Host : record'[z][g].id = None => record'[z][g] = NoRecord
  <2>1. CASE UNCHANGED <<record, made>>
    BY <1>2, <2>1 DEF IdsInv
  <2>2. CASE /\ pc[r] = "upsert" /\ record[s.zone][h].id = s.rec
             /\ record' = [record EXCEPT ![s.zone][h].target = s.tunnel] /\ UNCHANGED made
    <3>1. Wrote(s.zone, h, [id |-> record[s.zone][h].id, target |-> s.tunnel])
      BY <1>2, <2>2, SetsTarget
    <3>2. s.rec # None
      BY <1>2, <2>2 DEF IdsInv
    <3>. QED  BY <1>2, <2>2, <3>1, <3>2 DEF Wrote, IdsInv
  <2>3. CASE /\ pc[r] = "create" /\ record[s.zone][h] = NoRecord /\ made' = [made EXCEPT ![h] = @ + 1]
             /\ record' = [record EXCEPT ![s.zone][h] = [id |-> made[h] + 1, target |-> s.tunnel]]
    BY <1>0, <2>3, Created
  <2>. QED  BY <1>0, <2>1, <2>2, <2>3 DEF CloudflareFails
<1>5. Types' /\ Framed(r)
  BY <1>0, <1>1, <1>2, <1>3, <1>4, LeavesRow DEF daemonVars
<1>6. IdsInv'
  <2>1. ASSUME NEW q \in Request, pc'[q] = "upsert" PROVE seen'[q].rec # None
    BY <1>2, <1>3, <2>1 DEF IdsInv, Alike
  <2>. QED  BY <1>4, <2>1 DEF IdsInv
<1>7. ASSUME h \notin raced PROVE KnowsRow(r)' /\ RecordAtStep(r)'
  <2>1. KnowsRow(r)
    BY <1>0, <1>1, <1>7, AtHost
  <2>. QED  BY <1>0, <1>1, <1>3, <2>1 DEF KnowsRow, RecordAtStep, HostOf, UndeploySteps
<1>. QED  BY <1>0, <1>1, <1>3, <1>5, <1>6, <1>7 DEF Sound, GoesOn

\* Where a caller of undeployHost goes on.
LEMMA AfterUndeploySteps ==
  ASSUME NEW r
  PROVE  /\ AfterUndeploy(r) \in Step \ {"upsert"} /\ AfterUndeploy(r) \in {"remove", "update", "idle"}
         /\ AfterUndeploy(r) = "update" => job[r].kind = "edit"
         /\ job[r].kind \in {"edit", "delete"} => AfterUndeploy(r) # "idle"
BY DEF AfterUndeploy, Step

LEMMA UndeploySound == ASSUME IInv, NEW r \in Request, UndeployHost(r) PROVE Sound(r)
<1>0. PICK h \in Host : h = HostOf(r)
  BY AtHost DEF UndeployHost
<1>1. pc[r] = "undeploy" /\ UNCHANGED <<row, record, made, daemonVars, raced, faulty, ops>>
  BY DEF UndeployHost
<1>2. Types /\ IdsInv /\ row[h] \in Row /\ record \in [Zone -> [Host -> Record]] /\ made \in [Host -> Nat]
  BY <1>0, <1>1, AtHost DEF IInv, Types
<1>3. CASE Present(r)
  <2>. DEFINE p == IF row[h].rec # None THEN "unpublish" ELSE "rerender"
              s == Read(row[h])
              u == SeenAt(s, p)
  <2>1. s \in DeployRead /\ s.tunnel = row[h].tunnel /\ s.zone = row[h].zone /\ s.rec = row[h].rec
    BY <1>2 DEF Read, DeployRead, Row
  <2>2. pc' = [pc EXCEPT ![r] = p] /\ seen' = [seen EXCEPT ![r] = u] /\ UNCHANGED job
    BY <1>0, <1>3 DEF UndeployHost
  <2>3. p \in {"unpublish", "rerender"} /\ p \in Step /\ (p = "rerender" <=> row[h].rec = None)
    BY DEF Step, UndeploySteps
  <2>. HIDE DEF s, p
  <2>4. u \in DeployRead /\ u.tunnel = s.tunnel /\ (p = "unpublish" => u = s)
    BY <2>1, <2>3, SeenAtTypes
  <2>. HIDE DEF u
  <2>5. RequestTypes' /\ Alike(r) /\ pc'[r] = p /\ seen'[r] = u
    BY <1>2, <2>2, <2>3, <2>4, GoesTo
  <2>6. Types' /\ Framed(r)
    BY <1>1, <1>2, <2>2, <2>5, LeavesRow DEF daemonVars
  <2>7. IdsInv'
    BY <1>1, <1>2, <2>3, <2>5, IdsKept
  <2>8. ASSUME h \notin raced PROVE KnowsRow(r)' /\ RecordAtStep(r)' /\ (h \notin faulty' => NoneLost(r)')
    <3>1. KnowsRow(r) /\ (h \notin faulty => NoneLost(r))
      BY <1>0, <1>1, <2>8, AtHost
    <3>2. KnowsRow(r)' /\ RecordAtStep(r)'
      BY <1>0, <1>1, <2>1, <2>2, <2>3, <2>4, <2>5, <3>1 DEF KnowsRow, RecordAtStep, HostOf, UndeploySteps
    <3>3. h \notin faulty => Owned(h)
      BY <1>0, <1>1, <3>1 DEF NoneLost
    <3>4. h \notin faulty => Owned(h)'
      BY <1>1, <3>3 DEF Owned
    <3>5. h \notin faulty /\ p = "rerender" => Gone(h)'
      BY <1>1, <1>2, <2>3, <3>3 DEF Owned, Gone, IdsInv
    <3>6. h \notin faulty' => NoneLost(r)'
      BY <1>0, <1>1, <2>2, <2>3, <2>5, <3>4, <3>5 DEF NoneLost, HostOf
    <3>. QED  BY <3>2, <3>6
  <2>9. pc'[r] # "idle"
    BY <2>3, <2>5
  <2>. QED  BY <1>0, <2>6, <2>7, <2>8, <2>9 DEF Sound, GoesOn
<1>4. CASE ~Present(r)
  <2>1. Goto(r, AfterUndeploy(r))
    BY <1>4 DEF UndeployHost
  <2>2. /\ RequestTypes' /\ Alike(r) /\ pc'[r] # "upsert"
        /\ pc'[r] # "idle" => job'[r].host = job[r].host
    BY <1>2, <2>1, GotoDoes, AfterUndeploySteps
  <2>3. Types' /\ Framed(r)
    BY <1>1, <1>2, <2>2, LeavesRow DEF daemonVars
  <2>4. IdsInv'
    BY <1>1, <1>2, <2>2, IdsKept
  <2>5. h \in raced
    BY <1>0, <1>1, <1>4, AtHost
  <2>. QED  BY <1>0, <2>3, <2>4, <2>5 DEF Sound, GoesOn
<1>. QED  BY <1>3, <1>4

LEMMA DeleteSound == ASSUME IInv, NEW r \in Request, DeleteDnsRecord(r) PROVE Sound(r)
<1>0. PICK h \in Host : h = HostOf(r)
  BY AtHost DEF DeleteDnsRecord
<1>. DEFINE s == seen[r]
<1>1. /\ pc[r] = "unpublish" /\ Goto(r, "rerender") /\ UNCHANGED <<row, made, daemonVars, raced, faulty, ops>>
      /\ record' = IF record[s.zone][h].id = s.rec THEN [record EXCEPT ![s.zone][h] = NoRecord] ELSE record
  BY <1>0 DEF DeleteDnsRecord
<1>2. /\ Types /\ IdsInv /\ row[h] \in Row /\ record \in [Zone -> [Host -> Record]] /\ made \in [Host -> Nat]
      /\ s \in DeployRead /\ s.zone \in Zone /\ s.tunnel \in Tunnel
  BY <1>0, <1>1, AtHost DEF IInv, Types, DeployRead
<1>3. RequestTypes' /\ Alike(r) /\ pc'[r] = "rerender" /\ job'[r] = job[r] /\ seen'[r].tunnel = s.tunnel
  BY <1>1, <1>2, GotoDoes DEF Step, UndeploySteps
<1>4. \/ record[s.zone][h].id = s.rec /\ Wrote(s.zone, h, NoRecord)
      \/ record[s.zone][h].id # s.rec /\ record' = record
  BY <1>1, <1>2, Typical, SetsRecord
<1>5. /\ record' \in [Zone -> [Host -> Record]]
      /\ \A z \in Zone, g \in Host : z # s.zone \/ g # h => record'[z][g] = record[z][g]
      /\ record[s.zone][h].id = s.rec => record'[s.zone][h] = NoRecord
      /\ record[s.zone][h].id # s.rec => record' = record
  BY <1>2, <1>4 DEF Wrote
<1>6. Types' /\ Framed(r)
  BY <1>0, <1>1, <1>2, <1>3, <1>5, LeavesRow DEF daemonVars
<1>7. IdsInv'
  <2>1. ASSUME NEW z \in Zone, NEW g \in Host, record'[z][g].id = None PROVE record'[z][g] = NoRecord
    BY <1>2, <1>5, <2>1 DEF IdsInv
  <2>2. ASSUME NEW q \in Request, pc'[q] = "upsert" PROVE seen'[q].rec # None
    BY <1>2, <1>3, <2>2 DEF IdsInv, Alike
  <2>. QED  BY <2>1, <2>2 DEF IdsInv
<1>8. ASSUME h \notin raced PROVE KnowsRow(r)' /\ RecordAtStep(r)' /\ (h \notin faulty' => NoneLost(r)')
  <2>1. KnowsRow(r) /\ (h \notin faulty => NoneLost(r))
    BY <1>0, <1>1, <1>8, AtHost
  <2>2. KnowsRow(r)' /\ RecordAtStep(r)'
    BY <1>0, <1>1, <1>3, <2>1 DEF KnowsRow, RecordAtStep, HostOf, UndeploySteps
  <2>3. s.zone = row[h].zone /\ s.rec = row[h].rec
    BY <1>0, <1>1, <2>1 DEF KnowsRow
  <2>4. h \notin faulty => Owned(h)
    BY <1>0, <1>1, <2>1 DEF NoneLost
  <2>5. h \notin faulty => Gone(h)'
    BY <1>1, <1>5, <2>3, <2>4 DEF Owned, Gone
  <2>6. h \notin faulty' => NoneLost(r)'
    BY <1>0, <1>1, <1>3, <2>5 DEF NoneLost, HostOf
  <2>. QED  BY <2>2, <2>6
<1>. QED  BY <1>0, <1>3, <1>6, <1>7, <1>8 DEF Sound, GoesOn

LEMMA DeleteFailsSound == ASSUME IInv, NEW r \in Request, DeleteFails(r) PROVE Sound(r)
<1>0. PICK h \in Host : h = HostOf(r)
  BY AtHost DEF DeleteFails
<1>1. /\ pc[r] = "unpublish" /\ Goto(r, "rerender") /\ UNCHANGED <<row, record, made, daemonVars, raced, ops>>
      /\ faulty' = faulty \cup {h}
  BY <1>0 DEF DeleteFails
<1>2. Types /\ IdsInv /\ record \in [Zone -> [Host -> Record]] /\ made \in [Host -> Nat]
  BY DEF IInv, Types
<1>3. RequestTypes' /\ Alike(r) /\ pc'[r] = "rerender" /\ job'[r] = job[r] /\ seen'[r].tunnel = seen[r].tunnel
  BY <1>1, <1>2, GotoDoes DEF Step, UndeploySteps
<1>4. Types' /\ Framed(r)
  BY <1>0, <1>1, <1>2, <1>3, LeavesRow DEF daemonVars
<1>5. IdsInv'
  BY <1>1, <1>2, <1>3, IdsKept
<1>6. ASSUME h \notin raced PROVE KnowsRow(r)' /\ RecordAtStep(r)'
  <2>1. KnowsRow(r)
    BY <1>0, <1>1, <1>6, AtHost
  <2>. QED  BY <1>0, <1>1, <1>3, <2>1 DEF KnowsRow, RecordAtStep, HostOf, UndeploySteps
<1>. QED  BY <1>0, <1>1, <1>3, <1>4, <1>5, <1>6 DEF Sound, GoesOn

-----------------------------------------------------------------------------
(* Steps of a request: rebuildConfig                                       *)

LEMMA ReloadSound == ASSUME IInv, NEW r \in Request, Reload(r) PROVE Sound(r)
<1>0. PICK h \in Host : h = HostOf(r)
  BY AtHost DEF Reload
<1>1. UNCHANGED <<row, record, made, built, config, signalled, loaded, missed, raced, faulty, ops>>
  BY DEF Reload
<1>2. Types /\ IdsInv /\ record \in [Zone -> [Host -> Record]] /\ made \in [Host -> Nat]
  BY DEF IInv, Types
<1>3. PICK p \in {"deploying", "undeploying"} :
        /\ Goto(r, p) /\ (p = "deploying" => pc[r] = "reload") /\ (p = "undeploying" => pc[r] = "rerender")
  BY DEF Reload
<1>4. RequestTypes' /\ Alike(r) /\ pc'[r] = p /\ job'[r] = job[r] /\ seen'[r].tunnel = seen[r].tunnel /\ p \in Step
  BY <1>2, <1>3, GotoDoes DEF Step, UndeploySteps, PublishSteps
<1>5. Types' /\ Framed(r)
  BY <1>0, <1>1, <1>2, <1>3, <1>4, LeavesRow
<1>6. IdsInv'
  BY <1>1, <1>2, <1>3, <1>4, IdsKept
<1>7. ASSUME h \notin raced PROVE KnowsRow(r)' /\ RecordAtStep(r)' /\ (h \notin faulty' => NoneLost(r)')
  <2>1. KnowsRow(r) /\ RecordAtStep(r) /\ (h \notin faulty => NoneLost(r))
    BY <1>0, <1>3, <1>7, AtHost
  <2>2. KnowsRow(r)' /\ RecordAtStep(r)'
    BY <1>0, <1>1, <1>3, <1>4, <2>1 DEF KnowsRow, RecordAtStep, HostOf, UndeploySteps
  <2>3. CASE p = "deploying"
    <3>1. h \notin faulty => Owned(h)
      BY <1>0, <1>3, <2>1, <2>3 DEF NoneLost
    <3>2. h \notin faulty => Owned(h)'
      BY <1>1, <3>1 DEF Owned
    <3>. QED  BY <1>0, <1>1, <1>4, <2>2, <2>3, <3>2 DEF NoneLost, HostOf
  <2>4. CASE p = "undeploying"
    <3>1. h \notin faulty => Gone(h)
      BY <1>0, <1>3, <2>1, <2>4 DEF NoneLost
    <3>2. h \notin faulty => Gone(h)'
      BY <1>1, <3>1 DEF Gone
    <3>. QED  BY <1>0, <1>1, <1>4, <2>2, <2>4, <3>2 DEF NoneLost, HostOf
  <2>. QED  BY <2>3, <2>4
<1>. QED  BY <1>0, <1>3, <1>4, <1>5, <1>6, <1>7 DEF Sound, GoesOn

\* How a call of rebuildConfig ends for its caller, apart from what it did to config.yml.
LEMMA EndsSound ==
  ASSUME IInv, NEW r \in Request, NEW next \in {"idle", "fail"}, CallEnds(r, next),
         UNCHANGED <<row, record, made, raced, faulty, ops>>
  PROVE  /\ IdsInv' /\ Framed(r) /\ GoesOn(r) /\ RequestTypes'
         /\ pc'[r] \notin Waiting
         /\ HostOf(r) \notin raced /\ pc'[r] = "idle" => (pc[r] = "undeploying" => ~row[HostOf(r)].on)
         /\ pc[r] = "deploying" => pc'[r] = next
<1>1. pc[r] \in Waiting /\ Goto(r, Resumed(r, next))
  BY DEF CallEnds
<1>0. PICK h \in Host : h = HostOf(r)
  BY <1>1, AtHost DEF Waiting
<1>2. Types /\ IdsInv
  BY DEF IInv, Types
<1>3. PICK p \in Step \ {"upsert"} :
        /\ p = Resumed(r, next) /\ p \in {"remove", "update", "idle", "fail"}
        /\ pc[r] = "undeploying" => p = AfterUndeploy(r)
        /\ pc[r] = "deploying" => p = next
  <2>1. Resumed(r, next) \in Step \ {"upsert"} /\ Resumed(r, next) \in {"remove", "update", "idle", "fail"}
    BY AfterUndeploySteps DEF Resumed, Step, PublishSteps
  <2>2. /\ pc[r] = "undeploying" => Resumed(r, next) = AfterUndeploy(r)
        /\ pc[r] = "deploying" => Resumed(r, next) = next
    BY DEF Resumed
  <2>. QED  BY <2>1, <2>2
<1>4. /\ RequestTypes' /\ Alike(r) /\ pc'[r] = p
      /\ p # "idle" => job'[r] = job[r]
  BY <1>1, <1>2, <1>3, GotoDoes
<1>5. Framed(r)
  BY <1>4 DEF Framed
<1>6. IdsInv'
  BY <1>2, <1>3, <1>4, IdsKept
<1>7. ASSUME h \notin raced
      PROVE  /\ p # "idle" => KnowsRow(r)' /\ RecordAtStep(r)' /\ (h \notin faulty' => NoneLost(r)')
             /\ p = "idle" =>
                  /\ row'[h].there /\ row'[h].on /\ ~row'[h].err
                        => record'[row'[h].zone][h] = [id |-> row'[h].rec, target |-> row'[h].tunnel]
                  /\ h \notin faulty' => Owned(h)'
             /\ p = "idle" /\ pc[r] = "undeploying" => ~row[h].on
  <2>1. KnowsRow(r) /\ RecordAtStep(r) /\ (h \notin faulty => NoneLost(r))
    BY <1>0, <1>1, <1>7, AtHost DEF Waiting
  <2>2. CASE pc[r] = "undeploying"
    <3>1. p = AfterUndeploy(r) /\ p \in {"remove", "update", "idle"} /\ (p = "update" => job[r].kind = "edit")
      BY <1>3, <2>2, AfterUndeploySteps
    <3>2. p = "idle" => ~row[h].on
      BY <1>0, <2>1, <2>2, <3>1, AfterUndeploySteps DEF KnowsRow, UndeploySteps
    <3>3. p # "idle" => KnowsRow(r)' /\ RecordAtStep(r)'
      BY <1>0, <1>4, <2>1, <2>2, <3>1 DEF KnowsRow, RecordAtStep, HostOf, UndeploySteps
    <3>4. h \notin faulty => Gone(h)
      BY <1>0, <2>1, <2>2 DEF NoneLost
    <3>5. h \notin faulty => Gone(h)' /\ Owned(h)'
      BY <3>4 DEF Gone, Owned
    <3>6. p # "idle" /\ h \notin faulty' => NoneLost(r)'
      BY <1>0, <1>4, <3>1, <3>5 DEF NoneLost, HostOf
    <3>. QED  BY <3>2, <3>3, <3>5, <3>6
  <2>3. CASE pc[r] = "deploying"
    <3>1. p \in {"idle", "fail"}
      BY <1>3, <2>3
    <3>2. record[row[h].zone][h] = [id |-> row[h].rec, target |-> row[h].tunnel]
      BY <1>0, <2>1, <2>3 DEF RecordAtStep
    <3>3. h \notin faulty => Owned(h)
      BY <1>0, <2>1, <2>3 DEF NoneLost
    <3>4. h \notin faulty => Owned(h)'
      BY <3>3 DEF Owned
    <3>5. p # "idle" => KnowsRow(r)' /\ RecordAtStep(r)'
      BY <1>0, <1>4, <2>1, <2>3, <3>1 DEF KnowsRow, RecordAtStep, HostOf, UndeploySteps
    <3>6. p # "idle" /\ h \notin faulty' => NoneLost(r)'
      BY <1>0, <1>4, <3>1, <3>4 DEF NoneLost, HostOf
    <3>. QED  BY <2>3, <3>2, <3>4, <3>5, <3>6
  <2>. QED  BY <1>1, <2>2, <2>3 DEF Waiting
<1>8. GoesOn(r)
  BY <1>0, <1>1, <1>4, <1>7 DEF GoesOn
<1>. QED  BY <1>0, <1>3, <1>4, <1>5, <1>6, <1>7, <1>8 DEF Waiting

\* What the others know is not touched.
LEMMA SoundKeeps ==
  ASSUME IInv, NEW r \in Request, pc[r] # "idle", IdsInv', Framed(r), GoesOn(r)
  PROVE  RecordsKept
<1>0. PICK h \in Host : h = HostOf(r)
  BY AtHost
<1>1. /\ \A q \in Request \ {r} : pc'[q] = pc[q] /\ job'[q] = job[q] /\ seen'[q] = seen[q]
      /\ pc'[r] # "idle" => job'[r].host = h
      /\ \A g \in Host \ {h} : row'[g] = row[g] /\ \A z \in Zone : record'[z][g] = record[z][g]
      /\ raced' = raced /\ faulty \subseteq faulty' /\ faulty' \subseteq faulty \cup {h}
  BY <1>0 DEF Framed, Alike, HostOf
<1>2. AloneInv'
  <2>1. SUFFICES ASSUME NEW p \in Request, NEW q \in Request, pc'[p] # "idle", pc'[q] # "idle",
                        job'[p].host = job'[q].host, job'[q].host \notin raced
                 PROVE  p = q
    BY <1>1 DEF AloneInv, HostOf
  <2>2. ASSUME NEW x \in Request, pc'[x] # "idle" PROVE pc[x] # "idle" /\ job'[x].host = job[x].host
    BY <1>0, <1>1, <2>2 DEF HostOf
  <2>. QED  BY <2>1, <2>2 DEF IInv, AloneInv, HostOf
<1>3. ASSUME NEW q \in Request, pc'[q] # "idle", job'[q].host \notin raced'
      PROVE  KnowsRow(q)' /\ RecordAtStep(q)' /\ (job'[q].host \notin faulty' => NoneLost(q)')
  <2>1. CASE q = r
    BY <1>0, <1>1, <1>3, <2>1 DEF GoesOn
  <2>2. CASE q # r
    <3>1. pc[q] # "idle" /\ pc'[q] = pc[q] /\ job'[q] = job[q] /\ seen'[q] = seen[q]
      BY <1>1, <1>3, <2>2
    <3>2. PICK g \in Host : g = job[q].host
      BY <3>1, AtHost DEF HostOf
    <3>3. g \notin raced /\ g # h
      BY <1>0, <1>1, <1>3, <2>2, <3>1, <3>2 DEF IInv, AloneInv, HostOf
    <3>4. KnowsRow(q) /\ RecordAtStep(q) /\ (g \notin faulty => NoneLost(q))
      BY <3>1, <3>2, <3>3, AtHost DEF HostOf
    <3>5. row'[g] = row[g] /\ \A z \in Zone : record'[z][g] = record[z][g]
      BY <1>1, <3>3
    <3>6. row[g].zone \in Zone
      BY <3>2 DEF IInv, Types, Row
    <3>7. KnowsRow(q)'
      BY <3>1, <3>2, <3>4, <3>5 DEF KnowsRow, HostOf
    <3>8. RecordAtStep(q)'
      BY <3>1, <3>2, <3>4, <3>5, <3>6 DEF RecordAtStep, HostOf
    <3>9. /\ Owned(g) => Owned(g)'
          /\ Gone(g) => Gone(g)'
          /\ Made(g, seen[q]) => Made(g, seen[q])'
      BY <3>1, <3>5 DEF Owned, Gone, Made
    <3>10. NoneLost(q) => NoneLost(q)'
      BY <3>1, <3>2, <3>9 DEF NoneLost, HostOf, Moved
    <3>. QED  BY <1>1, <3>1, <3>2, <3>3, <3>4, <3>7, <3>8, <3>10
  <2>. QED  BY <2>1, <2>2
<1>4. ASSUME NEW g \in Host PROVE RecordInv(g)'
  <2>1. SUFFICES ASSUME g \notin raced', Quiet(g)'
                 PROVE  /\ row'[g].there /\ row'[g].on /\ ~row'[g].err
                              => record'[row'[g].zone][g] = [id |-> row'[g].rec, target |-> row'[g].tunnel]
                        /\ g \notin faulty' => Owned(g)'
    BY DEF RecordInv
  <2>2. CASE g = h
    <3>1. pc'[r] = "idle"
      BY <1>1, <2>1, <2>2 DEF Quiet, HostOf
    <3>. QED  BY <1>0, <1>1, <2>1, <2>2, <3>1 DEF GoesOn
  <2>3. CASE g # h
    <3>1. Quiet(g)
      <4>1. SUFFICES ASSUME NEW q \in Request, pc[q] # "idle", job[q].host = g PROVE FALSE
        BY DEF Quiet, HostOf
      <4>2. q # r
        BY <1>0, <2>3, <4>1 DEF HostOf
      <4>. QED  BY <1>1, <2>1, <4>1, <4>2 DEF Quiet, HostOf
    <3>2. row'[g] = row[g] /\ (\A z \in Zone : record'[z][g] = record[z][g]) /\ row[g].zone \in Zone
      BY <1>1, <2>3 DEF IInv, Types, Row
    <3>3. Owned(g) => Owned(g)'
      BY <3>2 DEF Owned
    <3>4. RecordInv(g)
      BY DEF IInv
    <3>. QED  BY <1>1, <2>1, <3>1, <3>2, <3>3, <3>4 DEF RecordInv
  <2>. QED  BY <2>2, <2>3
<1>. QED  BY <1>2, <1>3, <1>4 DEF RecordsKept

-----------------------------------------------------------------------------
(* The queue, config.yml and the daemons                                   *)

\* What is rendered, written and served, and whose call is running.
ServesKept == (\A q \in Request : pc'[q] # "idle" /\ job'[q].host \notin raced' => BuiltFor(q)') /\ \A h \in Host : ServeInv(h)'

LEMMA AllKept ==
  ASSUME Types', IdsInv', QueueInv', RecordsKept, ServesKept
  PROVE  IInv'
<1>1. \A q \in Request : RequestInv(q)'
  BY DEF RecordsKept, ServesKept, RequestInv, HostOf
<1>. QED  BY <1>1 DEF IInv, RecordsKept, ServesKept

\* Who waits is not the one that moves.
LEMMA QueueFacts ==
  ASSUME IInv
  PROVE  /\ Types /\ QueueInv /\ Len(queue) \in Nat /\ queue \in Seq(Request)
         /\ built # <<>> => /\ queue # <<>> /\ Head(queue) \in Request /\ pc[Head(queue)] \in Waiting
                            /\ Head(queue) = queue[1] /\ built[1] \in Config /\ Head(built) = built[1]
<1>1. Types /\ QueueInv /\ queue \in Seq(Request) /\ Len(queue) \in Nat
  BY DEF IInv, QueueInv
<1>2. ASSUME built # <<>>
      PROVE  /\ queue # <<>> /\ Head(queue) \in Request /\ pc[Head(queue)] \in Waiting
             /\ Head(queue) = queue[1] /\ built[1] \in Config /\ Head(built) = built[1]
  <2>1. queue # <<>> /\ \E c \in Config : built = <<c>>
    BY <1>1, <1>2 DEF QueueInv
  <2>2. Head(queue) = queue[1] /\ 1 \in 1..Len(queue) /\ queue[1] \in Request
    BY <1>1, <2>1
  <2>3. pc[queue[1]] \in Waiting
    BY <1>1, <2>2 DEF QueueInv
  <2>. QED  BY <2>1, <2>2, <2>3
<1>. QED  BY <1>1, <1>2

LEMMA ServedOn ==
  ASSUME IInv, NEW r \in Request, pc[r] \notin Waiting \cup {"idle"}, Framed(r), GoesOn(r),
         UNCHANGED <<built, config, signalled, loaded, missed>>, built # <<>> => Head(queue') = Head(queue)
  PROVE  ServesKept
<1>0. PICK h \in Host : h = HostOf(r)
  BY AtHost
<1>1. /\ \A q \in Request \ {r} : pc'[q] = pc[q] /\ job'[q] = job[q] /\ seen'[q] = seen[q]
      /\ pc'[r] # "idle" => job'[r].host = h
      /\ \A g \in Host \ {h} : row'[g] = row[g]
      /\ raced' = raced
  BY <1>0 DEF Framed, Alike, HostOf
<1>2. ASSUME NEW q \in Request, pc'[q] # "idle", job'[q].host \notin raced' PROVE BuiltFor(q)'
  <2>1. SUFFICES ASSUME built # <<>>, q = Head(queue)
                 PROVE  BuiltFor(q)'
    BY DEF BuiltFor
  <2>2. q # r /\ pc[q] # "idle"
    BY <2>1, QueueFacts DEF Waiting
  <2>3. PICK g \in Host : g = job[q].host
    BY <2>2, AtHost DEF HostOf
  <2>4. g \notin raced /\ g # h
    BY <1>0, <1>1, <1>2, <2>2, <2>3 DEF IInv, AloneInv, HostOf
  <2>5. built[1].of = seen[q].tunnel /\ built[1].hosts[g] = Want(g)
    BY <2>1, <2>2, <2>3, <2>4, AtHost DEF BuiltFor, HostOf
  <2>6. Want(g)' = Want(g)
    BY <1>1, <2>4 DEF Want
  <2>7. job'[q].host = g /\ seen'[q] = seen[q]
    BY <1>1, <2>2, <2>3
  <2>8. built[1].of = seen'[q].tunnel /\ built[1].hosts[job'[q].host] = Want(g)'
    BY <2>5, <2>6, <2>7
  <2>. QED  BY <2>7, <2>8 DEF BuiltFor, HostOf, Want
<1>3. ASSUME NEW g \in Host PROVE ServeInv(g)'
  <2>1. SUFFICES ASSUME g \notin raced', Quiet(g)', Cares(g)'
                 PROVE  /\ Good(g, config)' /\ (built' # <<>> => Good(g, built[1])')
                        /\ row'[g].tunnel \notin signalled' \cup missed' => Good(g, loaded[row[g].tunnel])'
    BY DEF ServeInv
  <2>2. g # h
    <3>1. SUFFICES ASSUME g = h PROVE FALSE
      OBVIOUS
    <3>2. pc'[r] = "idle"
      BY <1>1, <2>1, <3>1 DEF Quiet, HostOf
    <3>3. ~row'[h].there \/ row'[h].err
      BY <1>0, <1>1, <2>1, <3>1, <3>2 DEF GoesOn
    <3>. QED  BY <2>1, <3>1, <3>3 DEF Cares
  <2>3. Quiet(g)
    <3>1. SUFFICES ASSUME NEW q \in Request, pc[q] # "idle", job[q].host = g PROVE FALSE
      BY DEF Quiet, HostOf
    <3>2. q # r
      BY <1>0, <2>2, <3>1 DEF HostOf
    <3>. QED  BY <1>1, <2>1, <3>1, <3>2 DEF Quiet, HostOf
  <2>4. row'[g] = row[g]
    BY <1>1, <2>2
  <2>5. ServeInv(g) /\ Cares(g)
    BY <2>1, <2>4 DEF IInv, Cares
  <2>. QED  BY <1>1, <2>1, <2>3, <2>4, <2>5 DEF ServeInv, Good, Want
<1>. QED  BY <1>2, <1>3 DEF ServesKept

\* The steps that queue nobody and end no call.
LEMMA PlainStep ==
  ASSUME IInv, NEW r \in Request, pc[r] \notin Waiting \cup {"idle"}, Sound(r), UNCHANGED daemonVars
  PROVE  IInv'
<1>1. Types' /\ IdsInv' /\ Framed(r) /\ GoesOn(r) /\ RecordsKept
  BY SoundKeeps DEF Sound
<1>2. ServesKept
  BY <1>1, ServedOn DEF daemonVars
<1>3. QueueInv'
  <2>1. ASSUME NEW m \in 1..Len(queue) PROVE pc'[queue[m]] \in Waiting
    <3>1. queue[m] \in Request /\ pc[queue[m]] \in Waiting
      BY QueueFacts DEF QueueInv
    <3>. QED  BY <1>1, <3>1 DEF Framed, Alike
  <2>. QED  BY <2>1, QueueFacts DEF QueueInv, daemonVars
<1>. QED  BY <1>1, <1>2, <1>3, AllKept

LEMMA ReloadStep == ASSUME IInv, NEW r \in Request, Reload(r) PROVE IInv'
<1>1. Types' /\ IdsInv' /\ Framed(r) /\ GoesOn(r)
  BY ReloadSound DEF Sound
<1>2. /\ pc[r] \notin Waiting \cup {"idle"} /\ queue' = Append(queue, r) /\ UNCHANGED <<built, config, signalled, loaded, missed>>
  BY DEF Reload, Waiting
<1>3. pc'[r] \in Waiting
  BY GotoDoes DEF IInv, Reload, Waiting, Step, PublishSteps, UndeploySteps
<1>4. /\ queue' \in Seq(Request) /\ Len(queue') = Len(queue) + 1 /\ queue'[Len(queue) + 1] = r
      /\ \A m \in 1..Len(queue) : queue'[m] = queue[m]
      /\ queue # <<>> => Head(queue') = Head(queue)
  BY <1>2, QueueFacts
<1>5. ASSUME NEW m \in 1..Len(queue) PROVE queue[m] \in Request /\ pc[queue[m]] \in Waiting
  BY QueueFacts DEF QueueInv
<1>6. QueueInv'
  <2>1. ASSUME NEW m \in 1..Len(queue') PROVE pc'[queue'[m]] \in Waiting
    <3>1. CASE m \in 1..Len(queue)
      BY <1>1, <1>2, <1>4, <1>5, <3>1 DEF Framed, Alike
    <3>2. CASE m = Len(queue) + 1
      BY <1>3, <1>4, <3>2
    <3>. QED  BY <1>4, <3>1, <3>2, QueueFacts
  <2>2. ASSUME NEW m \in 1..Len(queue'), NEW n \in 1..Len(queue'), queue'[m] = queue'[n] PROVE m = n
    <3>1. CASE m \in 1..Len(queue) /\ n \in 1..Len(queue)
      BY <1>4, <2>2, <3>1, QueueFacts DEF QueueInv
    <3>2. CASE m \in 1..Len(queue) /\ n = Len(queue) + 1
      BY <1>2, <1>4, <1>5, <2>2, <3>2
    <3>3. CASE m = Len(queue) + 1 /\ n \in 1..Len(queue)
      BY <1>2, <1>4, <1>5, <2>2, <3>3
    <3>. QED  BY <1>4, <3>1, <3>2, <3>3, QueueFacts
  <2>3. built' = <<>> \/ (queue' # <<>> /\ \E c \in Config : built' = <<c>>)
    BY <1>2, <1>4, QueueFacts DEF QueueInv
  <2>. QED  BY <1>4, <2>1, <2>2, <2>3 DEF QueueInv
<1>7. ServesKept
  BY <1>1, <1>2, <1>4, QueueFacts, ServedOn
<1>8. RecordsKept
  BY <1>1, <1>2, SoundKeeps
<1>. QED  BY <1>1, <1>6, <1>7, <1>8, AllKept

\* The queue after the first call in it is over.
LEMMA EndsQueue ==
  ASSUME IInv, NEW r \in Request, NEW next, CallEnds(r, next), Alike(r)
  PROVE  QueueInv'
<1>1. /\ built # <<>> /\ r = Head(queue) /\ queue' = Tail(queue) /\ built' = <<>>
  BY DEF CallEnds
<1>2. /\ r = queue[1] /\ queue # <<>> /\ queue \in Seq(Request) /\ Len(queue) \in Nat \ {0}
  BY <1>1, QueueFacts
<1>3. /\ queue' \in Seq(Request) /\ Len(queue') = Len(queue) - 1
      /\ \A m \in 1..Len(queue') : queue'[m] = queue[m + 1] /\ m + 1 \in 1..Len(queue)
  BY <1>1, <1>2
<1>4. \A m, n \in 1..Len(queue) : queue[m] = queue[n] => m = n
  BY QueueFacts DEF QueueInv
<1>5. ASSUME NEW m \in 1..Len(queue') PROVE pc'[queue'[m]] \in Waiting
  <2>1. m + 1 \in 1..Len(queue) /\ m + 1 # 1 /\ queue'[m] = queue[m + 1] /\ 1 \in 1..Len(queue)
    BY <1>2, <1>3
  <2>2. queue[m + 1] # r /\ queue[m + 1] \in Request
    BY <1>2, <1>4, <2>1
  <2>3. pc[queue[m + 1]] \in Waiting
    BY <2>1, QueueFacts DEF QueueInv
  <2>. QED  BY <2>1, <2>2, <2>3 DEF Alike
<1>6. ASSUME NEW m \in 1..Len(queue'), NEW n \in 1..Len(queue'), queue'[m] = queue'[n] PROVE m = n
  <2>1. m + 1 = n + 1
    BY <1>3, <1>4, <1>6
  <2>. QED  BY <1>3, <2>1
<1>. QED  BY <1>1, <1>3, <1>5, <1>6 DEF QueueInv

\* The call that writes config.yml was rendered when its caller waited.
LEMMA WriteStep == ASSUME IInv, NEW r \in Request, WriteConfig(r) PROVE IInv'
<1>1. /\ CallEnds(r, "idle") /\ config' = Head(built)
      /\ UNCHANGED <<row, record, made, loaded, raced, faulty, ops>>
      /\ signalled' \cup missed' = signalled \cup missed \cup {seen[r].tunnel}
      /\ signalled' \subseteq signalled \cup {seen[r].tunnel} /\ missed' \subseteq missed \cup {seen[r].tunnel}
  BY DEF WriteConfig
<1>2. pc[r] \in Waiting /\ built # <<>> /\ r = Head(queue) /\ built' = <<>>
  BY <1>1 DEF CallEnds
<1>0. PICK h \in Host : h = HostOf(r)
  BY <1>2, AtHost DEF Waiting
<1>3. IdsInv' /\ Framed(r) /\ GoesOn(r) /\ RequestTypes' /\ RecordsKept
  BY <1>1, <1>2, EndsSound, SoundKeeps DEF Waiting
<1>4. QueueInv'
  BY <1>1, <1>3, EndsQueue DEF Framed
<1>5. Types'
  <2>1. seen[r].tunnel \in Tunnel
    BY DEF IInv, Types, DeployRead
  <2>2. Head(built) \in Config
    BY <1>2, QueueFacts
  <2>. QED  BY <1>1, <1>3, <2>1, <2>2 DEF IInv, Types, RequestTypes
<1>6. ASSUME NEW g \in Host PROVE ServeInv(g)'
  <2>1. SUFFICES ASSUME g \notin raced, Quiet(g)', Cares(g)
                 PROVE  Good(g, config)' /\ (row[g].tunnel \notin signalled' \cup missed' => Good(g, loaded[row[g].tunnel]))
    BY <1>1, <1>2 DEF ServeInv, Cares, Good, Want
  <2>2. config' = built[1]
    BY <1>1, <1>2, QueueFacts
  <2>3. CASE g = h
    <3>1. KnowsRow(r) /\ BuiltFor(r)
      BY <1>0, <1>2, <2>1, <2>3, AtHost DEF Waiting
    <3>2. seen[r].tunnel = row[g].tunnel
      BY <1>0, <1>2, <2>3, <3>1 DEF KnowsRow, Waiting
    <3>3. built[1].hosts[g] = Want(g)
      BY <1>0, <1>2, <2>3, <3>1 DEF BuiltFor
    <3>. QED  BY <1>1, <2>2, <3>2, <3>3 DEF Good, Want
  <2>4. CASE g # h
    <3>1. Quiet(g)
      <4>1. SUFFICES ASSUME NEW q \in Request, pc[q] # "idle", job[q].host = g PROVE FALSE
        BY DEF Quiet, HostOf
      <4>2. q # r
        BY <1>0, <2>4, <4>1 DEF HostOf
      <4>. QED  BY <1>3, <2>1, <4>1, <4>2 DEF Quiet, HostOf, Framed, Alike
    <3>2. ServeInv(g)
      BY DEF IInv
    <3>. QED  BY <1>1, <1>2, <2>1, <2>2, <3>1, <3>2 DEF ServeInv, Good, Want
  <2>. QED  BY <2>3, <2>4
<1>7. ServesKept
  BY <1>2, <1>6 DEF ServesKept, BuiltFor
<1>. QED  BY <1>3, <1>4, <1>5, <1>7, AllKept

LEMMA WriteFailsStep == ASSUME IInv, NEW r \in Request, WriteFails(r) PROVE IInv'
<1>1. /\ CallEnds(r, "fail") /\ "disk" \in Faults
      /\ UNCHANGED <<row, record, made, config, signalled, loaded, missed, raced, faulty, ops>>
  BY DEF WriteFails
<1>2. pc[r] \in Waiting /\ built # <<>> /\ r = Head(queue) /\ built' = <<>>
  BY <1>1 DEF CallEnds
<1>0. PICK h \in Host : h = HostOf(r)
  BY <1>2, AtHost DEF Waiting
<1>3. /\ IdsInv' /\ Framed(r) /\ GoesOn(r) /\ RequestTypes' /\ RecordsKept
      /\ h \notin raced /\ pc'[r] = "idle" => ~row[h].on
  <2>1. /\ IdsInv' /\ Framed(r) /\ GoesOn(r) /\ RequestTypes'
        /\ h \notin raced /\ pc'[r] = "idle" => (pc[r] = "undeploying" => ~row[h].on)
        /\ pc[r] = "deploying" => pc'[r] = "fail"
    BY <1>0, <1>1, EndsSound
  <2>. QED  BY <1>2, <2>1, SoundKeeps DEF Waiting
<1>4. QueueInv'
  BY <1>1, <1>3, EndsQueue DEF Framed
<1>5. Types'
  BY <1>1, <1>3 DEF IInv, Types, RequestTypes
<1>6. ASSUME NEW g \in Host PROVE ServeInv(g)'
  <2>1. SUFFICES ASSUME g \notin raced, Quiet(g)', Cares(g)
                 PROVE  Good(g, config) /\ (row[g].tunnel \notin signalled \cup missed => Good(g, loaded[row[g].tunnel]))
    BY <1>1, <1>2 DEF ServeInv, Cares, Good, Want
  <2>2. g # h
    <3>1. SUFFICES ASSUME g = h PROVE FALSE
      OBVIOUS
    <3>2. pc'[r] = "idle"
      BY <1>0, <1>3, <2>1, <3>1 DEF Quiet, HostOf, Framed
    <3>. QED  BY <1>1, <1>3, <2>1, <3>1, <3>2 DEF Cares
  <2>3. Quiet(g)
    <3>1. SUFFICES ASSUME NEW q \in Request, pc[q] # "idle", job[q].host = g PROVE FALSE
      BY DEF Quiet, HostOf
    <3>2. q # r
      BY <1>0, <2>2, <3>1 DEF HostOf
    <3>. QED  BY <1>3, <2>1, <3>1, <3>2 DEF Quiet, HostOf, Framed, Alike
  <2>4. ServeInv(g)
    BY DEF IInv
  <2>. QED  BY <2>1, <2>3, <2>4 DEF ServeInv
<1>7. ServesKept
  BY <1>2, <1>6 DEF ServesKept, BuiltFor
<1>. QED  BY <1>3, <1>4, <1>5, <1>7, AllKept

\* A step of the queue or of a daemon alone touches nothing that a request knows.
LEMMA Undisturbed ==
  ASSUME IInv, UNCHANGED <<row, record, pc, job, seen, raced, faulty>>
  PROVE  IdsInv' /\ RecordsKept
BY DEF IInv, IdsInv, RecordsKept, AloneInv, RecordInv, RequestInv, KnowsRow, RecordAtStep, NoneLost, Owned,
       Gone, Made,
       Moved, Quiet, HostOf

\* The next call is rendered from the rows as they are.
LEMMA BuildStep == ASSUME IInv, BuildContext PROVE IInv'
<1>. DEFINE t == seen[Head(queue)].tunnel
<1>1. /\ queue # <<>> /\ built = <<>> /\ built' = <<Ingress(t)>>
      /\ UNCHANGED <<row, record, made, pc, job, seen, queue, config, signalled, loaded, missed, raced, faulty, ops>>
  BY DEF BuildContext
<1>2. Head(queue) \in Request /\ Types /\ QueueInv
  BY <1>1, QueueFacts
<1>3. t \in Tunnel
  BY <1>2 DEF Types, DeployRead
<1>4. /\ Ingress(t) \in Config /\ Ingress(t).of = t
      /\ \A h \in Host : row[h].there /\ row[h].tunnel = t => Ingress(t).hosts[h] = Want(h)
  BY <1>2, <1>3, IngressTypes
<1>10. Types'
  BY <1>1, <1>2 DEF Types
<1>5. IdsInv' /\ RecordsKept
  BY <1>1, Undisturbed
<1>6. QueueInv'
  BY <1>1, <1>2, <1>4 DEF QueueInv
<1>7. ASSUME NEW q \in Request, pc[q] # "idle", job[q].host \notin raced PROVE BuiltFor(q)'
  <2>1. SUFFICES ASSUME q = Head(queue) PROVE BuiltFor(q)'
    BY <1>1 DEF BuiltFor
  <2>2. PICK h \in Host : h = HostOf(q)
    BY <1>7, AtHost
  <2>3. pc[q] \in Waiting
    <3>1. 1 \in 1..Len(queue) /\ Head(queue) = queue[1]
      BY <1>1, QueueFacts
    <3>. QED  BY <1>2, <2>1, <3>1 DEF QueueInv
  <2>4. KnowsRow(q)
    BY <1>7, AtHost DEF HostOf
  <2>5. row[h].there /\ row[h].tunnel = t
    BY <2>1, <2>2, <2>3, <2>4 DEF KnowsRow, Waiting
  <2>6. Ingress(t).hosts[h] = Want(h)
    BY <1>4, <2>5
  <2>7. built'[1] = Ingress(t)
    BY <1>1
  <2>8. built'[1].of = seen[q].tunnel /\ built'[1].hosts[h] = Want(h)
    BY <1>4, <2>1, <2>6, <2>7
  <2>. QED  BY <1>1, <2>2, <2>8 DEF BuiltFor, HostOf, Want
<1>8. ASSUME NEW h \in Host PROVE ServeInv(h)'
  <2>1. ServeInv(h)
    BY DEF IInv
  <2>2. row[h].there => Good(h, Ingress(t))
    BY <1>4 DEF Good
  <2>3. built'[1] = Ingress(t)
    BY <1>1
  <2>4. row[h].there => Good(h, built[1])'
    BY <1>1, <2>2, <2>3 DEF Good, Want
  <2>. QED  BY <1>1, <2>1, <2>4 DEF ServeInv, Good, Want, Cares, Quiet, HostOf
<1>9. ServesKept
  BY <1>1, <1>7, <1>8 DEF ServesKept
<1>. QED  BY <1>5, <1>6, <1>9, <1>10, AllKept

\* A daemon reads what a call rendered last.
LEMMA ReadStep == ASSUME IInv, NEW t \in Tunnel, ReadConfig(t) PROVE IInv'
<1>1. /\ loaded' = [loaded EXCEPT ![t] = config]
      /\ signalled' = signalled \ {t} /\ missed' = missed \ {t}
      /\ UNCHANGED <<row, record, made, pc, job, seen, queue, built, config, raced, faulty, ops>>
  BY DEF ReadConfig
<1>2. IdsInv' /\ RecordsKept /\ QueueInv'
  BY <1>1, Undisturbed, QueueFacts DEF QueueInv
<1>3. Types'
  BY <1>1 DEF IInv, Types
<1>4. ASSUME NEW h \in Host PROVE ServeInv(h)'
  <2>1. ServeInv(h)
    BY DEF IInv
  <2>2. SUFFICES ASSUME h \notin raced, Quiet(h), Cares(h), row[h].tunnel \notin signalled' \cup missed'
                 PROVE  Good(h, loaded'[row[h].tunnel])
    BY <1>1, <2>1 DEF ServeInv, Good, Want, Cares, Quiet, HostOf
  <2>3. row[h].tunnel \in Tunnel
    BY DEF IInv, Types, Row
  <2>4. CASE row[h].tunnel = t
    BY <1>1, <2>1, <2>2, <2>4 DEF ServeInv, IInv, Types
  <2>5. CASE row[h].tunnel # t
    BY <1>1, <2>1, <2>2, <2>3, <2>5 DEF ServeInv, IInv, Types
  <2>. QED  BY <2>4, <2>5
<1>5. ASSUME NEW q \in Request, pc[q] # "idle", job[q].host \notin raced PROVE BuiltFor(q)'
  <2>1. BuiltFor(q)
    BY <1>5, AtHost DEF HostOf
  <2>. QED  BY <1>1, <2>1 DEF BuiltFor, Want, HostOf
<1>6. ServesKept
  BY <1>1, <1>4, <1>5 DEF ServesKept
<1>. QED  BY <1>2, <1>3, <1>6, AllKept

-----------------------------------------------------------------------------
(* Requests come                                                           *)

\* A request that comes to a host nobody is at finds its row, and its records, as its
\* predecessor left them; one that comes to a busy host is a race.
LEMMA BeginStep ==
  ASSUME IInv, NEW r \in Request, NEW kind \in Kinds, NEW h \in Host, NEW in \in Input,
         NEW p \in {"read", "undeploy", "update", "flip", "clear"}, Begin(r, kind, h, in, p),
         NEW R \in Row, row' = [row EXCEPT ![h] = R], R.there, R = row[h] \/ (~row[h].there /\ p = "read"),
         p = "update" => in.zone = R.zone, p = "flip" => kind = "toggle", p = "undeploy" => kind \in {"edit", "delete"}
  PROVE  IInv'
<1>. DEFINE was == [no |-> R.no, on |-> R.on, tunnel |-> R.tunnel, zone |-> R.zone]
            j == [kind |-> kind, host |-> h, input |-> in, was |-> was]
            k == JobAt(j, p)
<1>1. Types /\ IdsInv /\ QueueInv /\ AloneInv /\ p \in Step /\ p \notin Waiting \cup {"idle", "upsert"}
  BY DEF IInv, Step, PublishSteps, UndeploySteps, Waiting
<1>2. row' \in [Host -> Row] /\ row'[h] = R /\ \A g \in Host \ {h} : row'[g] = row[g]
  BY <1>1 DEF Types
<1>3. /\ pc[r] = "idle" /\ pc' = [pc EXCEPT ![r] = p] /\ job' = [job EXCEPT ![r] = k] /\ ops' = ops + 1
      /\ UNCHANGED <<record, made, seen, queue, built, config, signalled, loaded, missed, faulty>>
  BY <1>2 DEF Begin, daemonVars
<1>4. /\ raced \subseteq raced' /\ raced' \subseteq raced \cup {h}
      /\ h \notin raced' => \A q \in Request \ {r} : pc[q] # "idle" => HostOf(q) # h
  BY DEF Begin
<1>5. was \in HandlerRead
  BY DEF Row, HandlerRead
<1>6. j \in Job
  <2>1. kind \in {"none", "create", "edit", "toggle", "redeploy", "delete"}
    BY ConstantsAssumption
  <2>. HIDE DEF was
  <2>. QED  BY <1>5, <2>1 DEF Job
<1>7. /\ j.kind = kind /\ j.host = h /\ j.input = in /\ j.was.no = R.no /\ j.was.on = R.on
      /\ j.was.tunnel = R.tunnel /\ j.was.zone = R.zone
  OBVIOUS
<1>. HIDE DEF j
<1>8. k \in Job /\ k.host = h /\ k.was.no = R.no /\ (p # "read" => k = j)
  BY <1>1, <1>6, <1>7, JobAtTypes
<1>. HIDE DEF k
<1>9. /\ pc'[r] = p /\ job'[r] = k
      /\ \A q \in Request \ {r} : pc'[q] = pc[q] /\ job'[q] = job[q]
  BY <1>1, <1>3 DEF Types
<1>10. Types'
  BY <1>1, <1>2, <1>3, <1>4, <1>8 DEF Types
<1>11. IdsInv'
  BY <1>1, <1>3, <1>9 DEF IdsInv
<1>12. QueueInv'
  <2>1. ASSUME NEW m \in 1..Len(queue) PROVE pc'[queue[m]] \in Waiting
    <3>1. queue[m] \in Request /\ pc[queue[m]] \in Waiting
      BY <1>1, QueueFacts DEF QueueInv
    <3>. QED  BY <1>3, <1>9, <3>1 DEF Waiting
  <2>. QED  BY <1>1, <1>3, <2>1 DEF QueueInv
<1>13. AloneInv'
  <2>1. SUFFICES ASSUME NEW x \in Request, NEW q \in Request, pc'[x] # "idle", pc'[q] # "idle",
                        job'[x].host = job'[q].host, job'[q].host \notin raced'
                 PROVE  x = q
    BY DEF AloneInv, HostOf
  <2>2. CASE x = r
    BY <1>4, <1>8, <1>9, <2>1, <2>2 DEF HostOf
  <2>3. CASE q = r
    BY <1>4, <1>8, <1>9, <2>1, <2>3 DEF HostOf
  <2>4. CASE x # r /\ q # r
    BY <1>1, <1>4, <1>9, <2>1, <2>4 DEF AloneInv, HostOf
  <2>. QED  BY <2>2, <2>3, <2>4
<1>14. h \notin raced' => Quiet(h) /\ RecordInv(h) /\ h \notin raced
  BY <1>3, <1>4 DEF Quiet, IInv
<1>15. h \notin raced' /\ h \notin faulty => Owned(h)'
  BY <1>2, <1>3, <1>14 DEF RecordInv, Owned
<1>16. h \notin raced' => KnowsRow(r)' /\ RecordAtStep(r)' /\ BuiltFor(r)' /\ (h \notin faulty' => NoneLost(r)')
  <2>1. SUFFICES ASSUME h \notin raced'
                 PROVE  KnowsRow(r)' /\ RecordAtStep(r)' /\ BuiltFor(r)' /\ (h \notin faulty' => NoneLost(r)')
    OBVIOUS
  <2>2. KnowsRow(r)'
    BY <1>2, <1>7, <1>8, <1>9 DEF KnowsRow, HostOf, UndeploySteps
  <2>3. RecordAtStep(r)'
    BY <1>9 DEF RecordAtStep
  <2>4. BuiltFor(r)'
    BY <1>3, QueueFacts DEF BuiltFor, Waiting
  <2>5. p = "update" => ~Moved(r)'
    BY <1>7, <1>8, <1>9 DEF Moved
  <2>6. h \notin faulty' => NoneLost(r)'
    BY <1>3, <1>8, <1>9, <1>15, <2>1, <2>5 DEF NoneLost, HostOf
  <2>. QED  BY <2>2, <2>3, <2>4, <2>6
<1>17. ASSUME NEW q \in Request \ {r}, pc'[q] # "idle", job'[q].host \notin raced'
       PROVE  KnowsRow(q)' /\ RecordAtStep(q)' /\ BuiltFor(q)' /\ (job'[q].host \notin faulty' => NoneLost(q)')
  <2>1. pc[q] # "idle" /\ pc'[q] = pc[q] /\ job'[q] = job[q] /\ seen'[q] = seen[q]
    BY <1>3, <1>9, <1>17
  <2>2. PICK g \in Host : g = job[q].host
    BY <2>1, AtHost DEF HostOf
  <2>3. g \notin raced /\ g # h /\ row'[g] = row[g] /\ row[g].zone \in Zone
    BY <1>1, <1>2, <1>4, <1>17, <2>1, <2>2 DEF HostOf, Types, Row
  <2>4. KnowsRow(q) /\ RecordAtStep(q) /\ BuiltFor(q) /\ (g \notin faulty => NoneLost(q))
    BY <2>1, <2>2, <2>3, AtHost DEF HostOf
  <2>5. KnowsRow(q)'
    BY <2>1, <2>2, <2>3, <2>4 DEF KnowsRow, HostOf
  <2>6. RecordAtStep(q)'
    BY <1>3, <2>1, <2>2, <2>3, <2>4 DEF RecordAtStep, HostOf
  <2>7. BuiltFor(q)'
    <3>1. Want(g)' = Want(g)
      BY <2>3 DEF Want
    <3>2. BuiltFor(q)' = (built # <<>> /\ q = Head(queue) =>
                            built[1].of = seen[q].tunnel /\ built[1].hosts[g] = Want(g)')
      BY <1>3, <2>1, <2>2 DEF BuiltFor, HostOf, Want
    <3>. QED  BY <2>2, <2>4, <3>1, <3>2 DEF BuiltFor, HostOf
  <2>8. /\ Owned(g) => Owned(g)'
        /\ Gone(g) => Gone(g)'
        /\ Made(g, seen[q]) => Made(g, seen[q])'
    BY <1>3, <2>1, <2>3 DEF Owned, Gone, Made
  <2>9. NoneLost(q) => NoneLost(q)'
    BY <2>1, <2>2, <2>8 DEF NoneLost, HostOf, Moved
  <2>. QED  BY <1>3, <2>1, <2>2, <2>4, <2>5, <2>6, <2>7, <2>9
<1>18. ASSUME NEW q \in Request PROVE RequestInv(q)'
  BY <1>8, <1>9, <1>16, <1>17 DEF RequestInv, HostOf
<1>19. ASSUME NEW g \in Host PROVE RecordInv(g)' /\ ServeInv(g)'
  <2>1. CASE g = h
    <3>1. ~Quiet(g)'
      BY <1>1, <1>8, <1>9, <2>1 DEF Quiet, HostOf
    <3>. QED  BY <3>1 DEF RecordInv, ServeInv
  <2>2. CASE g # h
    <3>1. Quiet(g)' => Quiet(g)
      BY <1>3, <1>9 DEF Quiet, HostOf
    <3>2. row'[g] = row[g] /\ (g \notin raced' => g \notin raced)
      BY <1>2, <1>4, <2>2
    <3>3. RecordInv(g) /\ ServeInv(g)
      BY DEF IInv
    <3>4. RecordInv(g)'
      BY <1>3, <3>1, <3>2, <3>3 DEF RecordInv, Owned
    <3>5. ServeInv(g)'
      BY <1>3, <3>1, <3>2, <3>3 DEF ServeInv, Cares, Good, Want
    <3>. QED  BY <3>4, <3>5
  <2>. QED  BY <2>1, <2>2
<1>. QED  BY <1>10, <1>11, <1>12, <1>13, <1>18, <1>19 DEF IInv

LEMMA CreateStep == ASSUME IInv, NEW r \in Request, NEW h \in Host, NEW in \in Input, Create(r, h, in) PROVE IInv'
<1>. DEFINE R == [no |-> ops + 1, there |-> TRUE, on |-> TRUE, tunnel |-> in.tunnel,
                  zone |-> in.zone, rev |-> in.rev, rec |-> None, err |-> FALSE]
<1>1. ~row[h].there /\ row' = [row EXCEPT ![h] = R] /\ Begin(r, "create", h, in, "read") /\ R.there
  BY DEF Create
<1>2. "create" \in Kinds
  BY <1>1 DEF Begin
<1>3. R \in Row
  <2>1. in.tunnel \in Tunnel /\ in.zone \in Zone /\ in.rev \in Rev /\ ops + 1 \in Nat
    BY Typical DEF IInv, Types
  <2>2. ASSUME NEW n \in Nat, NEW t \in Tunnel, NEW z \in Zone, NEW v \in Rev, NEW a \in BOOLEAN, NEW e \in BOOLEAN
        PROVE  [no |-> n, there |-> a, on |-> a, tunnel |-> t, zone |-> z, rev |-> v, rec |-> None, err |-> e] \in Row
    BY DEF Row, None
  <2>. QED  BY <2>1, <2>2
<1>. HIDE DEF R
<1>. QED  BY <1>1, <1>2, <1>3, BeginStep

LEMMA AskStep ==
  ASSUME IInv, NEW r \in Request, NEW kind \in Kinds, NEW h \in Host, NEW in \in Input, Ask(r, kind, h, in)
  PROVE  IInv'
<1>1. PICK R \in Row : R = row[h]
  BY DEF IInv, Types
<1>2. R.there /\ row' = [row EXCEPT ![h] = R] /\ row \in [Host -> Row]
  BY <1>1 DEF Ask, IInv, Types
<1>3. CASE kind = "edit"
  <2>. DEFINE p == IF in.tunnel # row[h].tunnel \/ in.zone # row[h].zone THEN "undeploy" ELSE "update"
  <2>1. Begin(r, kind, h, in, p)
    BY <1>3 DEF Ask
  <2>2. p \in {"undeploy", "update"} /\ (p = "update" => in.zone = R.zone)
    BY <1>1
  <2>. HIDE DEF p
  <2>. QED  BY <1>1, <1>2, <1>3, <2>1, <2>2, BeginStep
<1>4. CASE kind # "edit"
  <2>1. PICK p \in {"flip", "clear", "undeploy"} :
          /\ Begin(r, kind, h, in, p)
          /\ p = "flip" => kind = "toggle"
          /\ p = "undeploy" => kind = "delete"
    BY <1>4 DEF Ask
  <2>. QED  BY <1>1, <1>2, <2>1, BeginStep
<1>. QED  BY <1>3, <1>4

-----------------------------------------------------------------------------
(* The theorems                                                            *)

\* Hosts deployed before have their record and are served.
LEMMA InitIInv == Init => IInv
<1>1. SUFFICES ASSUME Init PROVE IInv
  OBVIOUS
<1>2. PICK old \in Installed :
        /\ row = [h \in Host |-> IF h \in old THEN Published ELSE NoRow]
        /\ record = [z \in Zone |-> [h \in Host |->
              IF h \in old /\ z = AnyZone THEN [NoRecord EXCEPT !.id = 1] ELSE NoRecord]]
        /\ made = [h \in Host |-> IF h \in old THEN 1 ELSE 0]
  BY <1>1 DEF Init
<1>3. /\ pc = [r \in Request |-> "idle"] /\ job = [r \in Request |-> NoJob] /\ seen = [r \in Request |-> NotRead]
      /\ queue = <<>> /\ built = <<>> /\ config = Ingress(AnyTunnel) /\ loaded = [t \in Tunnel |-> Ingress(t)]
      /\ signalled = {} /\ missed = {} /\ raced = {} /\ faulty = {} /\ ops = 0
  BY <1>1 DEF Init
<1>4. /\ AnyTunnel \in Tunnel /\ AnyZone \in Zone /\ NoRow \in Row /\ NoRecord \in Record
      /\ NotRead \in DeployRead /\ NoJob \in Job /\ ~NoRow.there /\ NoRecord.id = None
  BY Typical
<1>5. /\ Published \in Row /\ Published.there /\ Published.on /\ Published.rec = 1
      /\ Published.tunnel = AnyTunnel /\ Published.zone = AnyZone
  <2>. DEFINE P == [NoRow EXCEPT !.there = TRUE, !.on = TRUE, !.rec = 1]
  <2>1. P \in Row /\ P.there /\ P.on /\ P.rec = 1 /\ P.tunnel = NoRow.tunnel /\ P.zone = NoRow.zone
    <3>. HIDE DEF NoRow
    <3>. QED  BY <1>4 DEF Row
  <2>2. NoRow.tunnel = AnyTunnel /\ NoRow.zone = AnyZone
    BY DEF NoRow
  <2>. QED  BY <2>1, <2>2 DEF Published
<1>6. PICK first \in Record : first = [NoRecord EXCEPT !.id = 1]
  BY <1>4 DEF Record
<1>7. first.id = 1 /\ first.target = AnyTunnel /\ first = [id |-> 1, target |-> AnyTunnel]
  BY <1>6 DEF NoRecord
<1>8. /\ \A h \in Host : row[h] \in Row /\ (h \in old => row[h] = Published) /\ (h \notin old => ~row[h].there)
      /\ \A z \in Zone, h \in Host : record[z][h] = IF h \in old /\ z = AnyZone THEN first ELSE NoRecord
  BY <1>2, <1>4, <1>5, <1>6
<1>9. row \in [Host -> Row] /\ record \in [Zone -> [Host -> Record]] /\ made \in [Host -> Nat]
  BY <1>2, <1>4, <1>5, <1>6
<1>10. \A t \in Tunnel : /\ Ingress(t) \in Config
                         /\ \A h \in Host : row[h].there /\ row[h].tunnel = t => Ingress(t).hosts[h] = Want(h)
  <2>1. SUFFICES ASSUME NEW t \in Tunnel
                 PROVE  /\ Ingress(t) \in Config
                        /\ \A h \in Host : row[h].there /\ row[h].tunnel = t => Ingress(t).hosts[h] = Want(h)
    OBVIOUS
  <2>2. ASSUME NEW h \in Host PROVE row[h].rev \in Nat
    BY <1>8, ConstantsAssumption DEF Row
  <2>3. \A h \in Host : Ingress(t).hosts[h] = IF row[h].there /\ row[h].on /\ row[h].tunnel = t THEN row[h].rev ELSE None
    BY DEF Ingress
  <2>4. Ingress(t) \in Config
    BY <2>2 DEF Ingress, Config, None
  <2>. QED  BY <2>3, <2>4 DEF Want
<1>11. Types
  BY <1>3, <1>4, <1>9, <1>10 DEF Types, Step
<1>12. QueueInv /\ AloneInv /\ \A r \in Request : RequestInv(r)
  BY <1>3 DEF QueueInv, AloneInv, RequestInv
<1>13. IdsInv
  BY <1>3, <1>7, <1>8 DEF IdsInv, None
<1>14. ASSUME NEW h \in Host PROVE RecordInv(h)
  <2>1. CASE h \in old
    BY <1>4, <1>5, <1>7, <1>8, <2>1 DEF RecordInv, Owned
  <2>2. CASE h \notin old
    BY <1>8, <2>2 DEF RecordInv, Owned
  <2>. QED  BY <2>1, <2>2
<1>15. ASSUME NEW h \in Host PROVE ServeInv(h)
  <2>1. row[h].tunnel \in Tunnel
    BY <1>8 DEF Row
  <2>2. \A t \in Tunnel : row[h].there => Good(h, Ingress(t))
    BY <1>10, IngressTypes, <1>11 DEF Good
  <2>. QED  BY <1>3, <1>4, <2>1, <2>2 DEF ServeInv, Cares
<1>. QED  BY <1>11, <1>12, <1>13, <1>14, <1>15 DEF IInv

LEMMA NextIInv == IInv /\ [Next]_vars => IInv'
<1>1. SUFFICES ASSUME IInv, [Next]_vars PROVE IInv'
  OBVIOUS
<1>2. CASE \E r \in Request, h \in Host, in \in Input : Create(r, h, in) \/ \E kind \in Kinds : Ask(r, kind, h, in)
  BY <1>1, <1>2, CreateStep, AskStep
<1>3. ASSUME NEW r \in Request, RequestStep(r) PROVE IInv'
  <2>1. CASE /\ pc[r] \notin Waiting \cup {"idle"} /\ UNCHANGED daemonVars
             /\ \/ Update(r) \/ Flip(r) \/ Clear(r) \/ Remove(r) \/ PersistDnsRecordId(r) \/ Deployed(r) \/ Fail(r)
                \/ DeployHost(r) \/ UpsertCnameRecord(r) \/ CreateRecord(r) \/ CloudflareFails(r)
                \/ UndeployHost(r) \/ DeleteDnsRecord(r) \/ DeleteFails(r)
    <3>1. Sound(r)
      BY <1>1, <2>1, UpdateSound, FlipSound, ClearSound, RemoveSound, PersistSound, DeployedSound, FailSound,
         DeploySound, UpsertSound, CreateSound, CloudflareFailsSound, UndeploySound, DeleteSound,
         DeleteFailsSound
    <3>. QED  BY <1>1, <2>1, <3>1, PlainStep
  <2>2. CASE Update(r) \/ Flip(r) \/ Clear(r) \/ Remove(r) \/ PersistDnsRecordId(r) \/ Deployed(r) \/ Fail(r)
    BY <2>1, <2>2 DEF Update, Flip, Clear, Remove, PersistDnsRecordId, Deployed, Fail, Waiting
  <2>3. CASE DeployHost(r) \/ UpsertCnameRecord(r) \/ CreateRecord(r) \/ CloudflareFails(r)
    BY <2>1, <2>3 DEF DeployHost, UpsertCnameRecord, CreateRecord, CloudflareFails, Waiting
  <2>4. CASE UndeployHost(r) \/ DeleteDnsRecord(r) \/ DeleteFails(r)
    BY <2>1, <2>4 DEF UndeployHost, DeleteDnsRecord, DeleteFails, Waiting
  <2>5. CASE Reload(r) \/ WriteConfig(r) \/ WriteFails(r)
    BY <1>1, <2>5, ReloadStep, WriteStep, WriteFailsStep
  <2>. QED  BY <1>3, <2>2, <2>3, <2>4, <2>5 DEF RequestStep
<1>4. CASE BuildContext
  BY <1>1, <1>4, BuildStep
<1>5. ASSUME NEW t \in Tunnel, Sighup(t) \/ Respawn(t) PROVE IInv'
  BY <1>1, <1>5, ReadStep DEF Sighup, Respawn
<1>6. CASE UNCHANGED vars
  <2>1. /\ UNCHANGED <<row, record, made, pc, job, seen, queue, built, config, signalled, loaded, missed, raced, faulty, ops>>
    BY <1>6 DEF vars
  <2>2. IdsInv' /\ RecordsKept
    BY <1>1, <2>1, Undisturbed
  <2>3. Types' /\ QueueInv'
    BY <1>1, <2>1 DEF IInv, Types, QueueInv
  <2>4. ASSUME NEW q \in Request, pc[q] # "idle", job[q].host \notin raced PROVE BuiltFor(q)'
    <3>1. BuiltFor(q)
      BY <1>1, <2>4, AtHost DEF HostOf
    <3>. QED  BY <2>1, <3>1 DEF BuiltFor, Want, HostOf
  <2>5. ASSUME NEW h \in Host PROVE ServeInv(h)'
    <3>1. ServeInv(h)
      BY <1>1 DEF IInv
    <3>. QED  BY <2>1, <3>1 DEF ServeInv, Good, Want, Cares, Quiet, HostOf
  <2>6. ServesKept
    BY <2>1, <2>4, <2>5 DEF ServesKept
  <2>. QED  BY <2>2, <2>3, <2>6, AllKept
<1>. QED  BY <1>1, <1>2, <1>3, <1>4, <1>5, <1>6 DEF Next

LEMMA SpecIInv == Spec => []IInv
BY InitIInv, NextIInv, PTL DEF Spec

LEMMA IInvTypeOK == IInv => TypeOK
<1>1. SUFFICES ASSUME IInv PROVE TypeOK
  OBVIOUS
<1>2. Types /\ QueueInv /\ queue \in Seq(Request) /\ Len(queue) \in Nat
  BY <1>1, QueueFacts
<1>3. queue \in Seq({r \in Request : pc[r] \in Waiting})
  <2>1. \A m \in 1..Len(queue) : queue[m] \in {r \in Request : pc[r] \in Waiting}
    BY <1>2 DEF QueueInv
  <2>. QED  BY <1>2, <2>1
<1>4. Len(built) <= 1 /\ (built # <<>> => queue # <<>>)
  <2>1. CASE built = <<>>
    BY <2>1
  <2>2. CASE built # <<>>
    <3>1. queue # <<>>
      BY <1>2, <2>2 DEF QueueInv
    <3>2. PICK c \in Config : built = <<c>>
      BY <1>2, <2>2 DEF QueueInv
    <3>3. Len(built) = 1
      BY <3>2
    <3>. QED  BY <3>1, <3>3
  <2>. QED  BY <2>1, <2>2
<1>5. \A r \in Request : seen[r] \in DeployRead /\ job[r].was \in HandlerRead /\ job[r].host \in Host /\ job[r].input \in Input
  BY <1>2 DEF Types, Job
<1>. QED  BY <1>2, <1>3, <1>4, <1>5 DEF TypeOK, Types, QueueInv, Record

(* ServedAsRow, for any hosts, tunnels, requests and failures: however the *)
(* deploys of host-deploy.ts interleave, rebuildConfig's queue in          *)
(* config-writer.ts makes the last config.yml say of every host what its   *)
(* row says by then, unless two requests were at that host at once.        *)
THEOREM HostsServedAsRows == Spec => []ServedAsRow
<1>1. ASSUME IInv PROVE ServedAsRow
  <2>1. TypeOK
    BY <1>1, IInvTypeOK
  <2>2. SUFFICES ASSUME Settled, NEW h \in Host \ raced, row[h].there, ~row[h].err, row[h].tunnel \notin missed,
                        loaded[row[h].tunnel].of = row[h].tunnel
                 PROVE  /\ row[h].on => loaded[row[h].tunnel].hosts[h] = row[h].rev
                        /\ ~row[h].on /\ "disk" \notin Faults => loaded[row[h].tunnel].hosts[h] = None
    BY <2>1 DEF ServedAsRow
  <2>3. Quiet(h) /\ signalled = {}
    BY <2>2 DEF Settled, Active, Quiet
  <2>4. row[h].on \/ "disk" \notin Faults => Good(h, loaded[row[h].tunnel])
    BY <1>1, <2>2, <2>3 DEF IInv, ServeInv, Cares
  <2>. QED  BY <2>2, <2>4 DEF Good, Want
<1>. QED  BY <1>1, SpecIInv, PTL

(* RecordsTrue, for any hosts, zones, requests and failures: what          *)
(* deployHost, undeployHost and the routes leave at Cloudflare is what the *)
(* rows say, also after calls that failed with or without having had their *)
(* effect, for every host whose requests came one after the other.         *)
THEOREM RecordsStayTrue == Spec => []RecordsTrue
<1>1. ASSUME IInv PROVE RecordsTrue
  <2>1. ASSUME NEW h \in Host, h \notin raced, \A r \in Active : HostOf(r) # h PROVE RecordInv(h) /\ Quiet(h)
    BY <1>1, <2>1 DEF IInv, Active, Quiet
  <2>2. RecordKnown
    BY <2>1 DEF RecordKnown, RecordInv
  <2>3. NoOrphan
    BY <2>1 DEF NoOrphan, RecordInv, Owned
  <2>. QED  BY <2>2, <2>3 DEF RecordsTrue
<1>. QED  BY <1>1, SpecIInv, PTL
=============================================================================
