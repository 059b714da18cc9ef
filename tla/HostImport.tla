----------------------------- MODULE HostImport -----------------------------
(***************************************************************************)
(* The three ways a host gets into proxy_hosts: the form (routes/hosts.ts),*)
(* the bulk import (routes/hosts-bulk.ts, BulkImportModal.tsx) and the     *)
(* assistant's create_host (services/ai-tools.ts), with the rules all of   *)
(* them ask of services/host-placement.ts while tunnels, zones and hosts   *)
(* are being deleted.  What a deploy then does is HostDeploy; edits of a   *)
(* host are there too.                                                     *)
(*                                                                         *)
(* A hostname is a name and the case it was typed in.  What else a row     *)
(* holds (origin, headers, the path prefix of an HTTP host) is left out.   *)
(***************************************************************************)
EXTENDS Naturals, Sequences, FiniteSets

CONSTANTS
  Names,        \* hostnames, regardless of case
  Zones,        \* cf_zones rows at the start
  EndsWith,     \* the pairs of a hostname and a zone whose name it ends with
  Cloudflared,  \* tunnels rows at the start, by provider
  Playit,
  Entries,      \* the payloads and rows of a file that the schemas take (see EntryType)
  Callers,      \* requests that can be under way together
  FileLength,   \* bounds the rows of an imported file
  MaxHosts,     \* bounds the rows inserted
  MaxAsked      \* bounds the requests

VARIABLES
  rows,     \* proxy_hosts
  tunnels,  \* the tunnels that exist
  zones,    \* the zones that exist
  request,  \* what each request is doing
  inserted, \* rows inserted so far
  requests  \* requests so far

vars == <<rows, tunnels, zones, request, inserted, requests>>

None == 0
AllTunnels == Cloudflared \cup Playit
Doors == {"form", "bulk", "assistant"}
Idle == [at |-> "idle"]
EntryType == [name : Names, upper : BOOLEAN, mode : {"tunnel", "local"}, protocol : {"http", "tcp"},
              tunnel : {None} \cup AllTunnels, zone : {None} \cup Zones]
Steps == {"read", "tunnel", "zone", "insert", "inserted", "answer"}

TypeOK ==
  /\ \A r \in rows : r.id \in 1..MaxHosts /\ r.via \in Doors
  /\ Entries \subseteq EntryType
  /\ tunnels \subseteq AllTunnels /\ zones \subseteq Zones
  /\ inserted \in 0..MaxHosts /\ requests \in 0..MaxAsked
  /\ \A c \in Callers : request[c] # Idle =>
       request[c].at \in Steps /\ request[c].door \in Doors /\ request[c].left \in 0..FileLength

Init ==
  /\ rows = {} /\ tunnels = AllTunnels /\ zones = Zones
  /\ request = [c \in Callers |-> Idle]
  /\ inserted = 0 /\ requests = 0

At(c, step) == request[c].at = step
Go(c, step) == request' = [request EXCEPT ![c].at = step]
tables == <<tunnels, zones>>
bounds == <<inserted, requests>>

\* A request with n entries is under way.
Begin(c, door, n) ==
  /\ request[c] = Idle /\ requests < MaxAsked /\ requests' = requests + 1
  /\ request' = [request EXCEPT ![c] =
       [at |-> "read", door |-> door, left |-> n, entry |-> None, made |-> 0, results |-> <<>>]]
  /\ UNCHANGED <<rows, tables, inserted>>

\* The form sends one payload, the assistant's tool is called with one, and a file is
\* sent with all its rows.
SubmitForm(c) == Begin(c, "form", 1)
CallTool(c) == Begin(c, "assistant", 1)
ImportFile(c) == \E n \in 1..FileLength : Begin(c, "bulk", n)

\* The outcome of one entry goes into the answer, and the next one is taken up.
Result(c, ok) ==
  request' = [request EXCEPT ![c].results = Append(@, ok), ![c].left = @ - 1, ![c].entry = None,
                             ![c].at = IF request[c].left = 1 THEN "answer" ELSE "read"]
Refuse(c) == Result(c, FALSE)

\* The next row of the file, or the one payload: malformed, or an entry whose fields the
\* schema takes.  A local_nginx host has no placement to check.
ReadEntry(c) ==
  /\ At(c, "read")
  /\ \/ Refuse(c)
     \/ \E e \in Entries :
          request' = [request EXCEPT ![c].entry = e,
                                     ![c].at = IF e.mode = "local" THEN "insert" ELSE "tunnel"]
  /\ UNCHANGED <<rows, tables, bounds>>

Carries(t, protocol) == IF t \in Cloudflared THEN protocol = "http" ELSE protocol = "tcp"

\* No tunnel, none of the caller's, one that cannot carry the protocol, or a cloudflared
\* host without a zone for its record.
TunnelProblem(e) ==
  \/ e.tunnel \notin tunnels
  \/ ~ Carries(e.tunnel, e.protocol)
  \/ e.tunnel \in Cloudflared /\ e.zone = None

CheckTunnel(c) ==
  LET e == request[c].entry
  IN /\ At(c, "tunnel")
     /\ IF TunnelProblem(e) THEN Refuse(c)
        ELSE Go(c, IF e.zone = None THEN "insert" ELSE "zone")
     /\ UNCHANGED <<rows, tables, bounds>>

\* The zone is there and the hostname, as it was typed, ends with its name.
CheckZone(c) ==
  LET e == request[c].entry
  IN /\ At(c, "zone")
     /\ IF e.zone \in zones /\ <<e.name, e.zone>> \in EndsWith /\ ~ e.upper
        THEN Go(c, "insert") ELSE Refuse(c)
     /\ UNCHANGED <<rows, tables, bounds>>

\* What is inserted for an entry: the hostname in lower case, and from the assistant no
\* protocol, for which the column has a default.
Stored(e, door) ==
  [name |-> e.name, upper |-> FALSE, mode |-> e.mode, tunnel |-> e.tunnel, zone |-> e.zone,
   protocol |-> IF door = "assistant" THEN "http" ELSE e.protocol]

\* UNIQUE on the hostname, and the foreign keys.
Violates(s) ==
  \/ \E r \in rows : r.name = s.name /\ r.upper = s.upper
  \/ s.tunnel \notin tunnels \cup {None}
  \/ s.zone \notin zones \cup {None}

Insert(c) ==
  LET s == Stored(request[c].entry, request[c].door)
  IN /\ At(c, "insert")
     /\ IF Violates(s) THEN Refuse(c) /\ UNCHANGED <<rows, inserted>>
        ELSE /\ inserted < MaxHosts /\ inserted' = inserted + 1
             /\ rows' = rows \cup {[id |-> inserted + 1, via |-> request[c].door, name |-> s.name,
                                    upper |-> s.upper, mode |-> s.mode, tunnel |-> s.tunnel,
                                    zone |-> s.zone, protocol |-> s.protocol]}
             /\ request' = [request EXCEPT ![c].at = "inserted", ![c].made = @ + 1]
     /\ UNCHANGED <<tables, requests>>

\* Mutant of Inserted: the deploy is awaited, and its failure is the row's
InsertedAndDeployed(c) ==
  /\ At(c, "inserted")
  /\ \E ok \in BOOLEAN : Result(c, ok)
  /\ UNCHANGED <<rows, tables, bounds>>

\* The deploy is begun, and how it ends is not waited for.
Inserted(c) ==
  /\ At(c, "inserted")
  /\ Result(c, TRUE)
  /\ UNCHANGED <<rows, tables, bounds>>

Answer(c) ==
  /\ At(c, "answer")
  /\ request' = [request EXCEPT ![c] = Idle]
  /\ UNCHANGED <<rows, tables, bounds>>

\* DELETE /tunnels/:id and a zone sync: ON DELETE SET NULL.
DeleteTunnel(t) ==
  /\ t \in tunnels
  /\ tunnels' = tunnels \ {t}
  /\ rows' = {[r EXCEPT !.tunnel = IF @ = t THEN None ELSE @] : r \in rows}
  /\ UNCHANGED <<zones, request, bounds>>

PruneZone(z) ==
  /\ z \in zones
  /\ zones' = zones \ {z}
  /\ rows' = {[r EXCEPT !.zone = IF @ = z THEN None ELSE @] : r \in rows}
  /\ UNCHANGED <<tunnels, request, bounds>>

DeleteHost(r) ==
  /\ rows' = rows \ {r}
  /\ UNCHANGED <<tables, request, bounds>>

\* The process dies: what was inserted stays, and nobody is told of it.
Die ==
  /\ \E c \in Callers : request[c] # Idle
  /\ request' = [c \in Callers |-> Idle]
  /\ UNCHANGED <<rows, tables, bounds>>

Next ==
  \/ \E c \in Callers :
       \/ SubmitForm(c) \/ CallTool(c) \/ ImportFile(c)
       \/ ReadEntry(c) \/ CheckTunnel(c) \/ CheckZone(c) \/ Insert(c) \/ Inserted(c) \/ Answer(c)
  \/ \E t \in tunnels : DeleteTunnel(t)
  \/ \E z \in zones : PruneZone(z)
  \/ \E r \in rows : DeleteHost(r)
  \/ Die

Spec == Init /\ [][Next]_vars

-----------------------------------------------------------------------------
(* Properties                                                              *)

\* Two doors used at once, a file imported again after a death, and a name typed in
\* another case never make two hosts of one name.
OneRowPerName == \A r, s \in rows : r.name = s.name => r = s

\* host-placement.ts asks before a row is inserted whether the tunnel's provider carries
\* its protocol; the tunnel may go between the question and the insert, and its id never
\* comes back as another's.
Carried(r) == r.mode = "tunnel" /\ r.tunnel # None => Carries(r.tunnel, r.protocol)
FormAndFileCarried == \A r \in rows : r.via # "assistant" => Carried(r)

\* The answer of an import says ok of as many rows as it has inserted, although rows of
\* the file fail in between, in any of the ways there are.
ImportTellsTruth ==
  \A c \in Callers : request[c] # Idle =>
    LET oks == {i \in DOMAIN request[c].results : request[c].results[i]}
    IN request[c].made = Cardinality(oks) + (IF At(c, "inserted") THEN 1 ELSE 0)

HostsPlaced == TypeOK /\ OneRowPerName /\ FormAndFileCarried

=============================================================================
