----------------------------- MODULE Diagnostics -----------------------------
(***************************************************************************)
(* What a deploy finds out about its host afterwards, and what the host's  *)
(* row says of it: services/dns-verify.ts, services/upstream-probe.ts,     *)
(* verifyDnsAndProbe of services/host-deploy.ts, and the routes that ask   *)
(* the same questions on demand (verify-dns, diagnose).                    *)
(*                                                                         *)
(* One host published through cloudflared.  A deploy goes on to diagnose   *)
(* the row it read at its start, for as long as twelve seconds of DNS and  *)
(* five requests to the origin take; edits, redeploys, the deletion of the *)
(* row, changes at Cloudflare and a restart of the origin as another       *)
(* service come in between, and any request may fail by itself.  Messages  *)
(* are the kind of their outcome.                                          *)
(***************************************************************************)
EXTENDS Naturals, FiniteSets

CONSTANTS
  Jobs,       \* requests and the diagnoses they leave running
  Attempts,   \* DNS queries of a diagnosis after a deploy; one on demand
  Origins,    \* the services that may answer at the host's address, see Origin
  MaxAsked,   \* bounds the requests
  MaxChanges  \* bounds what changes by itself: the zone's record, the origin

VARIABLES
  row,     \* proxy_hosts: whether it is there, its target, last_error, meta.last_warning
  public,  \* what a resolver says of the hostname
  zone,    \* the record Cloudflare holds for it: none, this tunnel's, another's
  origin,  \* the service at the target's address
  job,     \* where each request or diagnosis is
  found,   \* history: what each deploy has established since there last was none under way
  asked, changes

vars == <<row, public, zone, origin, job, found, asked, changes>>

(***************************************************************************)
(* The services a host may be pointed at                                   *)
(***************************************************************************)
\* port: whether it listens; tls: what it speaks; hello: the first byte it answers to a
\* plain-text line; names: those its certificate is good for; direct: its answer to a request
\* for its address; plain, proxied: to one for the hostname, without and with X-Forwarded-For.
Status == {"good", "bad", "error"}      \* below 500, 400, 500 and above
Origin == [port : {"refused", "silent", "open"}, tls : BOOLEAN,
           hello : {"http", "alert", "handshake"}, names : SUBSET {"address", "hostname"},
           direct : Status, plain : Status, proxied : Status]

Target == [https : BOOLEAN, skip : BOOLEAN]   \* forward_scheme, tls_options.no_tls_verify

\* A request over the target's scheme, with a certificate good for name unless no_tls_verify.
Reply(o, t, name, status) ==
  IF o.port # "open" \/ (t.https /\ (~o.tls \/ ~(name \in o.names \/ t.skip))) THEN "none"
  ELSE IF ~t.https /\ o.tls THEN IF o.hello = "http" THEN "bad" ELSE "none"
  ELSE status

\* rawRequest names the public host, in Host and in the handshake.
Plain(o, t) == Reply(o, t, "hostname", o.plain)
Proxied(o, t) == Reply(o, t, "hostname", o.proxied)
\* fetch() names the address, and knows nothing of no_tls_verify.
Fetch(o, t) == Reply(o, [t EXCEPT !.skip = FALSE], "address", o.direct)
\* What a visitor gets: Cloudflare puts X-Forwarded-For on every request, and cloudflared
\* passes the Host on and wants a certificate for the address.
Visitor(o, t) == Reply(o, t, "address", o.proxied)

(***************************************************************************)
(* Types                                                                   *)
(***************************************************************************)
Verdicts == {"ok", "refused", "timeout", "tls_on_http", "http_on_tls", "rejected", "http_error", "unknown"}
DnsReal == {"nxdomain", "wrong_target"}
DnsSoft == {"no_record", "no_answer"}
Errors == {"none", "deploy"} \union (Verdicts \ {"ok"}) \union DnsReal
Warnings == {"none"} \union DnsSoft
Steps == {"deploy", "query", "records", "warn", "sniff", "plain", "proxied", "fetch", "write"}
Kinds == {"deploy", "verify", "diagnose"}

Idle == [kind |-> "none"]
Work == [kind : Kinds, at : Steps, target : Target, tries : 0..Attempts, dns : {"none", "ok"} \union DnsReal \union DnsSoft,
         verdict : Verdicts, steady : BOOLEAN, lost : BOOLEAN]

TypeOK ==
  /\ row \in [there : BOOLEAN, target : Target, error : Errors, warning : Warnings]
  /\ public \in {"nxdomain", "empty", "edge", "cname"} /\ zone \in {"none", "ours", "other"}
  /\ origin \in Origins /\ Origins \subseteq Origin
  /\ \A j \in Jobs : job[j] # Idle => job[j] \in Work
  /\ found \subseteq [error : Errors, warning : Warnings]
  /\ asked \in 0..MaxAsked /\ changes \in 0..MaxChanges

Init ==
  /\ \E t \in Target : row = [there |-> TRUE, target |-> t, error |-> "none", warning |-> "none"]
  /\ \/ public \in {"nxdomain", "empty"} /\ zone = "none"
     \/ public = "edge" /\ zone = "ours"
  /\ origin \in Origins
  /\ job = [j \in Jobs |-> Idle]
  /\ found = {[error |-> "none", warning |-> "none"]}
  /\ asked = 0 /\ changes = 0

(***************************************************************************)
(* Requests                                                                *)
(***************************************************************************)
world == <<public, zone, origin, changes>>
Deploys == {j \in Jobs : job[j] # Idle /\ job[j].kind = "deploy"}

Begin(j, kind, t, step, tries) ==
  /\ job[j] = Idle /\ asked < MaxAsked
  /\ asked' = asked + 1
  /\ job' = [job EXCEPT ![j] = [kind |-> kind, at |-> step, target |-> t, tries |-> tries, dns |-> "none",
                                verdict |-> "ok", steady |-> TRUE, lost |-> FALSE]]
  /\ found' = IF kind = "deploy" /\ Deploys = {} THEN {} ELSE found

\* PUT /:id stores the target and deploys without waiting.
Edit(j) ==
  /\ row.there
  /\ \E t \in Target : row' = [row EXCEPT !.target = t] /\ Begin(j, "deploy", t, "deploy", Attempts)
  /\ UNCHANGED world

\* POST /:id/redeploy clears the error first.
Redeploy(j) ==
  /\ row.there
  /\ row' = [row EXCEPT !.error = "none"]
  /\ Begin(j, "deploy", row.target, "deploy", Attempts)
  /\ UNCHANGED world

\* GET /:id/verify-dns, one attempt.
VerifyDns(j) ==
  row.there /\ Begin(j, "verify", row.target, "query", 1) /\ UNCHANGED <<row, world>>

\* GET /:id/diagnose, the origin only.
Diagnose(j) ==
  row.there /\ Begin(j, "diagnose", row.target, "sniff", 1) /\ UNCHANGED <<row, world>>

\* DELETE /:id; what runs on finds no row to write to.
Delete ==
  /\ row.there
  /\ row' = [row EXCEPT !.there = FALSE]
  /\ UNCHANGED <<world, job, found, asked>>

At(j, step) == job[j] # Idle /\ job[j].at = step
Go(j, step) == job' = [job EXCEPT ![j].at = step]
Updated(r) == row' = IF row.there THEN r ELSE row

\* A diagnosis is over; a deploy leaves its findings.
Ends(j, error, warning) ==
  /\ job' = [job EXCEPT ![j] = Idle]
  /\ found' = IF job[j].kind # "deploy" THEN found ELSE found \union {[error |-> error, warning |-> warning]}
  /\ UNCHANGED <<world, asked>>

\* deployHost: provider, CNAME and row, or the message of what failed.
Deployed(j) ==
  /\ At(j, "deploy")
  /\ Updated([row EXCEPT !.error = "none"])
  /\ zone' = "ours"
  /\ Go(j, "query")
  /\ UNCHANGED <<public, origin, changes, found, asked>>

DeployFails(j) ==
  /\ At(j, "deploy")
  /\ Updated([row EXCEPT !.error = "deploy"])
  /\ Ends(j, "deploy", "none")

(***************************************************************************)
(* verifyDns                                                               *)
(***************************************************************************)
\* What verifyDns has returned: written by a deploy, answered to a request.
DnsIs(j, kind) ==
  job' = [job EXCEPT ![j].dns = kind, ![j].tries = 1, ![j].at = IF kind \in DnsReal \/ job[j].kind = "verify" THEN "write" ELSE "warn"]

Again(j) == job' = [job EXCEPT ![j].tries = @ - 1]

\* One query: no response, a definite answer, an empty one that is asked again, or the edge's
\* addresses, for which Cloudflare's API has the target.
Query(j) ==
  /\ At(j, "query")
  /\ \/ IF job[j].tries = 1 THEN DnsIs(j, "no_answer") ELSE Again(j)
     \/ public = "nxdomain" /\ DnsIs(j, "nxdomain")
     \/ public = "empty" /\ IF job[j].tries = 1 THEN DnsIs(j, "no_record") ELSE Again(j)
     \/ public = "cname" /\ DnsIs(j, IF zone = "ours" THEN "ok" ELSE "wrong_target")
     \/ public = "edge" /\ job' = [job EXCEPT ![j].tries = 1, ![j].at = "records"]
  /\ UNCHANGED <<row, world, found, asked>>

\* A lookup that fails is no reason to doubt the name.
Records(j) ==
  /\ At(j, "records")
  /\ \/ DnsIs(j, "ok")
     \/ zone # "ours" /\ DnsIs(j, "wrong_target")
  /\ UNCHANGED <<row, world, found, asked>>

\* A mistaken SetMetaWarning: a good outcome leaves the warning of an earlier deploy.
SetMetaWarningKeeps(j) ==
  /\ At(j, "warn")
  /\ Updated(IF job[j].dns \in DnsSoft THEN [row EXCEPT !.warning = job[j].dns] ELSE row)
  /\ Go(j, "sniff")
  /\ UNCHANGED <<world, found, asked>>

\* setMetaWarning: a soft outcome is parked, a good one clears what an earlier deploy parked.
SetMetaWarning(j) ==
  /\ At(j, "warn")
  /\ Updated([row EXCEPT !.warning = IF job[j].dns \in DnsSoft THEN job[j].dns ELSE "none"])
  /\ Go(j, "sniff")
  /\ UNCHANGED <<world, found, asked>>

(***************************************************************************)
(* probeUpstream                                                           *)
(***************************************************************************)
Judge(j, verdict) == job' = [job EXCEPT ![j].verdict = verdict, ![j].at = "write"]

\* A request is reset or takes too long, whatever the origin is.
Fails(j, verdict, step) == job' = [job EXCEPT ![j].lost = TRUE, ![j].verdict = verdict, ![j].at = step]

\* sniffPort: TLS is recognised by a handshake record only.
Sniff(j) ==
  /\ At(j, "sniff")
  /\ \/ LET https == job[j].target.https IN
        IF origin.port = "refused" THEN Judge(j, "refused")
        ELSE IF origin.port = "silent" THEN Judge(j, "timeout")
        ELSE IF https # (origin.hello = "handshake")
             THEN Judge(j, IF https THEN "http_on_tls" ELSE "tls_on_http")
        ELSE Go(j, "plain")
     \/ \E v \in {"refused", "timeout"} : Fails(j, v, "write")
  /\ UNCHANGED <<row, world, found, asked>>

\* A mistaken PlainRequest: what answers well is not asked again as a proxy would.
PlainRequestTrusted(j) ==
  /\ At(j, "plain")
  /\ IF Plain(origin, job[j].target) = "good" THEN Judge(j, "ok") ELSE Go(j, "fetch")
  /\ UNCHANGED <<row, world, found, asked>>

\* probeForwardedHeaders: only a step into 400 is diagnostic, and a request that fails says
\* nothing.
PlainRequest(j) ==
  /\ At(j, "plain")
  /\ \/ Go(j, IF Plain(origin, job[j].target) \in {"none", "bad"} THEN "fetch" ELSE "proxied")
     \/ Fails(j, job[j].verdict, "fetch")
  /\ UNCHANGED <<row, world, found, asked>>

ProxiedRequest(j) ==
  /\ At(j, "proxied")
  /\ \/ IF Proxied(origin, job[j].target) = "bad" THEN Judge(j, "rejected") ELSE Go(j, "fetch")
     \/ Fails(j, job[j].verdict, "fetch")
  /\ UNCHANGED <<row, world, found, asked>>

\* The generic request: anything below 500 will do.
FetchRequest(j) ==
  /\ At(j, "fetch")
  /\ \/ Judge(j, CASE Fetch(origin, job[j].target) = "none" -> "unknown"
                   [] Fetch(origin, job[j].target) = "error" -> "http_error"
                   [] OTHER -> "ok")
     \/ Fails(j, "unknown", "write")
  /\ UNCHANGED <<row, world, found, asked>>

\* A definite DNS error, or what the probe found, becomes the row's last_error.
Write(j) ==
  /\ At(j, "write")
  /\ LET e == IF job[j].dns \in DnsReal THEN job[j].dns ELSE job[j].verdict IN
     IF job[j].kind # "deploy" THEN row' = row /\ Ends(j, "none", "none")
     ELSE /\ Updated(IF e = "ok" THEN row ELSE [row EXCEPT !.error = e])
          /\ Ends(j, IF e = "ok" THEN "none" ELSE e, IF job[j].dns \in DnsSoft THEN job[j].dns ELSE "none")

(***************************************************************************)
(* What changes by itself                                                  *)
(***************************************************************************)
Changed == changes < MaxChanges /\ changes' = changes + 1 /\ UNCHANGED <<row, found, asked>>

\* A record becomes visible: a proxied one as addresses of the edge, another as it is.
Propagates ==
  /\ zone # "none" /\ public \in {"nxdomain", "empty"}
  /\ public' \in {"edge", "cname"}
  /\ UNCHANGED <<row, zone, origin, job, found, asked, changes>>

\* Somebody points the record elsewhere, or removes it and a wildcard answers.
RecordChanges ==
  /\ Changed
  /\ zone' \in {"none", "other"} \ {zone}
  /\ UNCHANGED <<public, origin, job>>

\* Another service, or the same one in another mood, answers at the address.
OriginChanges ==
  /\ Changed
  /\ \E o \in Origins \ {origin} : origin' = o
  /\ job' = [j \in Jobs |-> IF job[j] = Idle THEN Idle ELSE [job[j] EXCEPT !.steady = FALSE]]
  /\ UNCHANGED <<public, zone>>

Step(j) ==
  \/ Deployed(j) \/ DeployFails(j)
  \/ Query(j) \/ Records(j) \/ SetMetaWarning(j)
  \/ Sniff(j) \/ PlainRequest(j) \/ ProxiedRequest(j) \/ FetchRequest(j)
  \/ Write(j)

Next ==
  \/ \E j \in Jobs : Edit(j) \/ Redeploy(j) \/ VerifyDns(j) \/ Diagnose(j) \/ Step(j)
  \/ Delete /\ UNCHANGED changes
  \/ Propagates \/ RecordChanges \/ OriginChanges

Spec == Init /\ [][Next]_vars

(***************************************************************************)
(* Properties                                                              *)
(***************************************************************************)
\* A verdict about the origin is ready, and the origin was the same one throughout.
Judged(j) == At(j, "write") /\ job[j].kind # "verify" /\ job[j].dns \notin DnsReal /\ job[j].steady

\* The origin has one face: it answers its address as it answers the hostname, and the
\* certificate that will do for the one will do for the other.
OneFace(o) == o.direct = o.plain /\ ("address" \in o.names => "hostname" \in o.names)

\* The five requests of a probe add up to the truth about visitors.  An origin said to reject
\* proxied requests does, and serves no visitor, even if requests were lost on the way; one
\* that does and of which no request was lost is said to, unless its first byte was taken
\* for the wrong protocol.  And a probe that finds nothing wrong means that visitors are
\* answered, no worse than a plain request is, but for an origin that breaks down (500 and
\* above) over proxied requests alone: if no request was lost, and if the origin has one
\* face, for the last word is with a request that does not name the host (probeUpstream,
\* probeForwardedHeaders).
VerdictHoldsForVisitors ==
  \A j \in Jobs : Judged(j) =>
    LET d == job[j]
        plain == Plain(origin, d.target)
        visitor == Visitor(origin, d.target)
        rejects == Proxied(origin, d.target) = "bad" /\ plain \notin {"none", "bad"}
    IN  /\ d.verdict = "rejected" => rejects /\ visitor \in {"none", "bad"}
        /\ rejects /\ ~d.lost => d.verdict \in {"rejected", "tls_on_http", "http_on_tls"}
        /\ d.verdict = "ok" /\ ~d.lost /\ OneFace(origin) =>
             visitor = "good" \/ (visitor = "bad" /\ plain = "bad") \/ (visitor = "error" /\ plain # "error")

\* Once a host's deploys are over, its row shows what they found and nothing older: of one
\* deploy its error, and its warning unless it did not get as far as the place that clears
\* warnings; of deploys that overlapped what one of them found, whichever wrote last.
\* On-demand checks change nothing of it.
Cut == DnsReal \union {"deploy"}
RowShowsLastFindings ==
  (row.there /\ Deploys = {}) =>
    /\ \E f \in found : f.error = row.error
    /\ (\E f \in found : f.warning = row.warning) \/ (\A f \in found : f.error \in Cut)

=============================================================================
