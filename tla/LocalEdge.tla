----------------------------- MODULE LocalEdge -----------------------------
(***************************************************************************)
(* Hosts in local_nginx mode: services/nginx-config.ts, services/acme.ts,  *)
(* routes/acme.ts, and what host-deploy.ts and routes/hosts.ts do for such *)
(* a host, which has no tunnel and no zone.                                *)
(*                                                                         *)
(* A host's configuration is one file of many that nginx reads together.   *)
(* A deploy keeps the file it finds, puts its own in its place, asks       *)
(* `nginx -t` about all the files there are at that moment, and puts the   *)
(* old one back when the answer is no.  `nginx -s reload` asks once more   *)
(* and signals the master, which reads the files when it gets to it and    *)
(* keeps what it serves if it does not like them: nobody is told.  A       *)
(* certificate takes an order of minutes and is written as two files.  All *)
(* of it runs in one process, in as many requests as there are, with a     *)
(* step wherever the code awaits.                                          *)
(*                                                                         *)
(* The text of a configuration is the edit it was rendered from, whether   *)
(* nginx accepts it (its origin may not resolve) and whether it names the  *)
(* certificate.  A certificate and a key are the number of their order.    *)
(***************************************************************************)
EXTENDS Naturals, FiniteSets

CONSTANTS
  Hosts,       \* the local_nginx hosts
  Jobs,        \* requests and renewals that can be under way together
  MaxRequests, \* bounds the requests
  MaxOrders,   \* bounds the orders at Let's Encrypt
  MaxRestarts  \* bounds the deaths of the container

VARIABLES
  row,       \* proxy_hosts: edit, whether nginx takes it, meta.cert_expires_at's order, last_error,
             \* enabled
  file,      \* /data/nginx/hosts/<id>.conf
  loaded,    \* what nginx serves: the files of its last reload, with the certificates read then
  signalled, \* the master has a reload ahead of it
  behind,    \* it refused the files that it read last
  fallback,  \* nginx was started with recovery.conf, which includes no host's file
  pem, key,  \* certs/<hostname>/cert.pem and key.pem: the order each is from
  tried,     \* lastIssueAttempt: the hostnames an attempt was made for in the last ten minutes
  spent,     \* production orders begun for a hostname in the last ten minutes
  txt,       \* the TXT records at Cloudflare, by the job that made them
  aged,      \* the orders whose certificate has less than thirty days left
  expired,   \* those it has run out for
  job,       \* what each request or renewal is doing
  orders,    \* orders made so far
  asked,     \* requests so far
  restarts,
  raced      \* history: hosts two jobs met on, or a death caught a job on

vars == <<row, file, loaded, signalled, behind, fallback, pem, key, tried, spent, txt, aged, expired, job, orders, asked, restarts, raced>>

Gone == [is |-> "gone"]
Conf(n, ok, tls) == [n |-> n, ok |-> ok, tls |-> tls]
Idle == [kind |-> "none"]

NoFile == Conf(0, TRUE, FALSE)       \* no file: nothing of the host in nginx
Files == [n : 0..MaxRequests, ok : BOOLEAN, tls : BOOLEAN]
Rows == {Gone} \union [is : {"row"}, n : 1..MaxRequests, ok : BOOLEAN, cert : 0..MaxOrders,
                       error : BOOLEAN, enabled : BOOLEAN]
\* renderHostConfig of a row, with a certificate or without.
Rendered(r, tls) == Conf(r.n, r.ok, tls)
AtWork == {"deploy", "issue", "renew", "remove"}
Steps == {"read", "attempt", "order", "proof", "pem", "key", "meta", "put", "test",
          "undo", "reload", "good", "bad", "unlink", "delete"}

TypeOK ==
  /\ row \in [Hosts -> Rows]
  /\ file \in [Hosts -> Files]
  /\ loaded \in [Hosts -> [conf : Files, cert : 0..MaxOrders]]
  /\ signalled \in BOOLEAN /\ behind \in BOOLEAN /\ fallback \in BOOLEAN
  /\ pem \in [Hosts -> 0..MaxOrders] /\ key \in [Hosts -> 0..MaxOrders]
  /\ tried \subseteq Hosts /\ spent \in [Hosts -> 0..MaxOrders]
  /\ txt \subseteq Jobs
  /\ expired \subseteq aged /\ aged \subseteq 1..MaxOrders
  /\ orders \in 0..MaxOrders /\ asked \in 0..MaxRequests /\ restarts \in 0..MaxRestarts
  /\ raced \subseteq Hosts
  /\ \A j \in Jobs : job[j] # Idle => job[j].kind \in AtWork /\ job[j].at \in Steps

(***************************************************************************)
(* nginx                                                                   *)
(***************************************************************************)
\* The configuration of h stands: it parses, its origin resolves, and the certificate
\* it names is there and belongs to its key.
Stands(h) == file[h].ok /\ (file[h].tls => pem[h] = key[h] /\ pem[h] # 0)

AllStand == \A h \in Hosts : Stands(h)
AsOnDisk == [h \in Hosts |-> [conf |-> file[h], cert |-> IF file[h].tls THEN pem[h] ELSE 0]]
NothingServed == [h \in Hosts |-> [conf |-> NoFile, cert |-> 0]]

\* nginx -t, the parse that `nginx -s reload` begins with, and the master's own read every
\* file that the configuration in use includes: all of them, or in recovery none.
NginxTest == fallback \/ AllStand

\* nginx -s reload: the master is signalled if the files stand.
NginxReload == signalled' = (signalled \/ NginxTest)

\* Nothing lies between what is on disk and what is served.
TakenUp == ~signalled /\ ~behind /\ ~fallback

\* The master gets to it: what does not stand by now leaves the old configuration served.
MasterReloads ==
  /\ signalled /\ signalled' = FALSE
  /\ behind' = ~NginxTest
  /\ loaded' = IF fallback THEN NothingServed ELSE IF AllStand THEN AsOnDisk ELSE loaded
  /\ UNCHANGED <<row, file, fallback, pem, key, tried, spent, txt, aged, expired, job, orders, asked, restarts, raced>>

(***************************************************************************)
(* Requests                                                                *)
(***************************************************************************)
On(h) == {j \in Jobs : job[j] # Idle /\ job[j].host = h}
Meets(h) == IF On(h) = {} THEN raced ELSE raced \union {h}
\* Issues and renewals at Let's Encrypt proper, and whether one of them is past its attempt.
Certifying(h) == {j \in On(h) : job[j].kind \in {"issue", "renew"} /\ ~job[j].staging}
Acquiring(h) == \E j \in Certifying(h) : job[j].at # "attempt"
Free(j) == job[j] = Idle
Ask(j) == Free(j) /\ asked < MaxRequests /\ asked' = asked + 1
At(j, step) == job[j] # Idle /\ job[j].at = step
Go(j, step) == job' = [job EXCEPT ![j].at = step]
Begin(j, kind, h, step) ==
  job' = [job EXCEPT ![j] = [kind |-> kind, host |-> h, at |-> step, staging |-> FALSE, todo |-> {},
                             conf |-> NoFile, kept |-> NoFile, cert |-> 0]]
nginx == <<loaded, signalled, behind, fallback>>
edge == <<file, nginx>>
acme == <<pem, key, tried, spent, txt, orders>>
world == <<aged, expired, restarts, asked>>

\* POST / and PUT /:id store the settings and deploy without waiting for it.
Save(j, h) ==
  /\ Ask(j)
  /\ \E ok \in BOOLEAN :
       row' = [row EXCEPT ![h] =
                 IF row[h] = Gone THEN [is |-> "row", n |-> 1, ok |-> ok, cert |-> 0, error |-> FALSE,
                                           enabled |-> TRUE]
                 ELSE [row[h] EXCEPT !.n = @ + 1, !.ok = ok]]
  /\ Begin(j, "deploy", h, "read")
  /\ raced' = Meets(h)
  /\ UNCHANGED <<edge, acme, aged, expired, restarts>>

\* POST /:id/redeploy.
Redeploy(j, h) ==
  /\ Ask(j) /\ row[h] # Gone
  /\ row' = [row EXCEPT ![h].error = FALSE]
  /\ Begin(j, "deploy", h, "read")
  /\ raced' = Meets(h)
  /\ UNCHANGED <<edge, acme, aged, expired, restarts>>

\* POST /:id/toggle.  Switching on deploys; switching off is a flag in the row and no more,
\* for undeployHost is only called for a host that has a tunnel.
Toggle(j, h) ==
  /\ Ask(j) /\ row[h] # Gone
  /\ row' = [row EXCEPT ![h].enabled = ~@]
  /\ IF row[h].enabled THEN UNCHANGED <<job, raced>>
     ELSE Begin(j, "deploy", h, "read") /\ raced' = Meets(h)
  /\ UNCHANGED <<edge, acme, aged, expired, restarts>>

\* DELETE /:id.
Delete(j, h) ==
  /\ Ask(j) /\ row[h] # Gone
  /\ Begin(j, "remove", h, "unlink")
  /\ raced' = Meets(h)
  /\ UNCHANGED <<row, edge, acme, aged, expired, restarts>>

\* POST /api/acme/issue: the row is read here and used until the end.  The throttle keeps
\* it apart from what is certifying already, and from nothing else.
Issue(j, h, staging) ==
  /\ Ask(j) /\ row[h] # Gone
  /\ job' = [job EXCEPT ![j] = [kind |-> "issue", host |-> h, at |-> "attempt", staging |-> staging,
                                todo |-> {}, conf |-> Rendered(row[h], TRUE),
                                kept |-> NoFile, cert |-> 0]]
  /\ raced' = IF ~staging /\ Acquiring(h) /\ On(h) = Certifying(h) THEN raced ELSE Meets(h)
  /\ UNCHANGED <<row, edge, acme, aged, expired, restarts>>

\* checkAllCerts: the hosts whose certificate is near its end, one after the other.
CheckAllCerts(j) ==
  LET due == {h \in Hosts : row[h] # Gone /\ row[h].cert \in aged}
  IN /\ Free(j) /\ due # {} /\ \A i \in Jobs : job[i] # Idle => job[i].kind # "renew"
     /\ \E h \in due : job' = [job EXCEPT ![j] =
          [kind |-> "renew", host |-> h, at |-> "attempt", staging |-> FALSE, todo |-> due \ {h},
           conf |-> NoFile, kept |-> NoFile, cert |-> 0]]
     /\ UNCHANGED <<row, edge, acme, world, raced>>

\* A job is done, well or badly; a renewal turns to its next host.
Over(j) ==
  IF job[j].kind = "renew" /\ job[j].todo # {}
    THEN \E h \in job[j].todo : job' = [job EXCEPT ![j].host = h, ![j].todo = @ \ {h}, ![j].at = "attempt"]
    ELSE job' = [job EXCEPT ![j] = Idle]

(***************************************************************************)
(* acquireCert                                                             *)
(***************************************************************************)

\* One attempt at a hostname in ten minutes, noted before anything is awaited.  Staging
\* is not throttled.  What is refused here costs nothing at Let's Encrypt.  (A renewal
\* may meet an issue for staging here, and both will write the same two files.)
Attempt(j) ==
  LET h == job[j].host
  IN /\ At(j, "attempt")
     /\ IF ~job[j].staging /\ h \in tried
          THEN Over(j) /\ UNCHANGED <<tried, raced>>
          ELSE /\ Go(j, "order")
               /\ tried' = IF job[j].staging THEN tried ELSE tried \union {h}
               /\ raced' = IF \E i \in On(h) \ {j} : job[i].staging THEN raced \union {h} ELSE raced
     /\ UNCHANGED <<row, edge, pem, key, spent, txt, orders, world>>

\* No zone holds the name, its account is gone, or Let's Encrypt has no account for the
\* key: nothing is ordered.
NoOrder(j) ==
  /\ At(j, "order") /\ Over(j)
  /\ UNCHANGED <<row, edge, acme, world, raced>>

\* Let's Encrypt counts the order, and the TXT record that proves the name is created,
\* or it is not.
Order(j) ==
  LET h == job[j].host
  IN /\ At(j, "order")
     /\ orders < MaxOrders /\ orders' = orders + 1
     /\ spent' = IF job[j].staging THEN spent ELSE [spent EXCEPT ![h] = @ + 1]
     /\ \/ Over(j) /\ UNCHANGED txt
        \/ /\ txt' = txt \union {j}
           /\ job' = [job EXCEPT ![j].at = "proof", ![j].cert = orders + 1]
     /\ UNCHANGED <<row, edge, pem, key, tried, world, raced>>

\* The record is removed, which may fail and only be logged; the name was proved or not.
Proof(j) ==
  /\ At(j, "proof")
  /\ txt' \in {txt, txt \ {j}}
  /\ Go(j, "pem") \/ Over(j)
  /\ UNCHANGED <<row, edge, pem, key, tried, spent, orders, world, raced>>

WriteCert(j) ==
  /\ At(j, "pem")
  /\ pem' = [pem EXCEPT ![job[j].host] = job[j].cert]
  /\ Go(j, "key")
  /\ UNCHANGED <<row, edge, key, tried, spent, txt, orders, world, raced>>

WriteKey(j) ==
  /\ At(j, "key")
  /\ key' = [key EXCEPT ![job[j].host] = job[j].cert]
  /\ Go(j, "meta")
  /\ UNCHANGED <<row, edge, pem, tried, spent, txt, orders, world, raced>>

\* The expiry goes into meta.  An issue renders the host again, from the row it read at
\* the start; a renewal leaves nginx as it is.
StoreMeta(j) ==
  LET h == job[j].host
  IN /\ At(j, "meta")
     /\ row' = IF row[h] = Gone THEN row ELSE [row EXCEPT ![h].cert = job[j].cert]
     /\ IF job[j].kind = "issue" THEN Go(j, "put") ELSE Over(j)
     /\ UNCHANGED <<edge, acme, world, raced>>

(***************************************************************************)
(* deployHost and writeHostConfig                                          *)
(***************************************************************************)
\* deployHost reads the row.  It renders the host without its certificate.
ReadRow(j) ==
  LET h == job[j].host
  IN /\ At(j, "read")
     /\ IF row[h] = Gone THEN job' = [job EXCEPT ![j] = Idle]
        ELSE job' = [job EXCEPT ![j].at = "put", ![j].conf = Rendered(row[h], FALSE)]
     /\ UNCHANGED <<row, edge, acme, world, raced>>

\* The file that is there is kept, and the new one takes its place by a rename.
Put(j) ==
  /\ At(j, "put")
  /\ file' = [file EXCEPT ![job[j].host] = job[j].conf]
  /\ job' = [job EXCEPT ![j].at = "test", ![j].kept = file[job[j].host]]
  /\ UNCHANGED <<row, nginx, acme, world, raced>>

Test(j) ==
  /\ At(j, "test")
  /\ Go(j, IF NginxTest THEN "reload" ELSE "undo")
  /\ UNCHANGED <<row, edge, acme, world, raced>>

\* Mutant: only a file that was there before is put back; a first one stays.
UndoToPrevious(j) ==
  /\ At(j, "undo")
  /\ file' = IF job[j].kept = NoFile THEN file ELSE [file EXCEPT ![job[j].host] = job[j].kept]
  /\ Go(j, "bad")
  /\ UNCHANGED <<row, nginx, acme, world, raced>>

\* The file that was there, or none, takes the place of the refused one.
Undo(j) ==
  /\ At(j, "undo")
  /\ file' = [file EXCEPT ![job[j].host] = job[j].kept]
  /\ Go(j, "bad")
  /\ UNCHANGED <<row, nginx, acme, world, raced>>

Reload(j) ==
  /\ At(j, "reload")
  /\ NginxReload
  /\ Go(j, IF NginxTest THEN "good" ELSE "bad")
  /\ UNCHANGED <<row, file, loaded, behind, fallback, acme, world, raced>>

\* deployLocalNginx notes how it went; an issue answers 200 or 502 and notes nothing.
Note(j, error) ==
  LET h == job[j].host
  IN /\ row' = IF row[h] = Gone \/ job[j].kind = "issue" THEN row ELSE [row EXCEPT ![h].error = error]
     /\ job' = [job EXCEPT ![j] = Idle]
     /\ UNCHANGED <<edge, acme, world, raced>>
Deployed(j) == At(j, "good") /\ Note(j, FALSE)
DeployFailed(j) == At(j, "bad") /\ Note(j, TRUE)

\* removeHostConfig: a reload that fails is only logged, and the row goes all the same.
Unlink(j) ==
  LET h == job[j].host
  IN /\ At(j, "unlink")
     /\ file' = [file EXCEPT ![h] = NoFile]
     /\ job' = [job EXCEPT ![j].at = "delete", ![j].kept = file[h]]
     /\ UNCHANGED <<row, nginx, acme, world, raced>>

RemoveRow(j) ==
  LET h == job[j].host
  IN /\ At(j, "delete")
     /\ IF job[j].kept = NoFile THEN UNCHANGED signalled ELSE NginxReload
     /\ row' = [row EXCEPT ![h] = Gone]
     /\ job' = [job EXCEPT ![j] = Idle]
     /\ UNCHANGED <<file, loaded, behind, fallback, acme, world, raced>>

(***************************************************************************)
(* Time and death                                                          *)
(***************************************************************************)
\* Ten minutes go by.  An attempt is assumed to take less: Let's Encrypt's client gives
\* up long before.
CooldownOver(h) ==
  /\ h \in tried /\ ~Acquiring(h)
  /\ tried' = tried \ {h}
  /\ spent' = [spent EXCEPT ![h] = 0]
  /\ UNCHANGED <<row, edge, pem, key, txt, orders, world, job, raced>>

\* Months go by, with nothing under way and every certificate that was due renewed: what
\* was near its end has ended, and what is left is near its own.
MonthsPass ==
  /\ \A j \in Jobs : Free(j)
  /\ orders > 0 /\ aged # 1..orders
  /\ ~\E h \in Hosts : row[h] # Gone /\ row[h].cert \in aged
  /\ aged' = 1..orders /\ expired' = aged
  /\ tried' = {} /\ spent' = [h \in Hosts |-> 0]
  /\ UNCHANGED <<row, edge, pem, key, txt, orders, asked, restarts, job, raced>>

\* The container dies with all its jobs and starts again: the map of attempts is empty,
\* and nginx reads what is on disk.  With a file that does not stand its start script takes
\* the configuration of recovery, which serves no host, until the next start.
Restart ==
  /\ restarts < MaxRestarts /\ restarts' = restarts + 1
  /\ raced' = raced \union {job[j].host : j \in {i \in Jobs : ~Free(i)}}
  /\ job' = [j \in Jobs |-> Idle]
  /\ tried' = {} /\ spent' = [h \in Hosts |-> 0]
  /\ fallback' = ~AllStand /\ signalled' = FALSE /\ behind' = FALSE
  /\ loaded' = IF AllStand THEN AsOnDisk ELSE NothingServed
  /\ UNCHANGED <<row, file, pem, key, txt, orders, asked, aged, expired>>

Init ==
  /\ row = [h \in Hosts |-> Gone]
  /\ file = [h \in Hosts |-> NoFile]
  /\ loaded = NothingServed /\ signalled = FALSE /\ behind = FALSE /\ fallback = FALSE
  /\ pem = [h \in Hosts |-> 0] /\ key = [h \in Hosts |-> 0]
  /\ tried = {} /\ spent = [h \in Hosts |-> 0] /\ txt = {}
  /\ aged = {} /\ expired = {}
  /\ job = [j \in Jobs |-> Idle]
  /\ orders = 0 /\ asked = 0 /\ restarts = 0 /\ raced = {}

Next ==
  \/ \E j \in Jobs, h \in Hosts :
       \/ Save(j, h) \/ Redeploy(j, h) \/ Toggle(j, h) \/ Delete(j, h)
       \/ \E staging \in BOOLEAN : Issue(j, h, staging)
  \/ \E j \in Jobs :
       \/ CheckAllCerts(j) \/ Attempt(j) \/ NoOrder(j) \/ Order(j) \/ Proof(j) \/ WriteCert(j) \/ WriteKey(j)
       \/ StoreMeta(j) \/ ReadRow(j) \/ Put(j) \/ Test(j) \/ Undo(j) \/ Reload(j)
       \/ Deployed(j) \/ DeployFailed(j) \/ Unlink(j) \/ RemoveRow(j)
  \/ \E h \in Hosts : CooldownOver(h)
  \/ MasterReloads \/ MonthsPass
  \/ Restart

Spec == Init /\ [][Next]_vars

(***************************************************************************)
(* Properties                                                              *)
(***************************************************************************)
AtRest == \A j \in Jobs : Free(j)

\* A bad edit harms no host but its own: with nothing under way, the configuration of
\* every host stands, so that the next deploy of another host is not refused for it.
\* Hosts on which two requests met are left out: each puts back what it found, and one
\* may have found the other's.  So is recovery: nginx -t reads no host's file there.
BadEditHarmless == AtRest /\ ~fallback => \A h \in Hosts \ raced : Stands(h)

\* A host that shows no error is configured as its row says, whatever the deploys of other
\* hosts did at the same time, and one that was deleted has no file left.  It is also served
\* so, switched off or not, once nginx has taken the files up.  That is not what the answer
\* of a deploy says: the master may have come to read them when another host had a bad edit
\* on trial, and stays behind until the next reload; and after a death in the middle of a bad
\* edit nginx comes up in recovery, where every file passes nginx -t and none is served.
EdgeFollowsRow ==
  AtRest => \A h \in Hosts \ raced :
    /\ row[h] = Gone => file[h] = NoFile
    /\ row[h] # Gone /\ ~row[h].error =>
         file[h].n = row[h].n /\ (TakenUp => loaded[h].conf.n = row[h].n)

EdgeAsAsked == TypeOK /\ BadEditHarmless /\ EdgeFollowsRow

\* Let's Encrypt sees at most one order for a hostname in ten minutes, from the button
\* and the renewal together, while the backend lasts: the note of the attempts is in memory
\* and forgotten by a restart ("Minimum gap between two issuance attempts").
OneOrderPerGap == \A h \in Hosts : spent[h] <= 1

=============================================================================
