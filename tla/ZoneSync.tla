------------------------------ MODULE ZoneSync ------------------------------
(***************************************************************************)
(* The cached zones of a Cloudflare account and the hosts attached to      *)
(* them: doZoneSync (routes/cloudflare.ts) lists the zones at Cloudflare,  *)
(* and syncZonesForAccount (cf-account.ts) stores the list later, in one   *)
(* transaction.  A host refers to the row of its zone by id, and loses the *)
(* reference when that row is deleted (ON DELETE SET NULL).                *)
(***************************************************************************)
EXTENDS Integers, FiniteSets

CONSTANTS Zones,   \* zone ids at Cloudflare
          Syncs,   \* syncs that may be under way at once
          MaxIds   \* bound on the ids given to rows

VARIABLES there,   \* the zones of the account at Cloudflare
          cached,  \* the id of each zone's row in cf_zones, 0 where there is none
          ids,     \* ids given so far
          zoneOf,  \* cf_zone_id of a host, 0 for NULL
          sync,    \* each sync: what Cloudflare has listed to it
          absent   \* history: zones that were missing at Cloudflare after a sync's list was made

vars == <<there, cached, ids, zoneOf, sync, absent>>

Idle == [on |-> FALSE, list |-> {}]

TypeOK ==
  /\ there \subseteq Zones /\ cached \in [Zones -> 0 .. MaxIds] /\ ids \in 0 .. MaxIds
  /\ zoneOf \in 0 .. MaxIds /\ sync \in [Syncs -> [on : BOOLEAN, list : SUBSET Zones]]
  /\ absent \subseteq Zones

Init ==
  /\ there \in SUBSET Zones
  /\ cached = [z \in Zones |-> 0] /\ ids = 0 /\ zoneOf = 0
  /\ sync = [s \in Syncs |-> Idle] /\ absent = {}

\* The user adds or removes zones in Cloudflare's dashboard.
ZonesChange ==
  /\ there' \in SUBSET Zones \ {there}
  /\ absent' = IF \A s \in Syncs : sync[s] = Idle THEN {} ELSE absent \cup (Zones \ there')
  /\ UNCHANGED <<cached, ids, zoneOf, sync>>

\* POST /accounts/:id/sync, and after the account has been added.
ListZones(s) ==
  /\ sync[s] = Idle
  /\ sync' = [sync EXCEPT ![s] = [on |-> TRUE, list |-> there]]
  /\ absent' = absent \cup (Zones \ there)
  /\ UNCHANGED <<there, cached, ids, zoneOf>>

Quiet(s) == \A t \in Syncs \ {s} : sync[t] = Idle

\* Mutant of SyncZones: all rows of the account are deleted and inserted anew
ReplaceZones(s) ==
  /\ sync[s].on /\ ids + Cardinality(sync[s].list) <= MaxIds
  /\ cached' \in {f \in [Zones -> 0 .. ids + Cardinality(sync[s].list)] :
                    \A z \in Zones : f[z] = 0 <=> z \notin sync[s].list}
  /\ \A z \in sync[s].list : cached'[z] > ids
  /\ ids' = ids + Cardinality(sync[s].list)
  /\ zoneOf' = 0
  /\ sync' = [sync EXCEPT ![s] = Idle]
  /\ absent' = IF Quiet(s) THEN {} ELSE absent
  /\ UNCHANGED there

\* syncZonesForAccount: an upsert that keeps the ids, then the zones that are not on
\* the list are pruned.  New rows take the next ids in the order of the list.
SyncZones(s) ==
  LET list == sync[s].list
      new == {z \in list : cached[z] = 0}
      kept == {cached[z] : z \in list}
  IN /\ sync[s].on
     /\ ids + Cardinality(new) <= MaxIds
     /\ ids' = ids + Cardinality(new)
     /\ \E order \in [new -> ids + 1 .. ids + Cardinality(new)] :
          /\ \A y, z \in new : order[y] = order[z] => y = z
          /\ cached' = [z \in Zones |-> IF z \in new THEN order[z]
                                       ELSE IF z \in list THEN cached[z] ELSE 0]
     /\ zoneOf' = IF zoneOf \in kept THEN zoneOf ELSE 0
     /\ sync' = [sync EXCEPT ![s] = Idle]
     /\ absent' = IF Quiet(s) THEN {} ELSE absent
     /\ UNCHANGED there

\* The listing fails, and with it the sync.
SyncFails(s) ==
  /\ sync[s].on
  /\ sync' = [sync EXCEPT ![s] = Idle]
  /\ absent' = IF Quiet(s) THEN {} ELSE absent
  /\ UNCHANGED <<there, cached, ids, zoneOf>>

\* The host form offers the cached zones.
Attach(z) ==
  /\ cached[z] # 0
  /\ zoneOf' = cached[z]
  /\ UNCHANGED <<there, cached, ids, sync, absent>>

Next ==
  \/ ZonesChange
  \/ \E s \in Syncs : ListZones(s) \/ SyncZones(s) \/ SyncFails(s)
  \/ \E z \in Zones : Attach(z)

Spec == Init /\ [][Next]_vars

\* A sync takes no host away from a zone that has been at Cloudflare all along: only
\* one that was missing there when a sync under way listed the zones, or since ("the
\* root cause of the recurring orphaned hosts", cf-account.ts).
LiveZoneKept ==
  [][\A z \in Zones : zoneOf # 0 /\ zoneOf' = 0 /\ cached[z] = zoneOf => z \in absent]_vars

=============================================================================
