------------------------------ MODULE MCStores ------------------------------
(***************************************************************************)
(* What the backend keeps, for TLC: the tunnels of a Cloudflare and of a   *)
(* playit account, the zones hosts are attached to, the API keys, the data *)
(* directory across resets and restores, and what the assistant may do.    *)
(* The modules share no state, so one of them, chosen at the start, runs   *)
(* while the others stay at their initial states: every behaviour of each  *)
(* is checked, and the states add up instead of multiplying.               *)
(***************************************************************************)
EXTENDS CfTunnels, TLC

CONSTANTS Hosts, Origins, Ports, Zones, MaxIds,
          MaxSecrets, MaxKeys, Managers,
          MaxLines, MaxCommits, MaxDeaths,
          Drawers, Convs, Urls, Saves, Clicks, HistoryLimit, MaxTurns, MaxRestarts

VARIABLES scene,
          row, pLastRow, pAccount, origin, meta, pMade, remote, agent, seen, job, lost, pAsked,
          there, cached, ids, zoneOf, sync, absent,
          secret, used, kMade, manage, notes, missed, opened,
          db, wal, snaps, key, complete, outcome, archive, cgbk, backend, front, rec, stream,
          keys, lines, deaths, chosen, torn, overwritten,
          mode, url, aKey, save, aThere, aMade, rows, chat, shown, action, click, ran, turns,
          restarts, aTorn, met, surprise

Playit == INSTANCE PlayitTunnels WITH
            Clients <- Callers, Tunnels <- Ports, Asked <- MaxRequests,
            lastRow <- pLastRow, account <- pAccount, made <- pMade, asked <- pAsked
CfZones == INSTANCE ZoneSync WITH Syncs <- Callers
Keys == INSTANCE ApiKeys WITH made <- kMade
Data == INSTANCE DataDir
Cloudy == INSTANCE Assistant WITH key <- aKey, there <- aThere, made <- aMade, torn <- aTorn

\* The bounds are numbers, the ids of rows and tunnels are positive ones, an account lists
\* finitely many zones, and there are ids for the tunnel each account begins with.
ASSUME StoresAssumption ==
  /\ Keys!KeysAssumption
  /\ {MaxRequests, MaxPurges, MaxIds, MaxLines, MaxCommits, MaxDeaths, Convs, MaxTurns, MaxRestarts} \subseteq Nat
  /\ MaxUuid \in Nat \ {0} /\ 1 \in Rows
  /\ Rows \cup Ports \subseteq Nat \ {0}
  /\ CfZones!IsFiniteSet(Zones)

playitVars == <<row, pLastRow, pAccount, origin, meta, pMade, remote, agent, seen, job, lost, pAsked>>
zoneVars == <<there, cached, ids, zoneOf, sync, absent>>
keyVars == <<secret, used, kMade, manage, notes, missed, opened>>
dataVars == <<db, wal, snaps, key, complete, outcome, archive, cgbk, backend, front, rec, stream,
              keys, lines, deaths, chosen, torn, overwritten>>
cloudyVars == <<mode, url, aKey, save, aThere, aMade, rows, chat, shown, action, click, ran, turns,
                restarts, aTorn, met, surprise>>

\* The assistant runs in three scenes: its actions are confirmed, its mode is changed
\* during a chat, its settings are saved together.
Cloudy_scenes == {"confirm", "mode", "settings"}

MCInit ==
  /\ scene \in {"cloudflare", "playit", "zones", "keys", "data"} \cup Cloudy_scenes
  /\ Init /\ Playit!Init /\ CfZones!Init /\ Keys!Init /\ Data!Init /\ Cloudy!Init
  /\ scene # "playit" => origin = [h \in Hosts |-> 1]
  /\ scene # "zones" => there = {}
  /\ scene # "settings" => url = (CHOOSE u \in Urls : TRUE) /\ aKey = url

\* What each of the assistant's scenes leaves out, to keep it small.  The data directory is
\* followed no further than an archive extracted over the files in use, after which nothing
\* is claimed of it; the purges of credential files, which no property here looks at, run
\* as soon as they are asked for.
Staged ==
  /\ scene = "confirm" => UNCHANGED save
  /\ scene = "mode" => /\ UNCHANGED <<url, click>> /\ save'[2] = save[2]
                       /\ Cloudy!Saving(1)' => ~save'[1].typed /\ save'[1].url = url
  /\ scene = "settings" => UNCHANGED turns
  /\ scene # "settings" => UNCHANGED restarts

MCNext ==
  /\ UNCHANGED scene
  /\ \/ scene = "cloudflare" /\ Next /\ (purge # {} => purge' # purge)
        /\ UNCHANGED <<playitVars, zoneVars, keyVars, dataVars, cloudyVars>>
     \/ scene = "playit" /\ Playit!Next
        /\ UNCHANGED <<vars, zoneVars, keyVars, dataVars, cloudyVars>>
     \/ scene = "zones" /\ CfZones!Next
        /\ UNCHANGED <<vars, playitVars, keyVars, dataVars, cloudyVars>>
     \/ scene = "keys" /\ Keys!Next
        /\ UNCHANGED <<vars, playitVars, zoneVars, dataVars, cloudyVars>>
     \/ scene = "data" /\ Data!Next /\ (overwritten => Data!RestoreOver)
        /\ UNCHANGED <<vars, playitVars, zoneVars, keyVars, cloudyVars>>
     \/ scene \in Cloudy_scenes /\ Cloudy!Next /\ Staged
        /\ UNCHANGED <<vars, playitVars, zoneVars, keyVars, dataVars>>

MCSpec ==
  MCInit /\ [][MCNext]_<<vars, playitVars, zoneVars, keyVars, dataVars, cloudyVars, scene>>

\* Requests, managers and presses of Run are the same two model values: in none of the
\* modules has either a part of its own.
Symmetry == Permutations(Callers)

-----------------------------------------------------------------------------
\* No tunnel at playit is forgotten (PlayitTunnels); and the variables of whichever
\* module runs have their types.
NoPortBurnt ==
  /\ scene = "cloudflare" => TypeOK
  /\ scene = "playit" => Playit!TypeOK /\ Playit!NoPortBurnt
  /\ scene = "zones" => CfZones!TypeOK
  /\ scene = "keys" => Keys!TypeOK
  /\ scene = "data" => Data!TypeOK
  /\ scene \in Cloudy_scenes => Cloudy!TypeOK

\* A request that no other meets does what it was asked, and a redeploy reuses the
\* tunnel it has (CfTunnels, PlayitTunnels).
TunnelsAsAsked == EndsAsAsked /\ Playit!PlayitEndsAsAsked /\ Playit!ReusesTunnel

\* A sync takes no host away from a zone that was there all along (ZoneSync).
LiveZoneKept == CfZones!LiveZoneKept

\* The limit on API keys, and the truth of "never used" (ApiKeys).
KeyTableTrue == Keys!KeyTableTrue

\* A restored database is served as it was chosen, and no reset separates the secrets
\* from their key (DataDir).
DataSound == scene = "data" => Data!ServesWhatWasChosen /\ Data!SecretsKept

\* The assistant does what its user allowed (Assistant).
AsAllowed == scene \in Cloudy_scenes => Cloudy!AsAllowed

=============================================================================
