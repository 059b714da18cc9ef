---------------------------- MODULE ApplyUpdate ----------------------------
(***************************************************************************)
(* The in-container updater: docker/apply-update.sh replaces the three     *)
(* directories of /app and migrates the database while the container may   *)
(* die at any step, docker/bootstrap.sh repairs /app on the next start,    *)
(* and s6 starts the backend from what it finds.                           *)
(*                                                                         *)
(* A directory is abstracted to the release it holds, whether its copy is  *)
(* complete, and whether another copy was moved INSIDE it: `mv a a.old`    *)
(* with a.old present makes a.old/a.  Release v ships migrations 1..v, so  *)
(* the schema of the database is the newest migration applied to it.       *)
(*                                                                         *)
(* Every shell command that completes is one step.  A command that is not  *)
(* atomic (rm -rf, cp -a, cp of the database, the migration run) differs   *)
(* from an atomic one only when the container dies inside it: Crash picks  *)
(* what the interrupted command left behind.                               *)
(***************************************************************************)
EXTENDS Naturals

CONSTANTS
    MaxVersion,   \* releases are 1..MaxVersion
    Good,         \* releases whose backend, once started, answers /api/health
    Bundled,      \* directories the release tarball carries
    Faults,       \* commands that may fail: see FaultKinds
    CrashPoints,  \* script steps at which the container may die
    MaxCrashes,   \* bound: container deaths in a behaviour
    MaxWrites,    \* bound: user writes the database holds
    Images        \* releases a container may be recreated from

Version == 1..MaxVersion

\* for sub in backend frontend recovery-ui
Sub == 1..3
Backend == 1

FaultKinds == {"snapshot", "stop", "aside", "copy", "migrate", "start", "restore"}

ForwardSteps == {"snapshot", "extract", "stop", "wait", "aside", "land", "version",
                 "migrate", "start", "health"}
RollbackSteps == {"rbStop", "rbTree", "rbVersion", "rbDb", "rbWal", "rbUp", "rbMark"}
SuccessSteps == {"cleanup", "finish"}
Steps == ForwardSteps \cup RollbackSteps \cup SuccessSteps \cup {"idle"}

ASSUME ConstantsAssumption ==
    /\ MaxVersion \in Nat \ {0}
    /\ Good \subseteq Version
    /\ Bundled \subseteq Sub /\ Backend \in Bundled
    /\ Faults \subseteq FaultKinds
    /\ CrashPoints \subseteq Steps
    /\ MaxCrashes \in Nat /\ MaxWrites \in Nat
    /\ Images \subseteq Version

VARIABLES
    app,        \* /app/<sub>
    old,        \* /app/<sub>.old
    incoming,   \* the subs with a /app/<sub>.incoming
    version,    \* /app/.version
    db,         \* /data/db/db.sqlite
    snapApp,    \* APP_SNAPSHOT_DIR of the last update
    snapVersion, \* the .version in it
    snapDb,     \* DB_SNAPSHOT of the last update
    pc,         \* the next step of apply-update.sh, "idle" when it is not running
    i,          \* its loop variable, and that of heal_interrupted_update
    target,     \* TARGET_VERSION
    lock,       \* /data/updates/.update.lock exists and is not stale
    marker,     \* outcome of the last update; "running" while none is written
    boot,       \* the container: "off", "heal", "node" or "done"
    outcome,    \* /data/.bootstrap-outcome
    wanted,     \* s6-svc -u / -d of the backend service
    backend,    \* the backend process: "down", "up", "asked" (SIGTERM on its way) or "stopping"
    running,    \* the release the backend process has loaded
    stale,      \* the backend process holds the database open from before it was replaced
    crashes,    \* container deaths so far
    killedAt,   \* history: the step at which the last update was killed, else "idle"
    missed,     \* history: a stop failed, or what it was told to was still there when it mattered,
                \* and the process has not exited since in a way that puts this right
    acked       \* history: writes acknowledged to users, those the database held when the last
                \* update began included

disk == <<app, old, incoming, version, db, snapApp, snapVersion, snapDb, lock, marker, outcome>>
script == <<pc, i, target>>
process == <<wanted, backend, running, stale>>
history == <<crashes, killedAt, missed, acked>>
vars == <<disk, script, process, boot, history>>

-----------------------------------------------------------------------------
(* Directories and the database *)

Tree == [ver : 0..MaxVersion, whole : BOOLEAN, inner : BOOLEAN]
NoTree == [ver |-> 0, whole |-> FALSE, inner |-> FALSE]
Fresh(v) == [ver |-> v, whole |-> TRUE, inner |-> FALSE]

\* [[ -d path ]]: a half-copied or half-deleted directory exists too
Exists(t) == t.ver # 0

\* What is left of a directory whose copy or removal was interrupted
Partial(t) == [t EXCEPT !.whole = FALSE]

Database == [schema : 0..MaxVersion, writes : 0..MaxWrites, torn : BOOLEAN, locked : BOOLEAN]

(* knex.migrate.latest of release v: it refuses a database that records a  *)
(* migration the release does not ship, or whose migration lock is taken.  *)
Migratable(d, v) == ~d.locked /\ d.schema <= v
Migrated(d, v) == [d EXCEPT !.schema = v]

(* The backend can come up: its modules load and its own bootstrap         *)
(* migrates.  With an incomplete tree or a torn database that depends on   *)
(* what is missing; with both intact it is certain.                        *)
Startable == Exists(app[Backend]) /\ Migratable(db, app[Backend].ver)
Intact == app[Backend].whole /\ ~db.torn
Runnable == Startable /\ Intact

Init ==
    /\ app = [s \in Sub |-> Fresh(1)]
    /\ old = [s \in Sub |-> NoTree]
    /\ incoming = {}
    /\ version = 1
    /\ db = [schema |-> 1, writes |-> 0, torn |-> FALSE, locked |-> FALSE]
    /\ snapApp = [s \in Sub |-> NoTree]
    /\ snapVersion = 1
    /\ snapDb = db
    /\ pc = "idle" /\ i = 1 /\ target = 1
    /\ lock = FALSE
    /\ marker = "none"
    /\ boot = "done" /\ outcome = "ok"
    /\ wanted = TRUE /\ backend = "up" /\ running = 1 /\ stale = FALSE
    /\ crashes = 0 /\ killedAt = "idle" /\ missed = FALSE /\ acked = 0

-----------------------------------------------------------------------------
(* apply-update.sh, forward *)

\* Until it has handled the SIGTERM the process accepts requests
Serving == backend \in {"up", "asked"}

\* updater.ts spawns the script: only a backend that serves requests does
Dispatch(v) ==
    /\ boot = "done" /\ Serving /\ running \in Good
    /\ pc = "idle" /\ ~lock
    /\ pc' = "snapshot" /\ i' = 1 /\ target' = v
    /\ lock' = TRUE
    /\ marker' = "running"
    /\ killedAt' = "idle" /\ acked' = db.writes
    /\ UNCHANGED <<app, old, incoming, version, db, snapApp, snapVersion, snapDb, outcome,
                   process, boot, crashes, missed>>

\* bail: marker, lock, exit; nothing of /app has been touched
Bail ==
    /\ pc \in {"snapshot", "extract"}
    /\ pc' = "idle" /\ i' = 1
    /\ marker' = "failed" /\ lock' = FALSE
    /\ UNCHANGED <<app, old, incoming, version, db, snapApp, snapVersion, snapDb, outcome, target,
                   process, boot, history>>

\* cp -a of the three directories (only the backend's failure is fatal), then
\* sqlite3 .backup of the database, both while the backend is still serving
Snapshot ==
    /\ pc = "snapshot"
    /\ \E omitted \in SUBSET (Sub \ {Backend}) :
          /\ omitted # {} => "snapshot" \in Faults
          /\ snapApp' = [s \in Sub |-> IF s \in omitted THEN NoTree ELSE app[s]]
    /\ snapVersion' = version
    /\ snapDb' = db
    /\ pc' = "extract"
    /\ UNCHANGED <<app, old, incoming, version, db, lock, marker, outcome, i, target,
                   process, boot, history>>

Extract ==
    /\ pc = "extract"
    /\ pc' = "stop"
    /\ UNCHANGED <<disk, i, target, process, boot, history>>

\* s6-svc -d sends SIGTERM, or fails, which is at most logged
Terminate ==
    \/ /\ wanted' = FALSE
       /\ backend' = IF backend = "up" THEN "asked" ELSE backend
       /\ UNCHANGED missed
    \/ /\ "stop" \in Faults
       /\ missed' = TRUE
       /\ UNCHANGED <<wanted, backend>>

StopBackend ==
    /\ pc = "stop"
    /\ Terminate
    /\ pc' = "wait"
    /\ UNCHANGED <<disk, i, target, running, stale, boot, crashes, killedAt, acked>>

\* The script goes on once the port is closed, and after 10 s in any case
PortClosed ==
    /\ pc = "wait"
    /\ ~Serving
    /\ pc' = "aside" /\ i' = 1
    /\ UNCHANGED <<disk, target, process, boot, history>>

PortStaysOpen ==
    /\ pc = "wait" /\ "stop" \in Faults
    /\ Serving
    /\ missed' = TRUE
    /\ pc' = "aside" /\ i' = 1
    /\ UNCHANGED <<disk, target, process, boot, crashes, killedAt, acked>>

\* bail_with_rollback
RollBackFrom(step) ==
    /\ pc = step
    /\ pc' = "rbStop" /\ i' = 1
    /\ UNCHANGED <<disk, target, process, boot, history>>

\* The loop's next round, or the step after the loop
Advance(step) ==
    IF i < 3 THEN pc' = pc /\ i' = i + 1 ELSE pc' = step /\ i' = 1

\* Mutant of MoveAside: the old directory is removed instead of moved aside
MoveAsideDeletes ==
    /\ pc = "aside"
    /\ app' = [app EXCEPT ![i] = NoTree]
    /\ Advance("land")
    /\ UNCHANGED <<old, incoming, version, db, snapApp, snapVersion, snapDb, lock, marker,
                   outcome, target, process, boot, history>>

\* mv /app/<sub> /app/<sub>.old
MoveAside ==
    /\ pc = "aside"
    /\ IF ~Exists(app[i])
       THEN UNCHANGED <<app, old>>
       ELSE /\ ~(Exists(old[i]) /\ old[i].inner)
            /\ old' = [old EXCEPT ![i] =
                          IF Exists(@) THEN [@ EXCEPT !.inner = TRUE] ELSE app[i]]
            /\ app' = [app EXCEPT ![i] = NoTree]
    /\ Advance("land")
    /\ UNCHANGED <<incoming, version, db, snapApp, snapVersion, snapDb, lock, marker, outcome, target,
                   process, boot, history>>

\* mv cannot replace a non-empty <sub>.old/<sub>, and any mv may fail
MoveAsideFails ==
    /\ \/ "aside" \in Faults
       \/ Exists(app[i]) /\ Exists(old[i]) /\ old[i].inner
    /\ RollBackFrom("aside")

\* rm -rf <sub>.incoming; cp -a from staging; mv into place
Land ==
    /\ pc = "land"
    /\ app' = IF i \in Bundled THEN [app EXCEPT ![i] = Fresh(target)] ELSE app
    /\ incoming' = IF i \in Bundled THEN incoming \ {i} ELSE incoming
    /\ Advance("version")
    /\ UNCHANGED <<old, version, db, snapApp, snapVersion, snapDb, lock, marker, outcome, target,
                   process, boot, history>>

LandFails ==
    /\ "copy" \in Faults
    /\ pc = "land" /\ i \in Bundled
    /\ incoming' = incoming \cup {i}
    /\ pc' = "rbStop" /\ i' = 1
    /\ UNCHANGED <<app, old, version, db, snapApp, snapVersion, snapDb, lock, marker, outcome, target,
                   process, boot, history>>

\* cp of .version; carrying node_modules forward changes no release
CopyVersion ==
    /\ pc = "version"
    /\ version' = target
    /\ pc' = "migrate"
    /\ UNCHANGED <<app, old, incoming, db, snapApp, snapVersion, snapDb, lock, marker, outcome, i, target,
                   process, boot, history>>

\* Mutant of Migrate: the snapshot is migrated and then put in place
MigrateCopy ==
    /\ pc = "migrate"
    /\ Migratable(db, target)
    /\ db' = Migrated(snapDb, target)
    /\ pc' = "start"
    /\ UNCHANGED <<app, old, incoming, version, snapApp, snapVersion, snapDb, lock, marker,
                   outcome, i, target, process, boot, history>>

\* A failed integrity_check is logged: migrating a torn database may succeed
Migrate ==
    /\ pc = "migrate"
    /\ Migratable(db, target)
    /\ db' = Migrated(db, target)
    /\ pc' = "start"
    /\ UNCHANGED <<app, old, incoming, version, snapApp, snapVersion, snapDb, lock, marker, outcome,
                   i, target, process, boot, history>>

\* The migrations before the failing one stay applied
MigrateFails ==
    /\ pc = "migrate"
    /\ "migrate" \in Faults \/ db.torn \/ ~Migratable(db, target)
    /\ \E v \in db.schema..target \cup {db.schema} : db' = Migrated(db, v)
    /\ pc' = "rbStop" /\ i' = 1
    /\ UNCHANGED <<app, old, incoming, version, snapApp, snapVersion, snapDb, lock, marker, outcome,
                   target, process, boot, history>>

\* s6-svc -u, whose failure is at most logged
StartAgain == wanted' = TRUE \/ ("start" \in Faults /\ UNCHANGED wanted)

StartBackend ==
    /\ pc = "start"
    /\ StartAgain
    /\ pc' = "health"
    /\ UNCHANGED <<disk, i, target, backend, running, stale, boot, history>>

\* Mutant of Healthy: the loop's verdict is not looked at
HealthyUnchecked ==
    /\ pc = "health"
    /\ pc' = "cleanup" /\ i' = 1
    /\ UNCHANGED <<disk, target, process, boot, history>>

\* Whichever process has the port may answer
Healthy ==
    /\ pc = "health"
    /\ Serving /\ running \in Good
    /\ pc' = "cleanup" /\ i' = 1
    /\ UNCHANGED <<disk, target, process, boot, history>>

\* Mutant of HealthTimeout: `while true` instead of `seq 1 30`
HealthWaitsForever == FALSE

\* 60 s without a 200: the release may be broken or merely slow
HealthTimeout == RollBackFrom("health")

\* rm -rf /app/<sub>.old
Cleanup ==
    /\ pc = "cleanup"
    /\ old' = [old EXCEPT ![i] = NoTree]
    /\ Advance("finish")
    /\ UNCHANGED <<app, incoming, version, db, snapApp, snapVersion, snapDb, lock, marker, outcome, target,
                   process, boot, history>>

Finish ==
    /\ pc = "finish"
    /\ marker' = "succeeded" /\ lock' = FALSE
    /\ pc' = "idle"
    /\ UNCHANGED <<app, old, incoming, version, db, snapApp, snapVersion, snapDb, outcome, i, target,
                   process, boot, history>>

-----------------------------------------------------------------------------
(* apply-update.sh, rollback() *)

\* Mutant of RbStop: rollback() without its s6-svc -d
RbStopSkipped ==
    /\ pc = "rbStop"
    /\ pc' = "rbTree" /\ i' = 1
    /\ UNCHANGED <<disk, target, process, boot, history>>

\* rollback() does not wait for the port
RbStop ==
    /\ pc = "rbStop"
    /\ Terminate
    /\ pc' = "rbTree" /\ i' = 1
    /\ UNCHANGED <<disk, target, running, stale, boot, crashes, killedAt, acked>>

\* Mutant of RbTree: mv of <sub>.old without the rm -rf before it
RbTreeNests ==
    /\ pc = "rbTree"
    /\ app' = [app EXCEPT ![i] =
                  IF Exists(@) THEN [@ EXCEPT !.inner = Exists(old[i])]
                  ELSE IF Exists(old[i]) THEN old[i] ELSE snapApp[i]]
    /\ old' = [old EXCEPT ![i] = NoTree]
    /\ Advance("rbVersion")
    /\ UNCHANGED <<incoming, version, db, snapApp, snapVersion, snapDb, lock, marker, outcome,
                   target, process, boot, history>>

\* rm -rf /app/<sub>, then <sub>.old back in its place, else a copy of the snapshot
RbTree ==
    /\ pc = "rbTree"
    /\ app' = [app EXCEPT ![i] = IF Exists(old[i]) THEN old[i] ELSE snapApp[i]]
    /\ old' = [old EXCEPT ![i] = NoTree]
    /\ Advance("rbVersion")
    /\ UNCHANGED <<incoming, version, db, snapApp, snapVersion, snapDb, lock, marker, outcome, target,
                   process, boot, history>>

\* the mv or the cp fails: it is logged and the loop goes on
RbTreeFails ==
    /\ pc = "rbTree" /\ "restore" \in Faults
    /\ app' = [app EXCEPT ![i] = IF Exists(old[i]) THEN NoTree ELSE Partial(snapApp[i])]
    /\ Advance("rbVersion")
    /\ UNCHANGED <<old, incoming, version, db, snapApp, snapVersion, snapDb, lock, marker, outcome, target,
                   process, boot, history>>

\* cp of the snapshot's .version
RbVersion ==
    /\ pc = "rbVersion"
    /\ version' = snapVersion
    /\ pc' = "rbDb"
    /\ UNCHANGED <<app, old, incoming, db, snapApp, snapVersion, snapDb, lock, marker, outcome, i, target,
                   process, boot, history>>

\* cp -f over the database: a backend process still alive keeps the old one open
RbDb ==
    /\ pc = "rbDb"
    /\ \/ /\ db' = snapDb /\ stale' = (backend # "down")
          /\ missed' = (missed \/ backend \in {"asked", "stopping"})
       \/ /\ "restore" \in Faults
          /\ \E torn \in BOOLEAN : db' = [db EXCEPT !.torn = @ \/ torn]
          /\ UNCHANGED <<stale, missed>>
    /\ pc' = "rbWal"
    /\ UNCHANGED <<app, old, incoming, version, snapApp, snapVersion, snapDb, lock, marker, outcome,
                   i, target, wanted, backend, running, boot, crashes, killedAt, acked>>

\* rm -f db.sqlite-wal db.sqlite-shm
RbWal ==
    /\ pc = "rbWal"
    /\ pc' = "rbUp"
    /\ UNCHANGED <<disk, i, target, process, boot, history>>

\* Mutant of RbUp: rollback() without its s6-svc -u
RbUpSkipped ==
    /\ pc = "rbUp"
    /\ pc' = "rbMark"
    /\ UNCHANGED <<disk, i, target, process, boot, history>>

RbUp ==
    /\ pc = "rbUp"
    /\ StartAgain
    /\ pc' = "rbMark"
    /\ UNCHANGED <<disk, i, target, backend, running, stale, boot, history>>

RbMark ==
    /\ pc = "rbMark"
    /\ marker' = "rolled_back" /\ lock' = FALSE
    /\ pc' = "idle"
    /\ UNCHANGED <<app, old, incoming, version, db, snapApp, snapVersion, snapDb, outcome, i, target,
                   process, boot, history>>

-----------------------------------------------------------------------------
(* The backend process under s6 *)

\* docker/s6/backend/run, then runBootstrap of index.ts: migrations, then listen
BackendStart ==
    /\ boot = "done" /\ outcome = "ok"
    /\ wanted /\ backend = "down"
    /\ Startable
    /\ db' = Migrated(db, app[Backend].ver)
    /\ backend' = "up" /\ running' = app[Backend].ver
    /\ UNCHANGED <<app, old, incoming, version, snapApp, snapVersion, snapDb, lock, marker, outcome,
                   script, wanted, stale, boot, history>>

\* index.ts, shutdown(): the listener closes, open requests go on for up to 10 s
ShutDown ==
    /\ backend = "asked"
    /\ backend' = "stopping"
    /\ UNCHANGED <<disk, script, wanted, running, stale, boot, history>>

\* The last connection checkpoints its WAL into db.sqlite as it closes: over a
\* database restored in the meantime that mixes pages of both
BackendExit ==
    /\ backend = "stopping"
    /\ backend' = "down"
    /\ stale' = FALSE
    /\ \E torn \in {db.torn} \cup {stale} : db' = [db EXCEPT !.torn = db.torn \/ torn]
    /\ missed' = (missed /\ pc # "idle" /\ (wanted \/ pc \notin RollbackSteps))
    /\ UNCHANGED <<app, old, incoming, version, snapApp, snapVersion, snapDb, lock, marker, outcome,
                   script, wanted, running, boot, crashes, killedAt, acked>>

\* Over a database restored beneath it, what the process acknowledges goes to the WAL
\* that rollback() removed: it is lost, and a checkpoint mixes pages of both
UserWrite ==
    /\ backend # "down" /\ running \in Good
    /\ acked < MaxWrites /\ acked' = acked + 1
    /\ \/ /\ ~stale /\ db.writes < MaxWrites
          /\ db' = [db EXCEPT !.writes = @ + 1]
       \/ stale /\ \E torn \in BOOLEAN : db' = [db EXCEPT !.torn = @ \/ torn]
    /\ UNCHANGED <<app, old, incoming, version, snapApp, snapVersion, snapDb, lock, marker, outcome,
                   script, process, boot, crashes, killedAt, missed>>

\* acquireLock treats a lock older than 30 minutes as absent
LockExpires ==
    /\ lock /\ pc = "idle"
    /\ lock' = FALSE
    /\ UNCHANGED <<app, old, incoming, version, db, snapApp, snapVersion, snapDb, marker, outcome,
                   script, process, boot, history>>

-----------------------------------------------------------------------------
(* Container death and the next start *)

(* What a death inside the command at pc may leave: the command not begun, *)
(* or one of its intermediate states.                                      *)

CrashApp ==
    {app} \cup
    IF pc # "rbTree" THEN {}
    ELSE {[app EXCEPT ![i] = t] : t \in {Partial(app[i]), NoTree} \cup
             IF Exists(old[i]) THEN {} ELSE {Partial(snapApp[i])}}

CrashOld ==
    {old} \cup IF pc = "cleanup" THEN {[old EXCEPT ![i] = Partial(@)]} ELSE {}

CrashIncoming ==
    {incoming} \cup IF pc = "land" /\ i \in Bundled THEN {incoming \cup {i}} ELSE {}

\* the migration lock is taken while migrations run; a restored database next
\* to the old WAL is replayed into a mixture of both
CrashDb ==
    {db} \cup
    IF pc \in {"rbDb", "rbWal"} THEN {[db EXCEPT !.torn = TRUE]}
    ELSE IF pc = "migrate" /\ Migratable(db, target) /\ db.schema < target
    THEN {[Migrated(db, v) EXCEPT !.locked = TRUE] : v \in db.schema..target}
    ELSE IF boot = "node" /\ Startable /\ db.schema < app[Backend].ver
    THEN {[Migrated(db, v) EXCEPT !.locked = TRUE] : v \in db.schema..app[Backend].ver}
    ELSE {}

Crash ==
    /\ boot # "off" /\ crashes < MaxCrashes
    /\ pc \in CrashPoints
    /\ app' \in CrashApp
    /\ old' \in CrashOld
    /\ incoming' \in CrashIncoming
    /\ db' \in CrashDb
    /\ crashes' = crashes + 1
    /\ killedAt' = IF pc = "idle" THEN killedAt ELSE pc
    /\ pc' = "idle" /\ i' = 1
    /\ boot' = "off"
    /\ wanted' = FALSE /\ backend' = "down" /\ stale' = FALSE /\ missed' = FALSE
    /\ UNCHANGED <<version, snapApp, snapVersion, snapDb, target, lock, marker, outcome, running, acked>>

Restart ==
    /\ boot = "off"
    /\ boot' = "heal" /\ i' = 1
    /\ UNCHANGED <<disk, pc, target, process, history>>

\* docker compose pull && up -d: /app comes from the image, /data stays
Recreate(v) ==
    /\ boot = "off"
    /\ app' = [s \in Sub |-> Fresh(v)]
    /\ old' = [s \in Sub |-> NoTree]
    /\ incoming' = {}
    /\ version' = v
    /\ boot' = "heal" /\ i' = 1
    /\ UNCHANGED <<db, snapApp, snapVersion, snapDb, lock, marker, outcome, pc, target, process, history>>

\* Mutant of Heal: what lies aside is not put back
HealLeavesAside ==
    /\ boot = "heal"
    /\ incoming' = incoming \ {i}
    /\ IF i < 3 THEN i' = i + 1 /\ UNCHANGED boot ELSE i' = 1 /\ boot' = "node"
    /\ UNCHANGED <<app, old, version, db, snapApp, snapVersion, snapDb, lock, marker, outcome, pc,
                   target, process, history>>

\* heal_interrupted_update, one round of its loop
Heal ==
    /\ boot = "heal"
    /\ incoming' = incoming \ {i}
    /\ IF ~Exists(app[i]) /\ Exists(old[i])
       THEN /\ app' = [app EXCEPT ![i] = old[i]]
            /\ old' = [old EXCEPT ![i] = NoTree]
       ELSE UNCHANGED <<app, old>>
    /\ IF i < 3 THEN i' = i + 1 /\ UNCHANGED boot ELSE i' = 1 /\ boot' = "node"
    /\ UNCHANGED <<version, db, snapApp, snapVersion, snapDb, lock, marker, outcome, pc, target,
                   process, history>>

\* run_node_bootstrap succeeds. What an incomplete tree or a torn database
\* still lets bootstrap.js do is open.
NodeBootstrapOk ==
    /\ boot = "node"
    /\ Startable
    /\ db' = Migrated(db, app[Backend].ver)
    /\ outcome' = "ok" /\ boot' = "done" /\ wanted' = TRUE
    /\ UNCHANGED <<app, old, incoming, version, snapApp, snapVersion, snapDb, lock, marker, script,
                   backend, running, stale, history>>

\* bootstrap.js is missing, or it fails: nginx serves the recovery UI
NodeBootstrapFails ==
    /\ boot = "node"
    /\ ~Runnable
    /\ outcome' = "fail" /\ boot' = "done" /\ wanted' = TRUE
    /\ UNCHANGED <<app, old, incoming, version, db, snapApp, snapVersion, snapDb, lock, marker, script,
                   backend, running, stale, history>>

-----------------------------------------------------------------------------
Forward ==
    \/ Bail \/ Snapshot \/ Extract \/ StopBackend \/ PortClosed \/ PortStaysOpen
    \/ MoveAside \/ MoveAsideFails \/ Land \/ LandFails \/ CopyVersion
    \/ Migrate \/ MigrateFails \/ StartBackend \/ Healthy \/ HealthTimeout
    \/ Cleanup \/ Finish

Rollback ==
    RbStop \/ RbTree \/ RbTreeFails \/ RbVersion \/ RbDb \/ RbWal \/ RbUp \/ RbMark

Boot == Restart \/ Heal \/ NodeBootstrapOk \/ NodeBootstrapFails

Next ==
    \/ \E v \in Version : Dispatch(v)
    \/ Forward
    \/ Rollback
    \/ BackendStart \/ ShutDown \/ BackendExit \/ UserWrite
    \/ LockExpires
    \/ Crash
    \/ Boot
    \/ \E v \in Images : Recreate(v)

(* The shell script runs to its end, s6 restarts what it supervises, and   *)
(* docker restarts a dead container (restart: unless-stopped).  Nothing    *)
(* makes an operator update, write or recreate.                            *)
Fairness ==
    /\ WF_vars(Forward) /\ WF_vars(Rollback)
    /\ WF_vars(BackendStart /\ Intact) /\ WF_vars(ShutDown) /\ WF_vars(BackendExit)
    /\ WF_vars(Boot) /\ WF_vars(LockExpires)

Spec == Init /\ [][Next]_vars
FairSpec == Spec /\ Fairness

-----------------------------------------------------------------------------
(* Properties *)

TypeOK ==
    /\ app \in [Sub -> Tree] /\ old \in [Sub -> Tree]
    /\ incoming \subseteq Sub
    /\ version \in Version
    /\ db \in Database
    /\ snapApp \in [Sub -> Tree] /\ snapVersion \in Version /\ snapDb \in Database
    /\ pc \in Steps /\ i \in Sub /\ target \in Version
    /\ lock \in BOOLEAN
    /\ marker \in {"none", "running", "failed", "rolled_back", "succeeded"}
    /\ boot \in {"off", "heal", "node", "done"} /\ outcome \in {"ok", "fail"}
    /\ wanted \in BOOLEAN /\ backend \in {"down", "up", "asked", "stopping"}
    /\ running \in Version /\ stale \in BOOLEAN
    /\ crashes \in Nat /\ killedAt \in Steps /\ missed \in BOOLEAN /\ acked \in 0..MaxWrites

(* A release is declared installed only when every directory it ships is   *)
(* in place on a database of its schema, no copy of an earlier release is  *)
(* left aside, and, unless a stop missed the backend, it is this release   *)
(* that answers and the database holds every write a user was told of      *)
(* since the update began, before the stop or after (apply-update.sh,      *)
(* "Success - clean up").                                                  *)
Completed(outcomeOfUpdate) == marker' = outcomeOfUpdate /\ marker # outcomeOfUpdate

SuccessIsComplete ==
    [][Completed("succeeded") =>
          /\ \A s \in Bundled : app[s] = Fresh(target)
          /\ \A s \in Sub : ~Exists(old[s])
          /\ db.schema = target
          /\ missed \/ (backend = "up" /\ running = target /\ db.writes = acked)]_vars

(* As long as the container has not died, a rollback leaves exactly the    *)
(* code, version file and schema that the update found (rollback()).       *)
RollbackExact ==
    [][Completed("rolled_back") /\ crashes = 0 =>
          /\ app = snapApp /\ version = snapVersion
          /\ \A s \in Sub : ~Exists(old[s])
          /\ db.schema = snapDb.schema]_vars

(* Until the first container death, every directory has at every step of   *)
(* the update a complete copy where the next start finds it: in place, or  *)
(* aside with nothing in its place (the move-aside pattern).               *)
Findable(s) == app[s].whole \/ (~Exists(app[s]) /\ old[s].whole)

AlwaysFindable ==
    crashes = 0 /\ pc \in ForwardSteps \cup SuccessSteps => \A s \in Sub : Findable(s)

(* Whatever step of the forward path the first death interrupts, once      *)
(* heal_interrupted_update is through every directory is a complete copy   *)
(* of the previous or of the new release, or all are the image's of a      *)
(* recreated container, and no write is lost.                              *)
HealedAfterDeath ==
    /\ boot = "node" /\ crashes = 1 /\ marker = "running"
    /\ killedAt \in (ForwardSteps \cup SuccessSteps) \ {"snapshot"}
    => /\ \/ \A s \in Sub : app[s] \in {snapApp[s], Fresh(target)}
          \/ \E v \in Images : app = [s \in Sub |-> Fresh(v)]
       /\ incoming = {}
       /\ db.writes >= snapDb.writes

(* So what is installed can be found at every step, whole, and every       *)
(* variable has its type.                                                  *)
TreeKept == TypeOK /\ AlwaysFindable /\ HealedAfterDeath

(* Unless the first death interrupts the migrations, or a rollback between *)
(* its first directory and its database, the next start finds a backend    *)
(* that can come up on the database there is, if a process that outlived   *)
(* the restore did not tear it: no moment of the swap needs a hand         *)
(* (bootstrap.sh, apply-update.sh).  Not so if the update, or the image of *)
(* a recreated container, is older than the data.                          *)
NextStartWorks ==
    /\ boot = "node" /\ crashes = 1
    /\ killedAt \notin {"migrate", "rbTree", "rbVersion", "rbDb", "rbWal"}
    /\ killedAt # "idle" => snapDb.schema <= target
    => Runnable \/ db.torn \/ \E v \in Images : app[Backend] = Fresh(v) /\ v < db.schema

(* The backend that serves and the database in place are of one release,   *)
(* and nothing serves while the tree and the schema move forward, unless   *)
(* a stop missed the backend; from its exit on that holds again.           *)
ServesOwnSchema ==
    ~missed => /\ Serving => db.schema = running
               /\ pc \in {"aside", "land", "version", "migrate"} => ~Serving

(* Every dispatched update comes to an end, and so does its lock.          *)
UpdateEnds == pc # "idle" ~> pc = "idle"
LockFreed == lock ~> ~lock

(* In a container that never dies, an update of any release whatever ends  *)
(* with a backend that is up, unless the database was torn.                *)
BackendReturns == []<>(backend = "up" \/ db.torn \/ crashes > 0)
UpdateReleases == LockFreed /\ BackendReturns

(* What the documents say and the code does not do *)

(* apply-update.sh: "On failure: rollback to snapshots".                   *)
RollbackRestoresSnapshot ==
    [][Completed("rolled_back") => \A s \in Sub : app[s].ver = snapApp[s].ver]_vars
=============================================================================
