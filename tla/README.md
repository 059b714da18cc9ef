# CloudGate in TLA+

CloudGate is a self-hosted web interface for Cloudflare Tunnels and playit. One
container runs nginx, a Node backend (Express, knex over SQLite), a recovery UI
and, as children of the backend, one `cloudflared` or `playit` agent per tunnel.
The modules here model the parts of it whose correctness depends on the order in
which things happen: requests that interleave at every `await`, timers, child
processes, shell steps, and a container that may die between any two of them.
TLC checks them on small instances; `*Proofs` modules hold theorems that TLAPS
checks for every value of the constants.

Every source path below is relative to the repository root.

## 1. Inventory

| Component | State it keeps | Operations | Hard because |
|---|---|---|---|
| Update script, boot repair (`docker/apply-update.sh`, `docker/bootstrap.sh`, `docker/s6/`) | `/app/{backend,frontend,recovery-ui}` with `.old` and `.incoming`, `/app/.version`, snapshots, the database, the marker, the lock | snapshot, move aside, land, migrate, health loop, rollback, `heal_interrupted_update`, `run_node_bootstrap` | container death at any step, failing commands, a backend still alive while its database is replaced |
| Updater service (`services/updater.ts`) | the status object, channel and mode, `.update.lock`, the staging archive | `triggerCheck`, `triggerInstall`, settings, `acquireLock`, `releaseLock` | two installs in one process, timer against request, settings that change while GitHub is asked, hand-over to a script that outlives the process |
| Updates page and modal (`UpdatesPage.tsx`, `UpdateProgressModal.tsx`) | phase, starting and target version, a health poll | open, subscribe, poll, time out | the server it watches goes away and comes back as another version, or the same one |
| Bootstrap and first run (`bootstrap.ts`, `services/setup.ts`, `routes/setup.ts`) | secrets, the database, the first account | `runBootstrap`, `needsSetup`, `createInitialAdmin` | simultaneous submissions, failing transactions, death between count and insert |
| Backup, restore, key check (`services/restore.ts`, `routes/backup.ts`, `services/crypto.ts`) and recovery UI (`packages/recovery-ui/`) | the data directory: database, log, key, markers, archives | export, restore, first-run restore, restore a snapshot, soft and hard reset | key and database moved apart, a death between unlink and copy, a log beside a foreign database |
| Process supervisor (`services/managed-process.ts`, `tunnel-providers/cloudflared/process.ts`) | child reference, status, timers, the intentional-stop flag | `start`, `stop`, exit handler, respawn, `pollHealth`, `killOrphans`, HTTP/2 fallback | timers and exit events against calls that are not re-entrant |
| cloudflared provider, tunnels, zones (`tunnel-providers/cloudflared/`, `tunnel-manager.ts`, `tunnel-teardown.ts`, `routes/tunnels.ts`, `routes/cloudflare.ts`, `cf-account.ts`) | the process cache, tunnel rows, credential files, zone rows | create, start, restart, force-sync, recreate, delete, sync zones | look-up, await, store; state at Cloudflare, on disk and in the cache |
| Downloaded binaries (`playit-binary.ts`, `cloudflared/binary.ts`) | two executables on the volume | ensure, download, verify, resolve | cut-off downloads, pins that change with updates and rollbacks |
| Host deployment and DNS (`services/host-deploy.ts`, `routes/hosts.ts`, `cloudflared/config-writer.ts`) | host rows, DNS records, the rendered `config.yml` | deploy, undeploy, toggle, edit, delete | remote effects between reads and writes of a row; partial failure |
| Local nginx and certificates (`services/nginx-config.ts`, `acme.ts`) | site files, certificates, `meta` | write, test, reload, undo; issue, renew | files of all hosts are tested together; an order takes minutes |
| playit provider (`tunnel-providers/playit/`, `playit-account.ts`, `routes/playit.ts`, `PlayitPage.tsx`) | `provider_meta`, a shared agent, pending claims | create, assign, delete, claim, unlink | read-modify-write of one JSON column across awaits; a code that a restart forgets |
| Authentication (`services/auth.ts`, `routes/auth.ts`, `routes/totp.ts`, `api/client.ts`) | the account, token cut-off, TOTP step, the stored token | login, password change, TOTP, logout | revocation with a resolution of a second, replay of one code, late answers |
| API keys (`services/api-keys.ts`, `middleware/api-key.ts`) | key rows | create, rotate, revoke, authenticate | a count and an insert in two awaits |
| Host gateway (`services/host-auth.ts`, `host-gateway.ts`, `routes/host-auth.ts`) | visitor credentials, cookies | save, remove, roll back, sign in | credentials and routing must change together |
| Placement and import (`host-placement.ts`, `hosts-bulk.ts`, `ai-tools.ts`) | host rows | create by form, file or assistant | three doors to one rule; rows that fail half way |
| Hosts page (`HostsPage.tsx`, `EditHostModal.tsx`, `api/hosts.ts`) | cached list, form, switch | edit, toggle | optimistic update against a poll; a form filled long ago |
| Diagnostics (`dns-verify.ts`, `upstream-probe.ts`) | what a row says of its host | verify, probe | runs on after its request was answered |
| Events (`services/events.ts`, `routes/events.ts`, `api/events.ts`) | subscribers, tickets | subscribe, publish, reconnect | an effect cleaned up during an await |
| AI assistant (`routes/ai.ts`, `ai-tools.ts`, `llm-settings.ts`, `AiChat.tsx`) | settings, conversations, pending actions | chat, confirm, save settings | many awaits in one request, settings saved row by row |
| Navigation (`App.tsx`, `ProtectedRoute.tsx`, sign-in pages) | two cached answers, the route | redirects, forms | redirects read the cache, never the server |
| Installer (`install/lxc-install.sh`) | packages, key, images, volume, container | every command | re-runs on what a failed run left |
| Image drift, network origin, audit log, rate limits, database layer, shared schemas, settings pages, packaging | logs, text | | nothing that another step decides on |

How they interact. A route handler awaits services; services await knex, `fetch`
and child-process events, and Node runs another callback at each await. The
updater spawns the script detached; from then on they share only files: the
lock, the staging archive, the marker. The script stops and starts the backend
through s6 and moves the code and the database beneath it. The container's own
start runs `bootstrap.sh` before s6 starts the backend, and its outcome file
decides whether nginx serves the backend or the recovery UI. The provider's
process cache is the only way from a tunnel row to its supervisor object, and
the supervisor's child field the only way to the process. The panel talks to
the backend in requests whose answers may be late or lost, and decides on what
it has cached of them.

What makes each part correct, and what is hard to reach in a test, is listed
hazard by hazard, each at its line, in `PROJECT.json`.

## 2. The modules

| Module | Models | Kind |
|---|---|---|
| `ApplyUpdate`, `ApplyUpdateProofs` | update script, boot repair, the backend under s6 | system, proofs |
| `Updater` | `services/updater.ts`: the slot, the lock, the status | system |
| `ReleaseCheck` | which release a check picks, and installs by itself | component |
| `UpdateModal` | the page and the modal beside an update | component |
| `Binaries` | the two programs on the volume | component |
| `Installer` | `lxc-install.sh`, run after run | component |
| `MCUpdates`, `UpdatesProofs` | `Updater` and the four after it | instance, proofs |
| `OneOwner` | what first-run setup promises | abstract |
| `FirstRun`, `FirstRunProofs` | bootstrap, setup, admission of the first-run restore | system, refines `OneOwner`, proofs |
| `Sessions` | the account, its tokens, two clients | component |
| `Navigation` | redirects and cached answers | component |
| `EventStream` | tickets, streams, reconnects | component |
| `PlayitClaim` | linking a playit account | component |
| `Assistant` | settings, chats, actions | component |
| `MCBrowser`, `BrowserProofs` | the five above | instance, proofs |
| `CloudflaredProcess`, `CloudflaredProofs` | one supervisor object per tunnel process | component, proofs |
| `CloudflaredProvider` | process cache and lifecycle requests of a tunnel | system, composes `CloudflaredProcess` |
| `HostDeploy`, `MCHostDeploy`, `HostDeployProofs` | hosts published through cloudflared: rows, CNAMEs, `config.yml`, the daemons that read it | system, instance, proofs |
| `LocalEdge` | hosts behind nginx, their certificates | component |
| `Diagnostics` | what is said of a host | component |
| `HostGateway` | visitor credentials and sign-ins | component |
| `HostImport` | form, file and assistant | component |
| `HostEdit` | the hosts page in two tabs | component |
| `MCHosts`, `HostsProofs` | the five above | instance, proofs |
| `CfTunnels` | tunnels at Cloudflare, their files and daemons | component |
| `PlayitTunnels` | tunnels at playit, `provider_meta`, the agent | component |
| `ZoneSync` | the zone cache | component |
| `ApiKeys` | keys of one user | component |
| `DataDir` | `/data` across starts, resets and restores | component |
| `MCStores`, `StoresProofs` | the five above, with `Assistant` | instance, proofs |

Everywhere an action is the code that runs between two suspension points: two
awaits in Node, two commands in the shell, one event of the operating system,
one answer in the browser.
An operator whose comment begins "Mutant of" or "mutant:" is no part of the
model: it is the definition after it with one plausible mistake, kept to show
that a property notices the mistake.

**Scenes.** `MCUpdates`, `MCBrowser`, `MCHosts` and `MCStores` check several
components that share no variable in one run. A variable `scene`, chosen at the
start and never changed, says which of them takes steps; the others rest at
their initial state. Every behaviour of every component is a behaviour of the
instance with the rest stuttering, so each of its properties says there what it
says alone, and the state spaces add up instead of multiplying. An invariant of
one component is guarded by its scene where another's initial state is outside
it. Fairness is `WF_v(scene = s /\ A)`: weak fairness of `A` in the scene in
which `A` happens. What the properties of such a run say is the conjunction
named there, each part with its own comment in its module. Components that do
share state are composed: `CloudflaredProvider` with `CloudflaredProcess`,
`HostDeploy` with the config writer and the daemons, `Updater` with the script.

### ApplyUpdate

A directory of `/app` is a record: the release it holds, whether its copy is
complete, and whether another copy was moved inside it (`mv a a.old` with
`a.old` present makes `a.old/a`). The database is its schema, a number of user
writes, and whether its file is torn or its migration lock taken. `pc` is the
next command of the script and `i` the variable of its loops; the script's
phases are actions of the same name. Each has its failing twin where the script
tests the command (`MoveAsideFails`, `LandFails`, `MigrateFails`,
`RbTreeFails`), and the twin takes the route the script takes: `bail`,
`bail_with_rollback`, or a log line. `Crash` kills the container and chooses
what the interrupted command leaves: `rm -rf`, `cp -a`, `cp` and the migrations
leave intermediate states, `mv` within `/app` does not. `Restart`, `Heal` and
the two outcomes of the node bootstrap are `docker/bootstrap.sh`; `Recreate` is
`docker compose pull && up -d`, which replaces `/app` and keeps `/data`.

The backend is up, "asked" (its SIGTERM is on the way: it serves as before),
"stopping" (the listener is closed, requests under way go on) or down. `s6-svc
-d` may fail, which is at most logged; the forward path waits ten seconds for
the port and then goes on (`PortStaysOpen`), `rollback()` does not wait. So an
old backend may serve a migrated schema, and answer the health check in place of
the new one. `missed` is the history of such a stop, until the exit of the
process puts it right; `ServesOwnSchema` and `SuccessIsComplete` except it by
name. If the rollback replaces the database beneath a process that is still
there (`stale`), the process goes on acknowledging writes to a log that
`rollback()` removes, and its last checkpoint may tear the file. `acked` counts
the writes users were told of, those included; `SuccessIsComplete` compares it
with the database. A failed `integrity_check` does not keep the script from
migrating.

Abstracted: file ownership, `node_modules` being carried over, log lines. The
release of `/app/.version` is kept, since the rollback restores it.

### Updater

`pc[r]` is the await at which call `r` of `triggerInstall` is suspended.
`acquireLock` is four steps (`mkdir`, read, truncate, write), which is the point
of the module. The archive lies at one path per release: it is whole when the
writer that truncated it last is through. The script is reduced to what it does
to this state: it extracts, bails or stops the backend, and removes the lock.
When it bails nobody tells the backend, whose status stays busy until the next
check; with the channel 'disabled' (`polling` is false) `triggerCheck` returns
before it touches the status (`updater.ts:255-258`), so that it stays busy until
checks are on again or the backend restarts. `BusyEnds` excepts that. Settings,
release selection and version comparison are `ReleaseCheck`.

### FirstRun and OneOwner

`boot` is the step of `runBootstrap`; `queue` is the chain of promises that is
the mutex of `services/setup.ts`, `trx` the transaction that holds the only
connection of the pool. `OneOwner` promises that one party claims the install
for good and that only it is handed a session. The refinement maps `owner` to
the party of the only row of `users`; a claim is `Commit` or `InsertSeed`, an
admission is `Issue`. `FirstRunRestore` is only the admission test of that
endpoint, which reads the files that bootstrap has made.

### CloudflaredProcess and CloudflaredProvider

`sup[p]` are the fields of a supervisor object, `kids[k]` a process of the
operating system with the listeners and timers attached to it. `Start`,
`StopFields`, `StopKid` and `AfterExit` are the methods as functions of these
fields, so that an action can run several of them in one event: the fallback's
`stop().then(start)` runs inside the exit event. `slot` is the cache entry of
the tunnel; a request that starts looks the cache up (`StartCached`,
`StartMissing`), awaits the options, and stores a new object (`Construct`); one
that stops deletes the entry when the exit it waited for has come, whatever the
entry holds by then.

Delays are "sooner or later": backoff, grace period, poll interval, startup
limit and the orphan sweep's walk over `/proc`. Supervisors not yet constructed
and processes not yet spawned are interchangeable, so one of them is chosen
instead of each in turn. `raced` records that two lifecycle calls, or a call and
a fallback, overlapped; `managed-process.ts:16-17` asks callers to serialise
them, and nothing in the routes does.

Three behaviours of this code are in the model and outside what the
properties promise, each for the reason given:

* `pollHealth` (`managed-process.ts:298`) awaits its probe and then writes the
  status, so a tunnel stopped meanwhile can be reported running or failed until
  its next start. `LiveNotStopped` (in `SupervisorsAgree`) is the
  direction that does hold.
* The HTTP/2 fallback (`cloudflared/process.ts:141`) is not awaited. If the
  provider stops the same tunnel, the fallback's `start` can follow the removal
  of the cache entry. `raced` covers it.
* A spawn that fails emits `error` and no `exit`: the child field stays set,
  nothing is respawned, and a later `stop()` does not resolve. `StopReturns`
  and `Respawns` speak of children that were spawned.

### HostDeploy

A request is its handler with everything it leaves running, since a handler
answers before its deploy is through. `row` is `proxy_hosts` reduced to what
decides something (a later host of the same name has another number), `record`
the CNAME of a name in a zone, `queue` and `built` the promise chain of
`serialized` and the context the running call has read, `config` the one
`config.yml`, `loaded` what each daemon has read of it. `job` and `seen` are the
rows the handler and `deployHost` read before an await and use after it; they
are dropped once nothing later looks at them. A call to Cloudflare takes effect
in one step or fails, before or after its effect. SIGHUP is sent only to a
daemon whose status is "running"; a `reload` that is dropped is a choice of
`WriteConfig`, remembered in `missed` until the daemon reads the file again.

The behaviours of this code that the properties except, by name:

* Requests about one host are not serialised. If two overlap (`raced`), the row
  can end with the id of a record that is gone, with an error of one cleared by
  the other, or with a record nobody knows.
* A dropped reload (`missed`) is only logged.
* All tunnels share `config.yml`, rendered with the hosts of one
  (`config-writer.ts:188`). A daemon that reads it after another tunnel's deploy
  serves the other's hosts (`loaded[t].of # t`).
* A failed write of `config.yml` during an undeploy is only logged, so a disabled
  host may stay served.
* `DELETE` renders the configuration while the row is still there and enabled,
  so a deleted host stays in `config.yml` until the next reload. No property
  speaks of deleted hosts there; `NoOrphan` speaks of their records.

Hosts behind nginx are `LocalEdge`, those at playit `PlayitTunnels`; diagnostics,
force-sync and bulk import, which call the same functions, are `Diagnostics`,
`CfTunnels` and `HostImport`. Left out: the death of the process between two
steps, and SRV records.

### ReleaseCheck, UpdateModal

`ReleaseCheck` is `triggerCheck` in detail: up to two checks at once ask GitHub,
read channel and mode after the answer, and offer or install what they find,
while settings are saved (table first, status second), releases appear and the
backend restarts. A release is its number, its tag suffix and GitHub's flag.
`UpdateModal` is the other end: `poll` is the effect of the health poll with the
flag its cleanup sets, `server` the install it waits for.

Accepted by the model because the code does it: a release candidate is never
followed by the release of the same number (equal numbers are not newer);
after a change of the channel the old offer stays until the next check; a
backport published last is what a channel offers; the modal subscribes with a
query parameter the stream does not take, so its log and its "streaming" phase
are never seen; a rollback after which the modal has already polled the old
version counts as an outcome without the reason (`UpdateProgressModal.tsx:92`).

### Binaries, Installer

`Binaries`: the bytes of a file are the release whose pin they match. The agent
must match its hash before it is put where it is executed. What lies there when
a boot begins (`found`) may be anything, and where the boot cannot install the
pinned bytes, because the download fails or is disabled, `bootstrap.ts:200-207`
goes on and that file is started: `AgentWasVerified` says that nothing else
unverified is. `cloudflared` is known by the version it reports (`said`), if it
does: `readVersion` gives null for a query that fails or takes ten seconds, and
such a file counts as absent. "Never downgrade" (`cloudflared/binary.ts:6-7`)
holds of those that answered. Not pinned by any property: which pin an agent has
that is in place already (`playit-binary.ts:112-113`), and
`cloudflared/binary.ts:114`, which logs "keeping current binary" when the rename
has just replaced it. The override by `CLOUDGATE_PLAYIT_BINARY_PATH` and a
machine without any `cloudflared` are left out.

`Installer`: `pc` is the next command. A command that fails, or a run that is
cut off, leaves what the shell leaves (an empty key file, a pulled image, a
container never started). A run may tag an image it did not pull when the pull
fails (`lxc-install.sh:314-318`); `got` is what it obtained.

### Sessions, Navigation, EventStream

A password is its number, a token the second it was issued in. `req[c]` is the
request of a client and the await it is at; `spent` counts how often a TOTP step
was accepted. `TokensFollowPassword` excepts tokens issued in the very second of
a change, or by a request the change overtook (`raced`); both follow from the
comparison in `auth.ts:184`.

`Navigation` models a query as its data, the request under way and whether the
last failed, and each redirect as a step that reads the cached data. `overtaken`
marks the case `GetsIn` excepts: an answer older than the sign-in arrives last
and is kept. The dashboard counts a failed list as empty and does not look at
`onboarding_completed_at` (`OnboardingPage.tsx:12-14` says it would).

`EventStream`: a run of the effect is "ticket", "opening", "open", "retry" or
"gone"; what events say is left out. After a sign-in without a reload the stream
is not started, since the effect has no reason to run: `StreamComesBack` speaks
of effects that run.

### PlayitClaim, PlayitTunnels

`PlayitClaim` is the page's loop (`loop`), its requests in the backend
(`handler`) and what playit makes of a code (`remote`). An answer lost after the
exchange leaves an account that the page reports as an unknown code: the wait
ends, which is what is promised. `PlayitTunnels` takes `provider_meta` apart in
read and write steps; `lost` records the tunnels at playit that no row and no
request knows any more, and how the code can lose one: a create that took effect
although its answer was lost (`client.ts` gives up after 15 seconds), a delete
that failed, a row deleted under its hosts, a death between create and save, an
overwritten `provider_meta`. `NoPortBurnt` says that no tunnel is lost in any
other of the model's steps. A start or stop of the agent whose failure is only
logged (`routes/tunnels.ts:282-286`) leaves its request `silent`:
`PlayitEndsAsAsked` speaks of requests that were not.

### CfTunnels, ZoneSync

A request is a script of steps (`Script`), so the actions are the steps and two
requests interleave freely. Stopping and starting a daemon are one step each
here, since `CloudflaredProvider` has their interleavings. A start whose
credentials cannot be read or written, or whose config cannot be rendered, ends
without a daemon and without an error (`ParkTunnel`: "relink needed"); what stop,
start and the delete at Cloudflare throw is logged by force-sync, recreate,
delete and the account's deletion, which go on and answer ok. `silent` marks a
request to which that happened, `alone` one no other met on its tunnel;
`EndsAsAsked` is stated for requests that report no error, are alone and not
silent, since the answer alone says less. The purge of credential files goes on
after the start that began it, up to `MaxPurges` at a time, and may remove a file
that another tunnel's start has just written: in the model, and denied by no
property. In `ZoneSync` the listing, several pages, is one answer
(`cloudflare-client.ts:102-117`), and `absent` is the history that tells a zone
deleted at Cloudflare from one whose list came too early.

### ApiKeys, HostGateway, Assistant

`ApiKeys`: the limit may be exceeded by one key per concurrent request less one
(`KeysBounded`), because counting and inserting are two awaits. The note of a
key's last use is an update of its own (`notes`) that may fail or die with the
backend; `missed` are the secrets whose note was lost so, and `UnusedKeysUnused`
excepts them.
`HostGateway`: an owner's request saves, redeploys and, if that fails, puts the
old row back; `undone` and `adrift` name what a rollback and a failed rollback
may do (a TOTP step usable again, routing that does not match). A redeploy writes
`config.yml` (`conf`) and asks the daemon to read it (`edge`); of a child whose
status is not "running" `reload()` only logs that it did not
(`managed-process.ts:156-160`), and the deploy has succeeded. `missed` records
that: a PUT has then answered that a host is protected which is still open, until
the child reads the file again.
`Assistant`: a chat turn is its awaits, with a model that answers, calls a
reading or a writing tool, or fails. Confirming an action works when autonomy
has been switched off since; a turn may pair a key and a URL of two saves
(`torn`); the history sent is the first thirty messages, not the last
(`ai.ts:258-262`); all three are in the model and no property denies them.
In `MCStores` it runs in three scenes that each leave out what the others vary,
in `MCBrowser` in a fourth that asks whether messages are answered.

### LocalEdge, Diagnostics

`LocalEdge`: `file` is a host's file, `loaded` what nginx serves, and a deploy is
write, test, undo or reload. `nginx -s reload` parses the files and signals the
master (`signalled`); the master reads them when it gets to it and, if another
host's bad edit is on trial then, keeps what it served (`behind`), although the
deploy has reported success. `EdgeFollowsRow` therefore speaks of files at once,
and of what is served once the master has taken them up (`TakenUp`). A switch
that is turned off leaves such a host served: `Toggle` undeploys nothing where
`tunnel_id` is null. When nginx starts, `docker/s6/nginx/run` tests the
files, and if one of them fails it starts with `recovery.conf`, which includes no
host (`fallback`). A deploy in that state tests and reloads `recovery.conf`: its
host is away and its file untested until the next start, so the properties of
what is served speak of an edge that is not in recovery. `raced` excepts hosts on
which two jobs met or a death caught one: overlapping writes may put back each
other's bad file, and a renewal met by a trial order of the same host may end on
the trial's certificate. A deploy renders without the certificate path, so HTTPS
is gone until the next issue; a renewed certificate is served from the next
reload on; both are in the model. `OneOrderPerGap` holds while the backend lasts.

`Diagnostics`: a probe is its five requests against an origin that may be
replaced between them, each of which may be reset or take too long (`lost`);
`Judged` is stated for probes whose origin stayed the same. "rejected" is true of
visitors in any case. "ok" is true of them with three exceptions, named in the
property: a request was lost; the origin has two faces (`OneFace`), since
`rawRequest` names the public host while `fetch()`, which has the last word, names
the address and sends no Host of its own; or it answers 500 and above to proxied
requests alone, which the probe does not look for (`probeForwardedHeaders`
compares 4xx answers). `fetch()` does not carry `no_tls_verify` either, and a
service that answers 400 both ways counts as answering. cloudflared's options
`http_host_header` and `origin_server_name` are left out. Of deploys that overlap
the row shows what one of them found (`found`), whichever wrote last.

### HostImport, HostEdit

`HostImport`: form, file and assistant as three callers of the same placement
rules. Zone membership is `endsWith` without a dot, and a row is inserted before
its deploy, so a death in between leaves it undeployed. The assistant's
`create_host` omits the protocol when it asks for placement
(`ai-tools.ts:371-386`), which is why `FormAndFileCarried` speaks of two doors
of three. `HostEdit`: `tunnel` stands for tunnel and zone; all other fields are
sent by every form and the last save wins; the server's toggle is relative, so a
click on a stale list does the opposite, after which the list is read again.

### DataDir

A database is its line, its number of commits in the file and the key its canary
is sealed with; a log holds commits of a line. SQLite is modelled from its use:
it replays a log it finds beside a database and drops one beside an empty file.
`torn` and `overwritten` name the exceptions of the two properties: a restore
that a death or a failing copy left half done, or whose old log could not be
removed (`recovery-ui/src/index.ts:183` answers ok all the same); and a backup
extracted over a running install. A key that does not match makes the backend
exit in `verifyKeyOrSeed`, after a bootstrap that succeeded, and s6 restarts it
into the same refusal until somebody restores the pair.

## 3. The runs

| Run | Asks | Instance |
|---|---|---|
| `apply` | Is the tree never lost, can the next start come up, does a success mean complete and a rollback mean exact, does every update end with a backend? | 2 releases, 3 directories, failing move, copy and migration, one death at any step, a container recreated from an image, 1 user write |
| `apply_hostile` | Where the script does not test its commands (failing snapshot copies, stops, starts and restores): does who serves fit the database, does a success mean complete, does every update end? | 2 releases, one of which never answers; a bundle of two directories |
| `apply_stale` | `apply-update.sh:13`: does a rollback restore the snapshot? (violated) | one death after the swap, then a second update |
| `updates` | Is the slot held by whoever has it, is what is installed what was chosen and verified, does the modal end, can the installer be re-run? | 2 concurrent installs, 3 in all, one death; 5 releases, 2 checks, 2 saves; 3 versions for the modal and the binaries, any bytes on the volume, unanswered version queries, 3 restarts; 3 runs of the installer, 3 failing commands |
| `firstrun` | Is there one owner, one account, and an answer for everyone? | 3 submitters and the seeded account, failing transactions, one death |
| `firstrun_restore` | `routes/restore.ts:11-15`: does a fresh container take a restore? (violated) | 1 submitter |
| `browser` | Do tokens follow the password, does a TOTP step count once, does one get in, does the stream come back, does every wait end? | 2 clients, 3 seconds, 3 passwords; 2 forms or reloads; 2 runs of the effect, 2 deaths; 1 code, 2 requests, 1 loss, 1 restart; 1 drawer, 2 conversations, 2 messages |
| `cloudflared` | Is no child lost, does stop return, does a crash lead to a respawn, do serialised calls leave one supervisor? | 2 requests, 2 objects, 3 processes, fallback allowed |
| `cloudflared_spam` | `routes/tunnels.ts:404`: is force-sync "safe to spam"? (violated) | 2 restarts |
| `hostdeploy` | Do row, record and served configuration agree once requests that overlapped are through, is no record orphaned, does every request end? | 2 hosts (one deployed), 2 tunnels, 2 zones, 2 targets, 2 requests; calls to Cloudflare, writes and reloads that fail |
| `hosts` | Does nginx serve what was asked, is the diagnosis true, does the gateway follow the credentials, is an import placed and counted, does an edit keep what it did not touch? | 2 hosts, 2 jobs, 3 requests, 2 orders, 1 restart; 2 DNS attempts, 1 change, 12 origins, lost requests; 2 owners, dropped reloads, 2 visitors, 2 saves; files of 2 rows; 2 tabs, 2 tunnels, 2 forms sent, 1 click |
| `stores` | Does a tunnel request do what it was asked, is no port lost, is no live zone dropped, are the limit on keys and the restored data kept, does the assistant do what it may? | 2 rows, 3 tunnels created, 2 callers; 2 zones, 4 ids; 2 keys, 3 secrets; 2 lines of data, 3 deaths, failing copies; 2 saves, 2 confirmations |

The bundles:

| Property | Is |
|---|---|
| `TreeKept` | types; each directory of `/app` is there or findable; healed after a death |
| `UpdateReleases` | the lock becomes free and, in a container that does not die, a backend returns |
| `SlotHeld` | types; one holder unless two raced; the lock file matches its holder |
| `InstallsAsChosen` | what is extracted was verified; what a check installs is newer, in the channel, in the mode; no older `cloudflared` replaces one that answered |
| `UpdatesEnd` | an install ends, and so does a busy status unless checks are off |
| `AccessProved` | types; tokens follow the password; a TOTP step is accepted once |
| `WaitsEnd` | a dead session, a pending claim and an unanswered message each come to an end |
| `SupervisorsAgree` | types; a live child is not reported stopped; one supervisor unless two calls overlapped |
| `StopsAndRespawns` | `stop()` returns and a crash is followed by a respawn |
| `RecordsTrue` | the row's record id is a record, and every record has its row |
| `EdgeSound`, `DiagnosisTrue`, `ImportSound`, `GatewayHolds`, `EditSound` | the properties of `LocalEdge`, `Diagnostics`, `HostImport`, `HostGateway`, `HostEdit` |
| `TunnelsAsAsked` | `EndsAsAsked` of `CfTunnels`; `PlayitEndsAsAsked` and `ReusesTunnel` |
| `DataSound` | `ServesWhatWasChosen` and `SecretsKept` of `DataDir` |
| `AsAllowed` | proposed writes run once, none runs unasked, a key stays with its URL |

Why the bounds are enough. The script's code never compares two releases, so one
release to come from and one to go to show every mixture that a single update
can make; a second update starts from what the first left, and the runs allow as
many updates as the two releases permit. Crashes are bounded by one to three
because the property of interest is about what the first death leaves, and a
second one hits the repair. A lock, a cache entry, a row or a mutex is contested
by two; the third submitter of `firstrun` is there because a submission that
waits behind one that waits differs from one that waits behind the holder. One
process more than objects lets a child be spawned while another one's exit is
pending. Identifiers given to new things (tunnels, zones, secrets, orders) exceed
the requests that can hold an old one, so that a stale identifier never happens
to be the fresh one. In `hostdeploy` a form gives a new target, or moves a host
to the other tunnel and zone, or back. Three seconds are a second before, of and
after a password change. The releases of `updates` are a candidate of the number
of the release after it, a nightly build, and a backport published last. Every
bound is a CONSTANT named in the module whose guard it limits (`MaxCrashes`,
`MaxDeaths`, `MaxAsked`, `MaxSaves`, ...). `CHECK_DEADLOCK FALSE` in every
configuration: the systems may rest when nobody asks them for anything, or when
a bound is spent. Symmetry is used in `hosts` and `stores`, for requests and
people that no definition tells apart; the properties checked there are
invariants and action properties.

Requests in `cloudflared` are starts and restarts. A restart whose start is
refused (credentials missing) does to the model what a stop does, so a separate
stop operation would add states and no behaviour.

### Fairness

* `ApplyUpdate`: the shell script runs to its end, s6 restarts what it
  supervises, docker restarts a dead container (`restart: unless-stopped`), and
  a lock grows older than thirty minutes. Nothing makes anyone update, write or
  recreate, nothing makes a stop succeed, and a process that was asked to stop
  handles the signal and exits (`shutdown` forces it after ten seconds). A backend
  on an incomplete tree or a torn database need not start.
* `Updater`: every await settles (`fetch` has header and body time limits, gpg
  exits), the script runs to its end, s6 restarts the backend, the poll timer
  fires every six hours. Deaths and requests are not fair.
* `UpdateModal`: the update goes on, the page's and the modal's polls fire, an
  answer or a failure comes to each request.
* `FirstRun`: every awaited promise settles. Strong fairness of a handler: the
  pool of one connection serves its waiters first come, first served, so a
  connection that is free again and again reaches each of them.
* `CloudflaredProvider`: a request proceeds once its event has come, exit
  events are handled, the SIGKILL timer and the respawn timer fire, a killed
  process ends. Not fair: a crash, a SIGTERM being obeyed, a fallback, an
  arriving request, and the health poll.
* `HostDeploy`: every await settles (the Cloudflare client has a time limit, the
  database and the disk answer), and a daemon handles its SIGHUP. Nobody has to
  ask for anything, and no daemon has to restart.
* `Sessions`, `Navigation`, `EventStream`, `PlayitClaim`, `Assistant`: each
  request is answered or fails (the browser gives up on its own), effects of a
  render run, intervals and timers fire, fifteen minutes go by. Users do not
  have to press anything, deaths do not have to happen. Weak fairness is per
  strand: the steps of one query, one effect or one handler together.

### What the violations say

`apply_stale`: a container death after the swap leaves the `.old` directories,
since the cleanup never ran; the next update's `mv` nests the live tree inside
them, and its rollback then restores the release before last.
`firstrun_restore`: bootstrap makes the files whose absence the endpoint
requires. `cloudflared_spam`: two restarts both find the cache empty and both
construct a supervisor; the one the cache forgets keeps a child or a queued
respawn. `SupervisorsAgree` is what does hold.

More disagreements with the documentation are in the models, named there
as the exceptions of a property, and have no run of their own:

* `docs/ARCHITECTURE.md:92-93` has the next start restore the previous version
  after a death in the swap. `heal_interrupted_update` restores what is missing
  only, so a death between two of the three moves leaves directories of two
  releases. `TreeKept` says what does hold: each is a complete copy of one.
* `updater.ts:441` refuses a second install. Two installs pass `existsSync`
  (`updater.ts:320`) before either writes: `raced` in `SlotHeld`.
* `routes/hosts.ts:404` redeploys "so the tunnel config picks up the change". A
  daemon that has read `config.yml` stays "starting" until its first healthy
  poll, and `reload()` ignores it until then (`managed-process.ts:157`):
  `missed` in `ServedAsRow`.
* `routes/host-auth.ts:146-148` puts credentials back rather than show a host as
  protected that is open. After a dropped reload it shows exactly that: `missed`
  in `ShownAsRouted`.
* `routes/hosts.ts:9` has the toggle "flip enabled flag + redeploy/undeploy". A
  host behind nginx, which has no tunnel, is not undeployed: `Toggle`.
* `playit-binary.ts:107-108` says of a file with the wrong hash "Either way we do
  not run it". When its replacement cannot be downloaded it is run: `found` in
  `AgentWasVerified`. `cloudflared/binary.ts:6-7` never downgrades; a binary that
  did not answer in time is replaced whatever its version: `said`.
* `upstream-probe.ts:68-71` sends the hostname so that "vhost-matching origins
  behave the same way they will in production". Only two of the five requests do,
  and the verdict "ok" comes of one that does not: `OneFace`.
* `recovery-ui/src/index.ts:181` removes the log of the replaced database, and
  answers ok also when it could not: `torn`.

## 4. The proofs

| Theorem | States | Module |
|---|---|---|
| `TypeCorrect` | `Spec => []TypeOK` | `ApplyUpdateProofs` |
| `SchemaAgrees` | `ServesOwnSchema`: unless a stop missed, a serving backend and its database are of one release | |
| `SuccessComplete` | `SuccessIsComplete`: an update is recorded as succeeded only when it is complete, answering and with every acknowledged write unless a stop missed | |
| `RollbackIsExact` | `RollbackExact`: a rollback leaves what the update found | |
| `TreeIsKept` | `TreeKept`: every directory is findable, and healed after a death | |
| `AtMostOneAccount` | `OneAccount`: never two accounts | `FirstRunProofs` |
| `ImplementsOneOwner` | `FirstRun` implements `OneOwner` | |
| `DoneIsTrue` | `DoneIsDone`: who is told that the setup is done finds an account | |
| `NoChildLost` | `NoLeak`: a supervisor knows every child it spawned that has not been reaped | `CloudflaredProofs` |
| `CacheAgrees` | `SupervisorsAgree` | |
| `OneInstallAtATime` | `SlotHeld` | `UpdatesProofs` |
| `InstallsWhatWasChosen` | `InstallsAsChosen` | |
| `AgentAlwaysVerified` | `AgentWasVerified`: the agent is started from pinned bytes, or from what a boot found and could not replace | |
| `RerunAlwaysRecovers` | `RerunRecovers`: a run of the installer without a failure ends in service | |
| `AccessIsProved` | `AccessProved`: types; tokens follow the password; a TOTP step is accepted once | `BrowserProofs` |
| `LiveSessionIsKept` | `LiveSessionKept`: a browser gives up an accepted token only at sign-out or on an overtaken answer | |
| `HostsServedAsRows` | `ServedAsRow` | `HostDeployProofs` |
| `RecordsStayTrue` | `RecordsTrue` | |
| `EdgeIsSound`, `GatewayAlwaysHolds`, `DiagnosisIsTrue`, `ImportIsSound`, `EditIsSound` | `EdgeSound`, `GatewayHolds`, `DiagnosisTrue`, `ImportSound`, `EditSound` | `HostsProofs` |
| `KeyTableStaysTrue`, `AssistantObeys`, `DataStaysSound`, `LiveZonesAreKept`, `NoPortIsBurnt`, `TunnelsDoAsAsked` | `KeyTableTrue`, `AsAllowed`, `DataSound`, `LiveZoneKept`, `NoPortBurnt`, `TunnelsAsAsked` | `StoresProofs` |

What the bundles among them say is in the table of section 3. Each theorem is
about the specification its run checks (`Spec`, or `MCSpec` of the instance, of
which the runs' fair specifications are special cases), for any number of
releases, submitters, supervisors, processes, hosts, tunnels, zones, keys,
people, requests, failures, deaths and restarts. TLC evaluated every inductive
invariant on the runs' instances before it was proved.

**Assumed.** Only what the modules that declare the constants name, each a
statement that bounds are numbers, ids are positive ones, sets are not empty or
bounds leave room for the initial state: `ConstantsAssumption` (`ApplyUpdate`, `FirstRun`,
`HostDeploy`, `Updater`), `ProcessAssumption`, `ProviderAssumption`,
`SessionsAssumption`, `UpdatesAssumption`, `BrowserAssumption`,
`HostsAssumption`, `StoresAssumption`. Components that are instances state
theirs as operators (`KeysAssumption`, `CheckAssumption`, ...), which the
assumption of the instance names. TLC evaluates all of them.

Two theorems have hypotheses on top. `RollbackIsExact` and `TreeIsKept` suppose
`RollbackWorks`: the untested copies of the snapshot and the commands of
`rollback()` do not fail. `apply-update.sh` goes on without a copy of the
frontend (`|| true`, lines 147-149) and only logs what `rollback()` could not
restore, so without the hypothesis both are false; whichever other commands
`Faults` names may fail, stops and starts of the backend among them.
`TreeIsKept` also supposes that the archive carries the three directories
(`Bundled = Sub`), because the swap moves aside what the archive does not
replace. The run `apply` checks both properties under these hypotheses.

**ApplyUpdate.** `ServesOwnSchema` is not inductive: that a serving backend
agrees with the database needs that no step which moves the schema happens while
one serves. `IInv` adds where the script is: `BackendAway` (unless a stop missed,
no backend serves or can come up from the stop to the start, nor through the
rollback), `LeftBehind` (what a stop that missed leaves behind), `BootsAlone`
(during a container start neither the script nor a backend runs), `Landed` (how
far the loop has come fixes which bundled directories hold the target), `Cleaned`
(likewise for what the cleanup has removed), `Answering` (a backend that comes up
during the health loop runs the target, and the one that answered stays up while
the script finishes), `SchemaReached` (from the migrations on the database is the
target's), `NoneLost` (forward, every acknowledged write is in the database,
unless a stop missed) and `WritesSurvive` (forward of
the snapshot the database holds at least its writes). For the rollback, `JInv`
adds `OneLife`, `SwapPhase` (until a death, each directory is kept, aside or
replaced as the loop variable says, forward and back) and `SnapshotsAgree` (the
snapshots are of one release, and the rollback has put back those it has come
past). For the tree, `HInv` adds `CompleteCopies`, `Unhurt` and `Healing` (after
a first death in the forward path each directory is the old or the new release,
or lies aside where the repair has not come yet; after a recreation all are the
image's).

**FirstRun.** `TrxExclusive` says that only the submission at the head of the
queue holds the transaction, and that past its count no account exists; with
`BootsAlone` (no submission before the server listens) and `IssuedToOwner` (who
is about to get a session is the owner) it makes `OneAccount` inductive, and
every action maps to a claim, an admission or a stutter of `OneOwner`.
`DoneIsDone` needs `Waiting`: who waits stands in the queue and who holds the
connection is its head.

**Cloudflared.** `NoLeak` needs `PendingMeansDown`: a queued respawn implies no
child, since the timer's spawn overwrites the child field without a test. That
holds only because `start()` cancels the timer, `stop()` cancels it too, and the
exit handler that queues it has just cleared the field. The invariant is proved
for the supervisor transformers first (`Start`, `Spawn`, `AfterExit`, ...), then
for each action from the transformers it calls. For the cache, `AInv` adds
`Serial`: as long as no two calls have overlapped, every supervisor outside the
cache is one that `stop()` is done with.

**Updates.** `Slot`: until two installs have been inside `acquireLock` together
or a lock went stale, one acquires at a time, one holds at a time, a holder's
lock is fresh, nobody stands before the open that would truncate it, and what
was found right is still right. For the agent, a rename is pending only behind a
check that passed (`PartChecked`), and a boot that is through has at the path
what it installed or what it had found (`AgentChecked`); a `cloudflared` is
replaced only by a release no older than what it said (`Replaceable`). For the
installer, what each line finished is tied to how far the run has come.

**Browser.** The row remembers the last step of the TOTP clock that was accepted;
a token's stamp is never ahead of the clock; and a token issued under another
password than the present one is either stamped before the cut-off or known to
be overtaken (`OvertakenKnown`). For the sign-out, a poll that was refused
carried the token it will erase (`RefusedPoll`).

**HostDeploy.** A host is served as its row says once all is settled. The
invariant follows each request of an undisturbed host step by step: what it read
of the row is still so (`KnowsRow`), the record it found or made is at
Cloudflare (`RecordAtStep`), the configuration built since holds its row
(`BuiltFor`), and nothing it must still remove is forgotten (`NoneLost`);
`ServeInv` relates the row, the last `config.yml` and what the daemon has
loaded, `RecordInv` the row and the record, `QueueInv` the calls of
`rebuildConfig` and the requests that wait for them.

**Hosts.** `EdgeInv`: what is on disk, what nginx has loaded or has ahead of it
and what the row says, for each host nobody else was at (`HostsKept`), plus how
many orders a hostname had (`Throttled`). `GatewayInv`: one stamp stands for one
pair of credentials (`StampsTell`), the stamp a save has taken is nobody's yet
(`StampsFresh`), whoever changed the row deploys next (`RoutedSoFar`), a daemon
that missed no reload routes as `config.yml` says (`Reached`), and the sessions
of the present stamp have a TOTP step each (`StepsApart`). `DiagnosisInv`: what
each probe has learnt so far is true as long as its origin stayed the same and
no request was lost (`ProbesLearn`), and the row shows what one of the deploys
since found (`RowFollows`). `ImportInv`: each request
counts its rows as it inserts them, and a file's rows are placed before they are.
`EditInv`: the tunnel a form sends was picked in it, and a click's switch stands
while the answer is out.

**Stores.** For keys, a request that has counted holds a place until it inserts:
rows and such requests together never exceed the limit by as much as there are
requests (`PlacesBounded`), because the last one to count saw fewer rows than the
limit. The secret of a rotation under way is in no row and has let nobody in
(`SecretsFresh`). For the assistant, an action belongs to one turn (`TurnsOwn`)
and is run by the press that claimed it (`OnceOnly`). For the data directory,
which lines, keys and seals may stand side by side at each step of a restore or a
reset (`LinesInv`, `SealsInv`, `ServedInv`). For zones, what a sync does not have
on its list was missing when it listed or since (`ListedOrAbsent`). For ports,
every tunnel at playit is recorded, about to be saved, or lost in one of the ways
named in section 2 (`Accounted`).

**Tunnels.** `TunnelsAsAsked` is about the last step of a request, so its
invariant tells from where a request is what it has done. At Cloudflare a
request has left an end of its operation's script to do (`OnScript`), and the
length of that end fixes, for a request that no other met and that has failed at
nothing, loudly or silently, what holds of the row, its supervisor and its
records (`CfSoFar`). Another request cannot undo it: who met no other is the
only one at its row (`AloneAtRow`), two rows never have one tunnel and a tunnel
just created is in no row yet (`Owned`), and a row number is given once
(`RowsGiven`). At playit a tunnel stays its host's (`HostsOwn`), and a deploy
that is alone has either found its host's tunnel with the origin it wants or
found that there is none (`DeploySoFar`).

**What attempts at a proof found.** `EdgeSound` was false on instances larger
than the run's: after a start in recovery nginx serves no host's file, and a
renewal that meets a trial order of its host may end on the trial's certificate.
`LocalEdge` follows `docker/s6/nginx/run` into recovery now, and `raced` names the
hosts on which jobs met. `DiagnosisTrue` was false of an origin the run did not
have, one that answers 500 and above to proxied requests alone: the code does
not look for it, the property names it, and the run has that origin. Overlapping
cases in `Diagnostics` were rewritten in the order in which the code tests them.

**Model-checked only.** Every liveness property (`UpdateReleases`, `UpdateEnds`,
`UpdatesEnd`, `ModalEnds`, `Answered`, `GetsIn`, `StreamComesBack`, `WaitsEnd`,
`StopsAndRespawns`, `RequestsEnd`): fairness and ENABLED are beyond the prover.
So is one safety property, `NextStartWorks`, which the run `apply` checks for
every death of the instance. Every other property of a passing run is stated by a
theorem of the table. No module declares a RECURSIVE operator.

## 5. Plan

1. The death of the process between two steps of a deploy in `HostDeploy`.
2. `HostGateway` composed with `HostDeploy`: today a redeploy is one step that
   fails, or succeeds with its reload heard or dropped.
3. A theorem for `NextStartWorks`.

## 6. Not modelled

Ciphers and hashes (library code), input validation, rendering of configuration
text, the wording of messages, the wizard's and the tour's pages, settings pages,
shared schemas, packaging and release scripts: they keep no state that another
step decides on. Image drift and network origin are decisions over one reading
that unit tests reach. Audit rows are written and never read by a decision; rate
limits are a library's counter.
What a component that is modelled leaves out is named with its module in
section 2 and, per component, in `PROJECT.json`.
