------------------------------ MODULE DataDir ------------------------------
(***************************************************************************)
(* /data across starts: the database with its write-ahead log, the key its *)
(* secrets are sealed with, the bootstrap's markers, and everything that   *)
(* moves them: bootstrap.sh and bootstrap.ts, the key check in crypto.ts,  *)
(* the recovery UI, the encrypted backup and its restore.  A death can     *)
(* come between any two steps, and the next start works with what it       *)
(* finds.                                                                  *)
(*                                                                         *)
(* A database is the line it belongs to (each fresh one begins a line),    *)
(* how many of its commits are in the file, and the key that the canary in *)
(* its settings is sealed with (0: none yet).  A log holds the commits     *)
(* from..to of a line: SQLite, the part modelled from how it is used,      *)
(* replays any log it finds beside a database, and deletes one beside an   *)
(* empty file.                                                             *)
(***************************************************************************)
EXTENDS Naturals, FiniteSets

CONSTANTS
  MaxKeys,     \* bounds the keys ever generated
  MaxLines,    \* bounds the fresh databases
  MaxCommits,  \* bounds the commits of a line
  MaxDeaths    \* bounds the deaths and restarts of the container

VARIABLES
  db, wal,       \* db/db.sqlite and its -wal
  snaps,         \* db/backups: the snapshots taken before updates
  key,           \* secrets/encryption.key
  complete,      \* .bootstrap-complete
  outcome,       \* .bootstrap-outcome
  archive,       \* what hard resets have moved aside
  cgbk,          \* the encrypted backup the operator keeps
  backend,       \* the start of the container, or what the backend does
  front,         \* where nginx sends the panel's port
  rec,           \* the request the recovery UI serves
  stream,        \* the backup being streamed or restored
  keys, lines, deaths,
  chosen,        \* history: the database the operator restored, until it is written to
  torn,          \* history: the snapshot whose restore was left half done, or with an old log
  overwritten    \* history: a backup was restored over a running install

files == <<db, wal, snaps, key, complete, outcome>>
service == <<backend, front>>
history == <<chosen, torn, overwritten>>
vars == <<files, archive, cgbk, service, rec, stream, keys, lines, deaths, history>>

NoDb == [line |-> 0, n |-> 0, key |-> 0, part |-> FALSE]
NoLog == [line |-> 0, from |-> 0, to |-> 0]
NoBackup == [db |-> NoDb, wal |-> NoLog, key |-> 0]
Databases == [line : 0..MaxLines, n : 0..MaxCommits, key : 0..MaxKeys, part : BOOLEAN]
Logs == [line : 0..MaxLines, from : 0..MaxCommits, to : 0..MaxCommits]
Booting == {"secrets", "initdb", "migrate", "mark"}

TypeOK ==
  /\ db \in Databases /\ wal \in Logs /\ chosen \in Databases
  /\ snaps \subseteq Databases /\ key \in 0..MaxKeys
  /\ complete \in BOOLEAN /\ outcome \in {"none", "ok", "fail"}
  /\ archive \in [dbs : SUBSET Databases, keys : SUBSET (1..MaxKeys)]
  /\ cgbk \in [db : Databases, wal : Logs, key : 0..MaxKeys]
  /\ backend \in Booting \union {"check", "up", "refused", "asleep"}
  /\ front \in {"panel", "recovery"}
  /\ rec \in [op : {"idle", "unlink", "copy", "log", "reset"}, left : SUBSET {"db", "secrets", "marks"}]
  /\ stream \in {"idle", "log", "secrets", "overLog", "overSecrets", "overMark"}
  /\ keys \in 0..MaxKeys /\ lines \in 0..MaxLines /\ deaths \in 0..MaxDeaths
  /\ torn \in Databases /\ overwritten \in BOOLEAN

Quiet == rec.op = "idle"
Ready(op) == rec.op = op
Turn(op) == rec' = [rec EXCEPT !.op = op]

(***************************************************************************)
(* SQLite                                                                  *)
(***************************************************************************)
\* What a connection reads is one state of one line.
Whole == db.part = FALSE /\ (wal = NoLog \/ (wal.line = db.line /\ wal.from <= db.n))
Latest == IF wal = NoLog \/ wal.line # db.line THEN db.n ELSE wal.to

\* The last connection closes: the log goes into the file and is deleted.
Settled == IF Whole THEN [db EXCEPT !.n = Latest] ELSE [db EXCEPT !.part = TRUE]

(***************************************************************************)
(* The start of the container                                              *)
(***************************************************************************)

\* ensureSecret: read, or generate if there is none.
EnsureSecret ==
  /\ backend = "secrets"
  /\ IF key # 0 THEN UNCHANGED <<key, keys>>
     ELSE keys < MaxKeys /\ keys' = keys + 1 /\ key' = keys + 1
  /\ backend' = "initdb"
  /\ UNCHANGED <<db, wal, snaps, complete, outcome, archive, cgbk, front, rec, stream, lines, deaths, history>>

InitDb ==
  /\ backend = "initdb"
  /\ IF db # NoDb THEN UNCHANGED <<db, wal, lines, torn>>
     ELSE /\ lines < MaxLines /\ lines' = lines + 1
          /\ db' = [line |-> lines + 1, n |-> 0, key |-> 0, part |-> FALSE]
          /\ wal' = NoLog /\ torn' = NoDb
  /\ backend' = "migrate"
  /\ UNCHANGED <<snaps, key, complete, outcome, archive, cgbk, front, rec, stream, keys, deaths,
                 chosen, overwritten>>

\* finalize: the outcome decides what nginx shows and whether the backend starts.
Finalize(ok) ==
  /\ outcome' = IF ok THEN "ok" ELSE "fail"
  /\ front' = IF ok THEN "panel" ELSE "recovery"
  /\ backend' = IF ok THEN "check" ELSE "asleep"

\* The migrations run, on a connection of the bootstrap's own, or any step fails.
Migrate ==
  /\ backend = "migrate"
  /\ \/ /\ db' = Settled /\ wal' = NoLog
        /\ backend' = "mark" /\ UNCHANGED <<outcome, front>>
     \/ Finalize(FALSE) /\ UNCHANGED <<db, wal>>
  /\ UNCHANGED <<snaps, key, complete, archive, cgbk, rec, stream, keys, lines, deaths, history>>

WriteMarker ==
  /\ backend = "mark"
  /\ complete' = TRUE
  /\ Finalize(TRUE)
  /\ UNCHANGED <<db, wal, snaps, key, archive, cgbk, rec, stream, keys, lines, deaths, history>>

\* The backend: it seals a canary into a database that has none, and exits when the
\* one it finds does not open; s6 starts it again, to the same end.
VerifyKeyOrSeed ==
  /\ backend = "check"
  /\ IF db.key = 0 THEN db' = [db EXCEPT !.key = key] ELSE UNCHANGED db
  /\ backend' = IF db.key \in {0, key} THEN "up" ELSE "refused"
  /\ UNCHANGED <<wal, snaps, key, complete, outcome, archive, cgbk, front, rec, stream, keys, lines, deaths,
                 history>>

(***************************************************************************)
(* The backend at work                                                     *)
(***************************************************************************)
Commit ==
  /\ backend = "up" /\ ~overwritten /\ Latest < MaxCommits
  /\ wal' = IF wal = NoLog THEN [line |-> db.line, from |-> db.n, to |-> db.n + 1]
            ELSE [wal EXCEPT !.to = @ + 1]
  /\ chosen' = NoDb
  /\ UNCHANGED <<db, snaps, key, complete, outcome, archive, cgbk, service, rec, stream, keys, lines, deaths,
                 torn, overwritten>>

\* The log is copied into the file and begins anew.
Checkpoint ==
  /\ backend = "up" /\ ~overwritten /\ wal # NoLog /\ wal.to > db.n
  /\ db' = [db EXCEPT !.n = wal.to]
  /\ wal' = [wal EXCEPT !.from = wal.to]
  /\ UNCHANGED <<snaps, key, complete, outcome, archive, cgbk, service, rec, stream, keys, lines, deaths,
                 history>>

\* The snapshot an update begins with.
Snapshot ==
  /\ backend = "up" /\ ~overwritten /\ Whole
  /\ snaps' = snaps \union {[db EXCEPT !.n = Latest]}
  /\ UNCHANGED <<db, wal, key, complete, outcome, archive, cgbk, service, rec, stream, keys, lines, deaths,
                 history>>

\* POST /api/backup streams the files one after the other while the backend works on.
Backup ==
  /\ backend = "up" /\ ~overwritten
  /\ \/ /\ stream = "idle" /\ stream' = "log"
        /\ cgbk' = [db |-> db, wal |-> NoLog, key |-> key]
     \/ stream = "log" /\ stream' = "secrets" /\ cgbk' = [cgbk EXCEPT !.wal = wal]
     \/ stream = "secrets" /\ stream' = "idle" /\ cgbk' = [cgbk EXCEPT !.key = key]
  /\ UNCHANGED <<files, archive, service, rec, keys, lines, deaths, history>>

\* POST /api/restore?force=true extracts the archive over the files in use; only a
\* restart reads them.
RestoreOver ==
  /\ backend = "up" /\ cgbk # NoBackup
  /\ \/ stream = "idle" /\ stream' = "overLog" /\ db' = cgbk.db /\ UNCHANGED <<wal, key, complete>>
     \/ /\ stream = "overLog" /\ stream' = "overSecrets"
        /\ wal' = IF cgbk.wal = NoLog THEN wal ELSE cgbk.wal
        /\ UNCHANGED <<db, key, complete>>
     \/ /\ stream = "overSecrets" /\ stream' = "overMark"
        /\ key' = cgbk.key
        /\ UNCHANGED <<db, wal, complete>>
     \/ stream = "overMark" /\ stream' = "idle" /\ complete' = TRUE /\ UNCHANGED <<db, wal, key>>
  /\ overwritten' = TRUE /\ chosen' = NoDb
  /\ UNCHANGED <<snaps, outcome, archive, cgbk, service, rec, keys, lines, deaths, torn>>

(***************************************************************************)
(* The recovery UI, reached when nginx points at it                        *)
(***************************************************************************)
InRecovery == front = "recovery" /\ backend = "asleep"
held == <<outcome, archive, cgbk, service, stream, keys, lines, deaths>>

\* POST /api/restore-db: unlink, copy, remove the log.  An unlink that fails changes
\* nothing.
RestoreDb ==
  /\ InRecovery /\ Quiet /\ snaps # {}
  /\ db' = NoDb /\ Turn("copy")
  /\ \E s \in snaps : chosen' = s
  /\ UNCHANGED <<wal, snaps, key, complete, held, torn, overwritten>>

CopySnapshot ==
  /\ Ready("copy")
  /\ db' = chosen /\ Turn("log")
  /\ UNCHANGED <<wal, snaps, key, complete, held, history>>

\* The copy fails half way, or before it has begun; the request ends with an error.
CopyFails ==
  /\ Ready("copy")
  /\ db' \in {NoDb, [chosen EXCEPT !.part = TRUE]}
  /\ torn' = chosen /\ chosen' = NoDb /\ Turn("idle")
  /\ UNCHANGED <<wal, snaps, key, complete, held, overwritten>>

\* Mutant of RemoveLog: the log of the replaced database stays.
RemoveNoLog ==
  /\ Ready("log")
  /\ Turn("idle") /\ torn' = NoDb
  /\ UNCHANGED <<db, wal, snaps, key, complete, held, chosen, overwritten>>

\* A log that cannot be unlinked stays, and the answer is ok all the same.
RemoveLog ==
  /\ Ready("log") /\ Turn("idle")
  /\ \/ wal' = NoLog /\ torn' = NoDb /\ UNCHANGED chosen
     \/ wal # NoLog /\ torn' = chosen /\ chosen' = NoDb /\ UNCHANGED wal
  /\ UNCHANGED <<db, snaps, key, complete, held, overwritten>>

\* POST /api/soft-reset: the markers go, but for those that cannot be unlinked.
SoftReset ==
  /\ InRecovery /\ Quiet
  /\ complete' \in {FALSE, complete} /\ outcome' \in {"none", outcome}
  /\ UNCHANGED <<db, wal, snaps, key, archive, cgbk, service, rec, stream, keys, lines, deaths, history>>

\* POST /api/hard-reset: every entry of /data is renamed into a directory of this reset.
HardReset ==
  /\ InRecovery /\ Quiet
  /\ rec' = [op |-> "reset", left |-> {"db", "secrets", "marks"}]
  /\ UNCHANGED <<files, archive, cgbk, service, stream, keys, lines, deaths, history>>

\* One that cannot be renamed is reported and stays.
Entry(entry) ==
  /\ Ready("reset") /\ entry \in rec.left
  /\ rec' = IF rec.left = {entry} THEN [op |-> "idle", left |-> {}] ELSE [rec EXCEPT !.left = @ \ {entry}]

StaysPut(entry) ==
  /\ Entry(entry)
  /\ UNCHANGED <<files, archive, cgbk, service, stream, keys, lines, deaths, history>>

MoveAside(entry) ==
  /\ Entry(entry)
  /\ CASE entry = "db" ->
            /\ archive' = [archive EXCEPT !.dbs = @ \union snaps \union ({db} \ {NoDb})]
            /\ db' = NoDb /\ wal' = NoLog /\ snaps' = {}
            /\ chosen' = NoDb /\ torn' = NoDb
            /\ UNCHANGED <<key, complete, outcome, overwritten>>
       [] entry = "secrets" ->
            /\ archive' = [archive EXCEPT !.keys = @ \union ({key} \ {0})] /\ key' = 0
            /\ UNCHANGED <<db, wal, snaps, complete, outcome, history>>
       [] entry = "marks" ->
            /\ complete' = FALSE /\ outcome' = "none"
            /\ UNCHANGED <<db, wal, snaps, key, archive, history>>
  /\ UNCHANGED <<cgbk, service, stream, keys, lines, deaths>>

\* The container dies, or the operator restarts it as the recovery UI asks: whatever was
\* under way is left as it is.  A copy may have got half way.
Die ==
  /\ deaths < MaxDeaths /\ deaths' = deaths + 1
  /\ backend' = "secrets" /\ rec' = [op |-> "idle", left |-> {}]
  /\ stream' = "idle"
  /\ cgbk' = IF stream \in {"log", "secrets"} THEN NoBackup ELSE cgbk
  /\ \/ rec.op = "copy" /\ db' = [chosen EXCEPT !.part = TRUE]
     \/ UNCHANGED db
  /\ torn' = IF rec.op \in {"copy", "log"} THEN chosen ELSE torn
  /\ chosen' = IF rec.op \in {"copy", "log"} THEN NoDb ELSE chosen
  /\ UNCHANGED <<wal, snaps, key, complete, outcome, archive, front, keys, lines, overwritten>>

Init ==
  /\ db = NoDb /\ wal = NoLog /\ snaps = {} /\ key = 0
  /\ complete = FALSE /\ outcome = "none"
  /\ archive = [dbs |-> {}, keys |-> {}] /\ cgbk = NoBackup
  /\ backend = "secrets" /\ front = "recovery"
  /\ rec = [op |-> "idle", left |-> {}] /\ stream = "idle"
  /\ keys = 0 /\ lines = 0 /\ deaths = 0
  /\ chosen = NoDb /\ torn = NoDb /\ overwritten = FALSE

Next ==
  \/ EnsureSecret \/ InitDb \/ Migrate \/ WriteMarker \/ VerifyKeyOrSeed
  \/ Commit \/ Checkpoint \/ Snapshot \/ Backup \/ RestoreOver
  \/ RestoreDb \/ CopySnapshot \/ CopyFails \/ RemoveLog \/ SoftReset \/ HardReset
  \/ \E entry \in {"db", "secrets", "marks"} : MoveAside(entry) \/ StaysPut(entry)
  \/ Die

Spec == Init /\ [][Next]_vars

(***************************************************************************)
(* Properties                                                              *)
(***************************************************************************)
\* The backend serves no mixture: what it reads is one state of one database, sealed
\* with the key it has; and after a restore from the recovery UI it is the very state
\* that was chosen.  The exception is a restore that a death or a failing copy left half
\* done, or whose old log could not be removed: its snapshot is there still, and to
\* restore it again ends the exception.  Left out is an archive extracted over the files
\* of a running backend.
ServesWhatWasChosen ==
  ~overwritten =>
    /\ torn \in snaps \union {NoDb}
    /\ backend = "up" =>
         /\ db.key = key
         /\ torn = NoDb => Whole /\ (chosen # NoDb => db.line = chosen.line /\ Latest = chosen.n)

\* No reset makes a secret unreadable: the key that a database on the volume is sealed
\* with, live or moved aside, is on the volume too, whichever start or death came between
\* (recovery-ui/src/index.ts:222 "the archived secrets and database").
SecretsKept ==
  ~overwritten =>
    \A d \in archive.dbs \union {db} : d.key \in {0, key} \union archive.keys

=============================================================================
