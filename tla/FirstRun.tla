------------------------------ MODULE FirstRun ------------------------------
(***************************************************************************)
(* The first start of an install: bootstrap.ts makes the secrets, the      *)
(* database and perhaps a seeded admin; then POST /api/setup               *)
(* (routes/setup.ts, services/setup.ts) creates the admin account while    *)
(* none exists, and POST /api/restore/first-run may unpack a backup.       *)
(*                                                                         *)
(* A step is what runs between two awaits.  Submissions are from the local *)
(* network and well formed; the others are refused before they touch any   *)
(* state.  The knex pool of better-sqlite3 has one connection, so nothing  *)
(* else reads the database while a transaction is open.  An admin is       *)
(* abstracted to the party whose credentials it carries.                   *)
(***************************************************************************)
EXTENDS Naturals, Sequences

CONSTANTS
    Submitter,     \* parties at the setup page
    Seed,          \* the operator, through CLOUDGATE_INITIAL_ADMIN_PASSWORD
    Nobody,
    TrxMayFail,    \* whether a statement or a commit may fail
    MaxDeaths      \* bound: deaths of the process

ASSUME ConstantsAssumption ==
    /\ Seed \notin Submitter /\ Nobody \notin Submitter \cup {Seed}
    /\ TrxMayFail \in BOOLEAN
    /\ MaxDeaths \in Nat

VARIABLES
    boot,      \* the bootstrap step to run next, "listening" once all have, "off" while dead
    keyFile,   \* /data/secrets/encryption.key exists
    dbFile,    \* /data/db/db.sqlite exists
    users,     \* the rows of the users table, by the party they belong to
    open,      \* computeSetupWindow(...).open
    pc,        \* where each submission is suspended, "idle" without one
    queue,     \* the chain of mutex promises: its head is the one whose turn it is
    trx,       \* the submission whose transaction holds the connection
    reply,     \* the last answer each submitter got
    admitted,  \* history: the submitters that got a session
    restore,   \* the answer to the last POST /api/restore/first-run
    deaths     \* deaths of the process so far

vars == <<boot, keyFile, dbFile, users, open, pc, queue, trx, reply, admitted, restore, deaths>>

bootVars == <<boot, keyFile, dbFile, open>>

Init ==
    /\ boot = "secrets" /\ keyFile = FALSE /\ dbFile = FALSE
    /\ users = {}
    /\ open = FALSE
    /\ pc = [r \in Submitter |-> "idle"]
    /\ queue = <<>> /\ trx = Nobody
    /\ reply = [r \in Submitter |-> "none"]
    /\ admitted = {}
    /\ restore = "none"
    /\ deaths = 0

-----------------------------------------------------------------------------
(* runBootstrap, before the server listens *)

EnsureSecrets ==
    /\ boot = "secrets"
    /\ boot' = "migrate" /\ keyFile' = TRUE
    /\ UNCHANGED <<dbFile, users, open, pc, queue, trx, reply, admitted, restore, deaths>>

RunMigrations ==
    /\ boot = "migrate"
    /\ boot' = "seed" /\ dbFile' = TRUE
    /\ UNCHANGED <<keyFile, users, open, pc, queue, trx, reply, admitted, restore, deaths>>

\* Mutant of SeedAdmin: an existing account does not keep it from seeding
SeedAdminAlways ==
    /\ boot = "seed"
    /\ boot' = "insert"
    /\ UNCHANGED <<keyFile, dbFile, users, open, pc, queue, trx, reply, admitted, restore, deaths>>

\* seedAdminIfMissing with the variable set at this start: the check, then the hash
SeedAdmin ==
    /\ boot = "seed" /\ users = {}
    /\ boot' = "insert"
    /\ UNCHANGED <<keyFile, dbFile, users, open, pc, queue, trx, reply, admitted, restore, deaths>>

InsertSeed ==
    /\ boot = "insert"
    /\ users' = users \cup {Seed}
    /\ boot' = "listening" /\ open' = TRUE
    /\ UNCHANGED <<keyFile, dbFile, pc, queue, trx, reply, admitted, restore, deaths>>

\* with an account there already, or the variable not set
SkipSeed ==
    /\ boot = "seed"
    /\ boot' = "listening" /\ open' = TRUE
    /\ UNCHANGED <<keyFile, dbFile, users, pc, queue, trx, reply, admitted, restore, deaths>>

-----------------------------------------------------------------------------
(* POST /api/setup *)

Submit(r) ==
    /\ boot = "listening" /\ pc[r] = "idle"
    /\ pc' = [pc EXCEPT ![r] = "asked"]
    /\ UNCHANGED <<bootVars, users, queue, trx, reply, admitted, restore, deaths>>

Answer(r, code) ==
    /\ pc' = [pc EXCEPT ![r] = "idle"]
    /\ reply' = [reply EXCEPT ![r] = code]

\* needsSetup() and the window, then createInitialAdmin up to its first await
CheckNeeded(r) ==
    /\ pc[r] = "asked" /\ trx = Nobody
    /\ IF users # {} THEN Answer(r, "SETUP_DONE") /\ UNCHANGED queue
       ELSE IF ~open THEN Answer(r, "SETUP_WINDOW_CLOSED") /\ UNCHANGED queue
       ELSE /\ pc' = [pc EXCEPT ![r] = "queued"]
            /\ queue' = Append(queue, r)
            /\ UNCHANGED reply
    /\ UNCHANGED <<bootVars, users, trx, admitted, restore, deaths>>

\* previous has resolved: knex.transaction begins
Begin(r) ==
    /\ pc[r] = "queued" /\ Head(queue) = r /\ trx = Nobody
    /\ trx' = r
    /\ pc' = [pc EXCEPT ![r] = "begun"]
    /\ UNCHANGED <<bootVars, users, queue, reply, admitted, restore, deaths>>

\* The transaction is over, and the finally block releases the mutex
Leave == trx' = Nobody /\ queue' = Tail(queue)

\* Mutant of Count: needsSetup() has been asked before, so it is not asked again
CountNot(r) ==
    /\ pc[r] = "begun"
    /\ pc' = [pc EXCEPT ![r] = "counted"]
    /\ UNCHANGED <<bootVars, users, queue, trx, reply, admitted, restore, deaths>>

\* COUNT(users) inside the transaction, then the hash
Count(r) ==
    /\ pc[r] = "begun"
    /\ IF users # {} THEN Answer(r, "SETUP_DONE") /\ Leave
       ELSE /\ pc' = [pc EXCEPT ![r] = "counted"]
            /\ UNCHANGED <<queue, trx, reply>>
    /\ UNCHANGED <<bootVars, users, admitted, restore, deaths>>

Insert(r) ==
    /\ pc[r] = "counted"
    /\ pc' = [pc EXCEPT ![r] = "inserted"]
    /\ UNCHANGED <<bootVars, users, queue, trx, reply, admitted, restore, deaths>>

\* the row is read back and the transaction commits
Commit(r) ==
    /\ pc[r] = "inserted"
    /\ users' = users \cup {r}
    /\ Leave
    /\ pc' = [pc EXCEPT ![r] = "issuing"]
    /\ UNCHANGED <<bootVars, reply, admitted, restore, deaths>>

\* Mutant of TrxFails: the mutex is released after the transaction, not in a finally block
TrxFailsLocked(r) ==
    /\ TrxMayFail
    /\ pc[r] \in {"begun", "counted", "inserted"}
    /\ trx' = Nobody
    /\ Answer(r, "INTERNAL")
    /\ UNCHANGED <<bootVars, users, queue, admitted, restore, deaths>>

\* Mutant of TrxFails: those who wait adopt the outcome of the one ahead of them
TrxFailsForAll(r) ==
    /\ TrxMayFail
    /\ pc[r] \in {"begun", "counted", "inserted"}
    /\ trx' = Nobody /\ queue' = <<>>
    /\ pc' = [q \in Submitter |-> IF pc[q] = "queued" \/ q = r THEN "idle" ELSE pc[q]]
    /\ reply' = [q \in Submitter |-> IF q = r THEN "INTERNAL"
                                     ELSE IF pc[q] = "queued" THEN "SETUP_DONE" ELSE reply[q]]
    /\ UNCHANGED <<bootVars, users, admitted, restore, deaths>>

\* the transaction rolls back
TrxFails(r) ==
    /\ TrxMayFail
    /\ pc[r] \in {"begun", "counted", "inserted"}
    /\ Leave
    /\ Answer(r, "INTERNAL")
    /\ UNCHANGED <<bootVars, users, admitted, restore, deaths>>

\* issueAccessToken for the row this submission inserted
Issue(r) ==
    /\ pc[r] = "issuing"
    /\ Answer(r, "OK")
    /\ admitted' = admitted \cup {r}
    /\ UNCHANGED <<bootVars, users, queue, trx, restore, deaths>>

-----------------------------------------------------------------------------
(* POST /api/restore/first-run, time, and the process *)

HasInstall == dbFile /\ keyFile

\* A backup brings its own users; it would be read after the next start
FirstRunRestore ==
    /\ boot = "listening"
    /\ restore' = IF HasInstall THEN "INSTALL_EXISTS"
                  ELSE IF ~open THEN "SETUP_WINDOW_CLOSED" ELSE "OK"
    /\ UNCHANGED <<bootVars, users, pc, queue, trx, reply, admitted, deaths>>

WindowCloses ==
    /\ boot = "listening" /\ open
    /\ open' = FALSE
    /\ UNCHANGED <<boot, keyFile, dbFile, users, pc, queue, trx, reply, admitted, restore, deaths>>

\* The process dies: an open transaction is rolled back, the mutex is gone
Die ==
    /\ boot # "off" /\ deaths < MaxDeaths
    /\ boot' = "off" /\ open' = FALSE
    /\ pc' = [r \in Submitter |-> "idle"]
    /\ queue' = <<>> /\ trx' = Nobody
    /\ deaths' = deaths + 1
    /\ UNCHANGED <<keyFile, dbFile, users, reply, admitted, restore>>

Restart ==
    /\ boot = "off"
    /\ boot' = "secrets"
    /\ UNCHANGED <<keyFile, dbFile, users, open, pc, queue, trx, reply, admitted, restore, deaths>>

-----------------------------------------------------------------------------
BootStep == EnsureSecrets \/ RunMigrations \/ SeedAdmin \/ InsertSeed \/ SkipSeed \/ Restart

Handler(r) ==
    CheckNeeded(r) \/ Begin(r) \/ Count(r) \/ Insert(r) \/ Commit(r) \/ TrxFails(r) \/ Issue(r)

Next ==
    \/ BootStep
    \/ \E r \in Submitter : Submit(r) \/ Handler(r)
    \/ FirstRunRestore \/ WindowCloses \/ Die

Spec == Init /\ [][Next]_vars

(* Every promise a handler awaits settles.  A connection that is free over *)
(* and over again is handed to a waiting handler: the pool is a queue.     *)
FairSpec == Spec /\ WF_vars(BootStep) /\ \A r \in Submitter : SF_vars(Handler(r))

-----------------------------------------------------------------------------
(* Properties *)

TypeOK ==
    /\ boot \in {"off", "secrets", "migrate", "seed", "insert", "listening"}
    /\ keyFile \in BOOLEAN /\ dbFile \in BOOLEAN /\ open \in BOOLEAN
    /\ users \subseteq Submitter \cup {Seed}
    /\ pc \in [Submitter -> {"idle", "asked", "queued", "begun", "counted", "inserted", "issuing"}]
    /\ queue \in Seq(Submitter)
    /\ trx \in Submitter \cup {Nobody}
    /\ reply \in [Submitter -> {"none", "OK", "SETUP_DONE", "SETUP_WINDOW_CLOSED", "INTERNAL"}]
    /\ admitted \subseteq Submitter
    /\ restore \in {"none", "INSTALL_EXISTS", "SETUP_WINDOW_CLOSED", "OK"}
    /\ deaths \in Nat

(* However submissions, failures and restarts interleave, one party owns   *)
(* the install for good, and only it is ever handed a session              *)
(* (services/setup.ts, header).                                            *)
Owner == IF users = {} THEN Nobody ELSE CHOOSE p \in users : TRUE
Promise == INSTANCE OneOwner WITH Party <- Submitter \cup {Seed}, owner <- Owner

OneOwnerSpec == Promise!Spec

(* There is never a second account, not even one that is not the owner's.  *)
OneAccount == \A p, q \in users : p = q

(* Whoever is told that the setup is done is told the truth: a submission  *)
(* that waited for one that failed gets its own try.                       *)
DoneIsDone == TypeOK /\ \A r \in Submitter : reply[r] = "SETUP_DONE" => users # {}

(* Every submission is answered, or dies with the process.                 *)
Answered == \A r \in Submitter : pc[r] # "idle" ~> pc[r] = "idle"

(* routes/restore.ts: first-run restores "on a fresh container before any  *)
(* user is created".                                                       *)
FreshRestoreAccepted ==
    [][restore' # restore /\ users = {} /\ open => restore' = "OK"]_vars
=============================================================================
