------------------------------ MODULE Updater ------------------------------
(***************************************************************************)
(* services/updater.ts inside the backend process: the release check, the  *)
(* install that reserves the update slot, downloads, verifies and hands    *)
(* over to docker/apply-update.sh, and the lock file that is meant to keep *)
(* two installs apart.                                                     *)
(*                                                                         *)
(* Node runs one callback at a time, so a step is what runs between two    *)
(* awaits.  triggerInstall can be entered again at every await: the poll   *)
(* timer, POST /updates/check and POST /updates/install share one process, *)
(* one status object, one lock file and one staging path per release.  The *)
(* script itself is ApplyUpdate; here it is what it does to these.         *)
(***************************************************************************)
EXTENDS Naturals, FiniteSets

CONSTANTS
    Install,      \* calls of triggerInstall that can be under way at once
    Release,      \* release versions asked for
    Signed,       \* releases carry a .sig, so gpg runs between checksum and hand-over
    AutoMode,     \* mode = 'auto': a check that finds a release installs it
    Faults,       \* what may fail: "disk" (writes to /data), "net", "gpg"
    MaxInstalls,  \* bound: calls of triggerInstall in a behaviour
    MaxDeaths     \* bound: container deaths

ASSUME ConstantsAssumption ==
    /\ Install # {} /\ Release # {}
    /\ Signed \in BOOLEAN /\ AutoMode \in BOOLEAN
    /\ Faults \subseteq {"disk", "net", "gpg"}
    /\ MaxInstalls \in Nat /\ MaxDeaths \in Nat

VARIABLES
    pc,        \* where each install is suspended, "idle" when it is not running
    target,    \* its targetVersion
    script,    \* the apply-update.sh it spawned
    lock,      \* /data/updates/.update.lock
    archive,   \* the tarball in the staging directory, per release
    opener,    \* the install that truncated it last
    ui,        \* state.state, what GET /updates reports
    check,     \* triggerCheck: "none", or "fetching" the release list
    polling,   \* state.channel is not 'disabled': there are release checks
    alive,     \* the backend process is up
    raced,     \* history: two installs were in acquireLock at once, or a lock went stale under its holder
    orphaned,  \* history: the lock's holder died or threw without releasing it
    installs,  \* calls of triggerInstall so far
    deaths     \* container deaths so far

vars == <<pc, target, script, lock, archive, opener, ui, check, polling, alive, raced, orphaned, installs, deaths>>

Acquiring == {"mkdir", "read", "open", "write"}
Working == {"staging", "fetch", "archive", "sidecars", "verify", "gpg", "release", "unlink"}
Busy == {"downloading", "verifying", "installing"}

\* An install holds the slot from the lock's writing until its script removes the lock
Holds(r) == pc[r] \in Working \/ script[r] # "none"
Holders == {r \in Install : Holds(r)}

Init ==
    /\ pc = [r \in Install |-> "idle"]
    /\ target = [r \in Install |-> CHOOSE v \in Release : TRUE]
    /\ script = [r \in Install |-> "none"]
    /\ lock = "none"
    /\ archive = [v \in Release |-> "none"]
    /\ opener = [v \in Release |-> CHOOSE r \in Install : TRUE]
    /\ ui = "idle" /\ check = "none" /\ polling = TRUE /\ alive = TRUE
    /\ raced = FALSE /\ orphaned = FALSE
    /\ installs = 0 /\ deaths = 0

-----------------------------------------------------------------------------
(* acquireLock *)

\* triggerInstall up to its first await; the status is overwritten before the lock is tried
Enter(r, v) ==
    /\ alive /\ installs < MaxInstalls
    /\ pc[r] = "idle" /\ script[r] = "none"
    /\ pc' = [pc EXCEPT ![r] = "mkdir"]
    /\ target' = [target EXCEPT ![r] = v]
    /\ ui' = "downloading"
    /\ raced' = (raced \/ \E q \in Install : pc[q] \in Acquiring)
    /\ installs' = installs + 1
    /\ UNCHANGED <<script, lock, archive, opener, polling, alive, orphaned, deaths>>

Request(r, v) == Enter(r, v) /\ UNCHANGED check

Goto(r, step) == pc[r] # step /\ pc' = [pc EXCEPT ![r] = step]

\* existsSync, once mkdir has resolved
LookForLock(r) ==
    /\ pc[r] = "mkdir"
    /\ Goto(r, IF lock = "none" THEN "open" ELSE "read")
    /\ UNCHANGED <<target, script, lock, archive, opener, ui, check, polling, alive, raced, orphaned, installs, deaths>>

\* "Another update is already in progress"
Refused(r) ==
    /\ pc[r] = "read" /\ lock = "fresh"
    /\ Goto(r, "idle")
    /\ ui' = "failed"
    /\ UNCHANGED <<target, script, lock, archive, opener, check, polling, alive, raced, orphaned, installs, deaths>>

\* older than 30 minutes; or empty, whose NaN is never less than 30 minutes; or gone
TakeOver(r) ==
    /\ pc[r] = "read" /\ lock # "fresh"
    /\ Goto(r, "open")
    /\ UNCHANGED <<target, script, lock, archive, opener, ui, check, polling, alive, raced, orphaned, installs, deaths>>

\* writeFile truncates the file, then writes the time into it
OpenLock(r) ==
    /\ pc[r] = "open"
    /\ Goto(r, "write")
    /\ lock' = "empty"
    /\ UNCHANGED <<target, script, archive, opener, ui, check, polling, alive, raced, orphaned, installs, deaths>>

WriteLock(r) ==
    /\ pc[r] = "write"
    /\ Goto(r, "staging")
    /\ lock' = IF lock = "none" THEN "none" ELSE "fresh"
    /\ orphaned' = FALSE
    /\ UNCHANGED <<target, script, archive, opener, ui, check, polling, alive, raced, installs, deaths>>

\* A disk error in writeFile leaves triggerInstall, outside its try block
WriteLockFails(r) ==
    /\ "disk" \in Faults
    /\ pc[r] = "write"
    /\ Goto(r, "idle")
    /\ UNCHANGED <<target, script, lock, archive, opener, ui, check, polling, alive, raced, orphaned, installs, deaths>>

-----------------------------------------------------------------------------
(* triggerInstall, after the lock *)

\* mkdir of the staging directory, then the download starts
Staging(r) ==
    /\ pc[r] = "staging"
    /\ Goto(r, "fetch")
    /\ ui' = "downloading"
    /\ UNCHANGED <<target, script, lock, archive, opener, check, polling, alive, raced, orphaned, installs, deaths>>

\* The mkdir is outside the try block too: the lock stays behind
StagingFails(r) ==
    /\ "disk" \in Faults
    /\ pc[r] = "staging"
    /\ Goto(r, "idle")
    /\ orphaned' = TRUE
    /\ UNCHANGED <<target, script, lock, archive, opener, ui, check, polling, alive, raced, installs, deaths>>

\* The response is there: createWriteStream truncates the staging file
OpenArchive(r) ==
    /\ pc[r] = "fetch"
    /\ Goto(r, "archive")
    /\ archive' = [archive EXCEPT ![target[r]] = "part"]
    /\ opener' = [opener EXCEPT ![target[r]] = r]
    /\ UNCHANGED <<target, script, lock, ui, check, polling, alive, raced, orphaned, installs, deaths>>

(* The file is whole when the writer that truncated it last is through;    *)
(* what was delivered may be damaged.                                      *)
ArchiveDone(r) ==
    /\ pc[r] = "archive"
    /\ Goto(r, "sidecars")
    /\ \/ /\ "net" \in Faults
          /\ archive' = [archive EXCEPT ![target[r]] = "bad"]
       \/ IF opener[target[r]] = r /\ archive[target[r]] = "part"
          THEN archive' = [archive EXCEPT ![target[r]] = "good"]
          ELSE UNCHANGED archive
    /\ UNCHANGED <<target, script, lock, opener, ui, check, polling, alive, raced, orphaned, installs, deaths>>

\* the .sha256 is mandatory, the .sig is not
Sidecars(r) ==
    /\ pc[r] = "sidecars"
    /\ Goto(r, "verify")
    /\ ui' = "verifying"
    /\ UNCHANGED <<target, script, lock, archive, opener, check, polling, alive, raced, orphaned, installs, deaths>>

\* spawn of apply-update.sh, and triggerInstall returns
HandOver(r) ==
    /\ Goto(r, "idle")
    /\ script' = [script EXCEPT ![r] = "spawned"]
    /\ ui' = "installing"

\* sha256Of reads the archive; without a signature the hand-over follows at once
Verify(r) ==
    /\ pc[r] = "verify"
    /\ archive[target[r]] = "good"
    /\ IF Signed
       THEN Goto(r, "gpg") /\ UNCHANGED <<script, ui>>
       ELSE HandOver(r)
    /\ UNCHANGED <<target, lock, archive, opener, check, polling, alive, raced, orphaned, installs, deaths>>

VerifyGpg(r) ==
    /\ pc[r] = "gpg"
    /\ HandOver(r)
    /\ UNCHANGED <<target, lock, archive, opener, check, polling, alive, raced, orphaned, installs, deaths>>

\* What can be thrown inside the try block, by the await at which it is
Throws(r) ==
    \/ pc[r] \in {"fetch", "archive", "sidecars"} /\ "net" \in Faults
    \/ pc[r] = "verify" /\ archive[target[r]] # "good"
    \* the checksum another install is downloading over
    \/ pc[r] = "verify" /\ \E q \in Install : q # r /\ pc[q] = "sidecars" /\ target[q] = target[r]
    \/ pc[r] = "gpg" /\ "gpg" \in Faults

\* Mutant of Fail: the catch block without its releaseLock
FailKeepsLock(r) ==
    /\ Throws(r)
    /\ Goto(r, "idle")
    /\ ui' = "failed"
    /\ UNCHANGED <<target, script, lock, archive, opener, check, polling, alive, raced, orphaned, installs, deaths>>

\* the catch block
Fail(r) ==
    /\ Throws(r)
    /\ Goto(r, "release")
    /\ ui' = "failed"
    /\ UNCHANGED <<target, script, lock, archive, opener, check, polling, alive, raced, orphaned, installs, deaths>>

\* releaseLock reads the lock file, and removes it if that worked
ReleaseLock(r) ==
    /\ pc[r] = "release"
    /\ Goto(r, IF lock = "none" THEN "idle" ELSE "unlink")
    /\ UNCHANGED <<target, script, lock, archive, opener, ui, check, polling, alive, raced, orphaned, installs, deaths>>

UnlinkLock(r) ==
    /\ pc[r] = "unlink"
    /\ Goto(r, "idle")
    /\ lock' = "none"
    /\ UNCHANGED <<target, script, archive, opener, ui, check, polling, alive, raced, orphaned, installs, deaths>>

\* Half an hour passes
LockAges ==
    /\ lock = "fresh"
    /\ lock' = "stale"
    /\ raced' = (raced \/ Holders # {})
    /\ UNCHANGED <<pc, target, script, archive, opener, ui, check, polling, alive, orphaned, installs, deaths>>

-----------------------------------------------------------------------------
(* triggerCheck *)

\* Mutant of StartCheck: no check while an install is reported
StartCheckWhenQuiet ==
    /\ alive /\ polling /\ check = "none" /\ ui \notin Busy
    /\ check' = "fetching"
    /\ ui' = "checking"
    /\ UNCHANGED <<pc, target, script, lock, archive, opener, polling, alive, raced, orphaned, installs, deaths>>

\* the poll timer, or POST /updates/check; with the channel 'disabled' either returns before
\* it touches the status
StartCheck ==
    /\ alive /\ polling /\ check = "none"
    /\ check' = "fetching"
    /\ ui' = "checking"
    /\ UNCHANGED <<pc, target, script, lock, archive, opener, polling, alive, raced, orphaned, installs, deaths>>

\* nothing newer, a release to offer, or an error
CheckDone ==
    /\ check = "fetching"
    /\ check' = "none"
    /\ ui' \in {"idle"} \cup (IF polling /\ (AutoMode => installs = MaxInstalls) THEN {"available"} ELSE {})
                        \cup (IF "net" \in Faults THEN {"failed"} ELSE {})
    /\ UNCHANGED <<pc, target, script, lock, archive, opener, polling, alive, raced, orphaned, installs, deaths>>

\* mode 'auto': void triggerInstall(latest) runs up to its first await
CheckInstalls(r, v) ==
    /\ AutoMode /\ polling
    /\ check = "fetching"
    /\ check' = "none"
    /\ Enter(r, v)

\* POST /updates/settings, or loadSettings of a process that began with 'stable'
SetChannel ==
    /\ alive
    /\ polling' = ~polling
    /\ UNCHANGED <<pc, target, script, lock, archive, opener, ui, check, alive, raced, orphaned, installs, deaths>>

-----------------------------------------------------------------------------
(* apply-update.sh, the backend process and the container *)

ScriptExtracts(r) ==
    /\ script[r] = "spawned"
    /\ script' = [script EXCEPT ![r] = "extracted"]
    /\ UNCHANGED <<pc, target, lock, archive, opener, ui, check, polling, alive, raced, orphaned, installs, deaths>>

\* bail: before the backend is stopped, the lock goes and the backend is told nothing
ScriptBails(r) ==
    /\ script[r] \in {"spawned", "extracted"}
    /\ script' = [script EXCEPT ![r] = "none"]
    /\ lock' = "none"
    /\ UNCHANGED <<pc, target, archive, opener, ui, check, polling, alive, raced, orphaned, installs, deaths>>

\* Whatever the process was doing is gone with it
ProcessEnds ==
    /\ pc' = [r \in Install |-> "idle"]
    /\ ui' = "idle" /\ check' = "none" /\ polling' = TRUE

\* s6-svc -d
ScriptStopsBackend(r) ==
    /\ script[r] = "extracted"
    /\ script' = [script EXCEPT ![r] = "swapping"]
    /\ ProcessEnds
    /\ alive' = FALSE
    /\ orphaned' = (orphaned \/ \E q \in Install : pc[q] \in Working)
    /\ UNCHANGED <<target, lock, archive, opener, raced, installs, deaths>>

BackendUp ==
    /\ ~alive
    /\ alive' = TRUE
    /\ UNCHANGED <<pc, target, script, lock, archive, opener, ui, check, polling, raced, orphaned, installs, deaths>>

\* succeeded or rolled back: marker written, lock removed
ScriptEnds(r) ==
    /\ script[r] = "swapping"
    /\ script' = [script EXCEPT ![r] = "none"]
    /\ lock' = "none"
    /\ UNCHANGED <<pc, target, archive, opener, ui, check, polling, alive, raced, orphaned, installs, deaths>>

ContainerDies ==
    /\ deaths < MaxDeaths
    /\ deaths' = deaths + 1
    /\ ProcessEnds
    /\ script' = [r \in Install |-> "none"]
    /\ alive' = FALSE
    /\ orphaned' = (orphaned \/ Holders # {})
    /\ UNCHANGED <<target, lock, archive, opener, raced, installs>>

-----------------------------------------------------------------------------
InstallStep(r) ==
    \/ LookForLock(r) \/ Refused(r) \/ TakeOver(r) \/ OpenLock(r) \/ WriteLock(r) \/ WriteLockFails(r)
    \/ Staging(r) \/ StagingFails(r) \/ OpenArchive(r) \/ ArchiveDone(r) \/ Sidecars(r)
    \/ Verify(r) \/ VerifyGpg(r) \/ Fail(r) \/ ReleaseLock(r) \/ UnlinkLock(r)

ScriptStep(r) ==
    ScriptExtracts(r) \/ ScriptBails(r) \/ ScriptStopsBackend(r) \/ ScriptEnds(r)

Next ==
    \/ \E r \in Install :
          \/ \E v \in Release : Request(r, v) \/ CheckInstalls(r, v)
          \/ InstallStep(r) \/ ScriptStep(r)
    \/ StartCheck \/ CheckDone \/ SetChannel
    \/ LockAges
    \/ BackendUp \/ ContainerDies

(* Every await settles (fetch has undici's header and body timeouts, gpg   *)
(* exits), the script runs to its end, s6 restarts the backend, and the    *)
(* poll timer fires every six hours, to a check unless they are disabled.  *)
Fairness ==
    /\ \A r \in Install : WF_vars(InstallStep(r)) /\ WF_vars(ScriptStep(r))
    /\ WF_vars(StartCheck) /\ WF_vars(CheckDone) /\ WF_vars(BackendUp)

Spec == Init /\ [][Next]_vars
FairSpec == Spec /\ Fairness

-----------------------------------------------------------------------------
(* Properties *)

TypeOK ==
    /\ pc \in [Install -> {"idle"} \cup Acquiring \cup Working]
    /\ target \in [Install -> Release]
    /\ script \in [Install -> {"none", "spawned", "extracted", "swapping"}]
    /\ lock \in {"none", "empty", "fresh", "stale"}
    /\ archive \in [Release -> {"none", "part", "good", "bad"}]
    /\ opener \in [Release -> Install]
    /\ ui \in Busy \cup {"idle", "checking", "available", "failed"}
    /\ check \in {"none", "fetching"}
    /\ polling \in BOOLEAN /\ alive \in BOOLEAN /\ raced \in BOOLEAN /\ orphaned \in BOOLEAN
    /\ installs \in Nat /\ deaths \in Nat

(* Two installs never hold the update slot together, unless they were both *)
(* inside acquireLock at some time, or the lock went stale under one of    *)
(* them: a refused, failed or killed install takes nothing from another.   *)
OneUnlessRaced == ~raced => \A q, r \in Holders : q = r

(* The lock is on disk exactly as long as somebody holds the slot, whose   *)
(* failure removes it, except where the holder died or threw outside the   *)
(* try block.                                                              *)
LockMatchesHolder ==
    ~raced => /\ Holders # {} => lock = "fresh"
              /\ lock = "fresh" => Holders # {} \/ orphaned

(* The script extracts only an archive whose checksum was found right and  *)
(* that nobody has touched since (triggerInstall's "Verify").              *)
ExtractsVerified ==
    [][\A r \in Install :
          ~raced /\ script[r] = "spawned" /\ script'[r] = "extracted"
          => archive[target[r]] = "good"]_vars

(* Every install comes to an end, whatever it meets.                       *)
InstallsEnd == \A r \in Install : pc[r] # "idle" ~> pc[r] = "idle"

(* The status does not report an install for ever, not even when the       *)
(* script bailed without the backend hearing of it: the next check ends    *)
(* that.  With the channel 'disabled' there is none, and the status of an  *)
(* install that bailed, or threw before its try block, stays.              *)
BusyEnds == ui \in Busy ~> ui \notin Busy \/ ~polling

=============================================================================
