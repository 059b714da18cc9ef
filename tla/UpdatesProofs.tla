--------------------------- MODULE UpdatesProofs ---------------------------
(***************************************************************************)
(* Proofs about MCUpdates: the updater service, the release check, the     *)
(* modal, the downloaded binaries and the installer, for any number of     *)
(* installs, releases, checks, restarts, runs and failures.                *)
(***************************************************************************)
EXTENDS MCUpdates, WellFoundedInduction, TLAPS

-----------------------------------------------------------------------------
(* The updater service *)

\* An install hands over and is through: the script it spawned runs alone.
OneJob == \A r \in Install : pc[r] # "idle" => script[r] = "none"

(* As long as no two installs have been inside acquireLock together, and   *)
(* no lock went stale under its holder: one acquires at a time, one holds  *)
(* at a time, a holder's lock is fresh and stops the other before the open *)
(* that would truncate it, and what was found right is still right.        *)
OneAcquires == \A q, r \in Install : pc[q] \in Acquiring /\ pc[r] \in Acquiring => q = r
OneHolds == \A q, r \in Install : Holds(q) /\ Holds(r) => q = r
HeldIsFresh == \A r \in Install : Holds(r) => lock = "fresh"
HeldShutsOut == \A q, r \in Install : Holds(r) => pc[q] \notin {"open", "write"}
OpenedIsEmpty == \A r \in Install : pc[r] = "write" => lock = "empty"
FreshIsHeld == lock = "fresh" => orphaned \/ \E r \in Install : Holds(r)
FoundRight == \A r \in Install : pc[r] = "gpg" \/ script[r] = "spawned" => archive[target[r]] = "good"

Slot == OneAcquires /\ OneHolds /\ HeldIsFresh /\ HeldShutsOut /\ OpenedIsEmpty /\ FreshIsHeld /\ FoundRight

UpdaterInv == TypeOK /\ OneJob /\ (~raced => Slot)

LEMMA InitUpdater == Init => UpdaterInv
<1>. SUFFICES ASSUME Init PROVE UpdaterInv
  OBVIOUS
<1>1. (CHOOSE v \in Release : TRUE) \in Release /\ (CHOOSE r \in Install : TRUE) \in Install
  BY ConstantsAssumption
<1>2. TypeOK
  BY <1>1 DEF Init, TypeOK, Busy
<1>3. OneJob
  BY DEF Init, OneJob
<1>4. Slot
  BY DEF Init, Slot, OneAcquires, OneHolds, HeldIsFresh, HeldShutsOut, OpenedIsEmpty, FreshIsHeld,
         FoundRight, Holds, Acquiring, Working
<1>. QED  BY <1>2, <1>3, <1>4 DEF UpdaterInv

LEMMA UpdaterTypes == TypeOK /\ [Next]_vars => TypeOK'
<1>. SUFFICES ASSUME TypeOK, [Next]_vars PROVE TypeOK'
  OBVIOUS
<1>. USE DEF TypeOK, Goto
<1>1. ASSUME NEW r \in Install, NEW v \in Release, Enter(r, v), check' \in {"none", "fetching"} PROVE TypeOK'
  BY <1>1 DEF Enter, Acquiring, Busy
<1>2. ASSUME NEW r \in Install, InstallStep(r) PROVE TypeOK'
  <2>1. CASE LookForLock(r) \/ Refused(r) \/ TakeOver(r)
    BY <2>1 DEF LookForLock, Refused, TakeOver, Acquiring, Working
  <2>2. CASE OpenLock(r) \/ WriteLock(r) \/ WriteLockFails(r)
    BY <2>2 DEF OpenLock, WriteLock, WriteLockFails, Acquiring, Working
  <2>3. CASE Staging(r) \/ StagingFails(r)
    BY <2>3 DEF Staging, StagingFails, Working, Busy
  <2>4. CASE OpenArchive(r)
    BY <2>4 DEF OpenArchive, Working
  <2>5. CASE ArchiveDone(r)
    BY <2>5 DEF ArchiveDone, Working
  <2>6. CASE Sidecars(r)
    BY <2>6 DEF Sidecars, Working, Busy
  <2>7. CASE Verify(r) \/ VerifyGpg(r)
    BY <2>7 DEF Verify, VerifyGpg, HandOver, Working, Busy
  <2>8. CASE Fail(r) \/ ReleaseLock(r) \/ UnlinkLock(r)
    BY <2>8 DEF Fail, ReleaseLock, UnlinkLock, Working
  <2>. QED  BY <1>2, <2>1, <2>2, <2>3, <2>4, <2>5, <2>6, <2>7, <2>8 DEF InstallStep
<1>3. ASSUME NEW r \in Install, ScriptStep(r) PROVE TypeOK'
  BY <1>3 DEF ScriptStep, ScriptExtracts, ScriptBails, ScriptStopsBackend, ScriptEnds, ProcessEnds
<1>4. CASE StartCheck \/ CheckDone \/ LockAges
  BY <1>4 DEF StartCheck, CheckDone, LockAges
<1>8. CASE SetChannel
  BY <1>8 DEF SetChannel
<1>5. CASE BackendUp
  BY <1>5 DEF BackendUp
<1>7. CASE ContainerDies
  <2>1. orphaned' \in BOOLEAN
    BY <1>7 DEF ContainerDies
  <2>2. deaths' \in Nat
    BY <1>7 DEF ContainerDies
  <2>. QED  BY <1>7, <2>1, <2>2 DEF ContainerDies, ProcessEnds
<1>6. CASE UNCHANGED vars
  BY <1>6 DEF vars
<1>. QED
  BY <1>1, <1>2, <1>3, <1>4, <1>5, <1>6, <1>7, <1>8 DEF Next, Request, CheckInstalls

LEMMA UpdaterJobs == TypeOK /\ OneJob /\ [Next]_vars => OneJob'
<1>. SUFFICES ASSUME TypeOK, OneJob, [Next]_vars PROVE OneJob'
  OBVIOUS
<1>. USE DEF TypeOK, OneJob, Goto
<1>1. ASSUME NEW r \in Install, NEW v \in Release, Enter(r, v) PROVE OneJob'
  BY <1>1 DEF Enter
<1>2. ASSUME NEW r \in Install, InstallStep(r) PROVE OneJob'
  <2>1. CASE pc[r] # "idle" /\ UNCHANGED script /\ \E step : Goto(r, step)
    BY <2>1
  <2>2. CASE HandOver(r)
    BY <2>2 DEF HandOver
  <2>. QED
    BY <1>2, <2>1, <2>2
    DEF InstallStep, LookForLock, Refused, TakeOver, OpenLock, WriteLock, WriteLockFails, Staging,
        StagingFails, OpenArchive, ArchiveDone, Sidecars, Verify, VerifyGpg, Fail, Throws, ReleaseLock,
        UnlinkLock
<1>3. ASSUME NEW r \in Install, ScriptStep(r) PROVE OneJob'
  BY <1>3 DEF ScriptStep, ScriptExtracts, ScriptBails, ScriptStopsBackend, ScriptEnds, ProcessEnds
<1>4. CASE StartCheck \/ CheckDone \/ SetChannel \/ LockAges \/ BackendUp \/ UNCHANGED vars
  BY <1>4 DEF StartCheck, CheckDone, SetChannel, LockAges, BackendUp, vars
<1>5. CASE ContainerDies
  BY <1>5 DEF ContainerDies, ProcessEnds
<1>. QED
  BY <1>1, <1>2, <1>3, <1>4, <1>5 DEF Next, Request, CheckInstalls

LEMMA UpdaterSlot == UpdaterInv /\ [Next]_vars => (~raced' => Slot')
<1>. SUFFICES ASSUME UpdaterInv, [Next]_vars, ~raced' PROVE Slot'
  OBVIOUS
<1>. USE DEF UpdaterInv, TypeOK, OneJob, Slot, OneAcquires, OneHolds, HeldIsFresh, HeldShutsOut,
             OpenedIsEmpty,
             FreshIsHeld, FoundRight, Holds, Acquiring, Working, Goto
<1>1. ASSUME NEW r \in Install, NEW v \in Release, Enter(r, v) PROVE Slot'
  <2>1. /\ pc' = [pc EXCEPT ![r] = "mkdir"] /\ target' = [target EXCEPT ![r] = v]
        /\ pc[r] = "idle" /\ script[r] = "none" /\ UNCHANGED <<script, lock, archive, orphaned>>
        /\ \A q \in Install : pc[q] \notin Acquiring
        /\ Slot
    BY <1>1 DEF Enter
  <2>2. \A q \in Install : Holds(q)' <=> Holds(q)
    BY <2>1
  <2>3. OneAcquires' /\ OneHolds' /\ HeldIsFresh' /\ HeldShutsOut'
    BY <2>1, <2>2
  <2>4. OpenedIsEmpty' /\ FreshIsHeld'
    BY <2>1, <2>2
  <2>5. FoundRight'
    BY <2>1
  <2>. QED  BY <2>3, <2>4, <2>5
<1>2. ASSUME NEW r \in Install, InstallStep(r) PROVE Slot'
  <2>1. CASE LookForLock(r)
    BY <2>1 DEF LookForLock
  <2>2. CASE Refused(r)
    BY <2>2 DEF Refused
  <2>3. CASE TakeOver(r)
    BY <2>3 DEF TakeOver
  <2>4. CASE OpenLock(r)
    BY <2>4 DEF OpenLock
  <2>5. CASE WriteLock(r)
    BY <2>5 DEF WriteLock
  <2>6. CASE WriteLockFails(r)
    BY <2>6 DEF WriteLockFails
  <2>7. CASE Staging(r)
    BY <2>7 DEF Staging
  <2>8. CASE StagingFails(r)
    BY <2>8 DEF StagingFails
  <2>9. CASE OpenArchive(r)
    BY <2>9 DEF OpenArchive
  <2>10. CASE ArchiveDone(r)
    BY <2>10 DEF ArchiveDone
  <2>11. CASE Sidecars(r)
    BY <2>11 DEF Sidecars
  <2>12. CASE Verify(r)
    BY <2>12 DEF Verify, HandOver
  <2>13. CASE VerifyGpg(r)
    BY <2>13 DEF VerifyGpg, HandOver
  <2>14. CASE Fail(r)
    BY <2>14 DEF Fail, Throws
  <2>15. CASE ReleaseLock(r)
    BY <2>15 DEF ReleaseLock
  <2>16. CASE UnlinkLock(r)
    BY <2>16 DEF UnlinkLock
  <2>. QED
    BY <1>2, <2>1, <2>2, <2>3, <2>4, <2>5, <2>6, <2>7, <2>8, <2>9, <2>10, <2>11, <2>12, <2>13, <2>14,
       <2>15, <2>16 DEF InstallStep
<1>3. ASSUME NEW r \in Install, ScriptStep(r) PROVE Slot'
  <2>1. CASE ScriptExtracts(r)
    BY <2>1 DEF ScriptExtracts
  <2>2. CASE ScriptBails(r)
    BY <2>2 DEF ScriptBails
  <2>3. CASE ScriptStopsBackend(r)
    BY <2>3 DEF ScriptStopsBackend, ProcessEnds
  <2>4. CASE ScriptEnds(r)
    BY <2>4 DEF ScriptEnds
  <2>. QED
    BY <1>3, <2>1, <2>2, <2>3, <2>4 DEF ScriptStep
<1>4. CASE StartCheck \/ CheckDone \/ SetChannel \/ BackendUp \/ UNCHANGED vars
  BY <1>4 DEF StartCheck, CheckDone, SetChannel, BackendUp, vars
<1>5. CASE LockAges
  BY <1>5 DEF LockAges, Holders
<1>6. CASE ContainerDies
  BY <1>6 DEF ContainerDies, ProcessEnds, Holders
<1>. QED
  BY <1>1, <1>2, <1>3, <1>4, <1>5, <1>6 DEF Next, Request, CheckInstalls

LEMMA NextUpdater == UpdaterInv /\ [Next]_vars => UpdaterInv'
<1>1. UpdaterInv /\ [Next]_vars => TypeOK' /\ OneJob'
  BY UpdaterTypes, UpdaterJobs DEF UpdaterInv
<1>. QED  BY <1>1, UpdaterSlot DEF UpdaterInv

LEMMA SlotIsHeld == UpdaterInv => OneUnlessRaced /\ LockMatchesHolder
BY DEF UpdaterInv, Slot, OneHolds, HeldIsFresh, FreshIsHeld, OneUnlessRaced, LockMatchesHolder, Holders

\* A script that extracts was spawned on an archive that is still right.
VerifiedStep ==
  \A r \in Install : ~raced /\ script[r] = "spawned" /\ script'[r] = "extracted" => archive[target[r]] = "good"

LEMMA ExtractsVerifiedStep == UpdaterInv => VerifiedStep
BY DEF UpdaterInv, Slot, FoundRight, VerifiedStep

-----------------------------------------------------------------------------
(* The release check *)

LessThan == OpToRel(<, Nat)

\* Every nonempty set of numbers up to n has a greatest one.
LEMMA Greatest ==
  ASSUME NEW n \in Nat, NEW S \in SUBSET (1..n), S # {}
  PROVE  \E r \in S : \A q \in S : q <= r
<1>. DEFINE T == {n - q : q \in S}
<1>1. T \subseteq Nat /\ T # {}
  <2>1. \A q \in S : n - q \in Nat
    OBVIOUS
  <2>2. T \subseteq Nat
    BY <2>1
  <2>3. PICK q \in S : TRUE
    OBVIOUS
  <2>4. n - q \in T
    BY <2>3
  <2>. QED  BY <2>2, <2>4
<1>2. PICK x \in T : \A y \in T : <<y, x>> \notin LessThan
  <2>. HIDE DEF T
  <2>1. IsWellFoundedOn(LessThan, Nat)
    BY NatLessThanWellFounded, Zenon DEF LessThan
  <2>. QED  BY <2>1, <1>1, WFMin
<1>3. \A y \in T : ~(y < x)
  BY <1>1, <1>2 DEF LessThan, OpToRel
<1>4. PICK r \in S : x = n - r
  OBVIOUS
<1>5. ASSUME NEW q \in S PROVE q <= r
  <2>1. n - q \in T
    OBVIOUS
  <2>2. ~(n - q < n - r)
    BY <2>1, <1>3, <1>4
  <2>. QED  BY <2>2
<1>. QED  BY <1>5

\* What pickReleaseForChannel returns is listed and in the channel.
LEMMA PickedFits ==
  ASSUME NEW n \in Nat, NEW channel, Chosen!PickReleaseForChannel(n, channel) # 0
  PROVE  /\ Chosen!PickReleaseForChannel(n, channel) \in 1..n
         /\ Chosen!InChannel(Chosen!PickReleaseForChannel(n, channel), channel)
<1>. DEFINE fits == {r \in 1..n : Chosen!InChannel(r, channel)}
<1>1. fits # {}
  BY DEF Chosen!PickReleaseForChannel, Chosen!None
<1>2. \E r \in fits : \A q \in fits : q <= r
  BY <1>1, Greatest
<1>3. Chosen!PickReleaseForChannel(n, channel) = CHOOSE r \in fits : \A q \in fits : q <= r
  BY <1>1 DEF Chosen!PickReleaseForChannel
<1>4. Chosen!PickReleaseForChannel(n, channel) \in fits
  BY <1>2, <1>3
<1>. QED  BY <1>4

\* Each check is at one of its awaits, with the list of some moment
CheckShape ==
  rCheck \in [Checks -> [at : {"none", "fetching", "parsing"}, list : {0} \cup Chosen!Releases]]

(* The status follows the table: a change that is being saved is the one   *)
(* in the table, and when none is, the status differs from it only between *)
(* the start of the process and loadSettings, when it has the defaults.    *)
Settled ==
  /\ saving \in {{}, {stored}}
  /\ saving = {} => mem = stored \/ (~loaded /\ mem = Chosen!Default)

CheckInv == Chosen!TypeOK /\ CheckShape /\ Settled

LEMMA InitCheck == Chosen!Init => CheckInv
<1>. SUFFICES ASSUME Chosen!Init PROVE CheckInv
  OBVIOUS
<1>. USE UpdatesAssumption DEF Chosen!CheckAssumption
<1>1. Chosen!Default \in Chosen!Settings
  BY DEF Chosen!Default, Chosen!Settings, Chosen!Channels, Chosen!Modes
<1>2. Chosen!TypeOK
  BY <1>1 DEF Chosen!Init, Chosen!TypeOK, Chosen!Releases, Chosen!NoCheck, Chosen!None
<1>3. CheckShape
  BY DEF Chosen!Init, CheckShape, Chosen!NoCheck
<1>4. Settled
  BY DEF Chosen!Init, Settled
<1>. QED  BY <1>2, <1>3, <1>4 DEF CheckInv

LEMMA DefaultIsSetting == Chosen!Default \in Chosen!Settings /\ Chosen!Default.mode = "notify"
BY DEF Chosen!Default, Chosen!Settings, Chosen!Channels, Chosen!Modes

\* What a check picks is one of the releases, or none.
LEMMA PickedIsListed ==
  ASSUME Chosen!TypeOK, NEW c \in Checks
  PROVE  Chosen!PickReleaseForChannel(rCheck[c].list, mem.channel) \in {0} \cup Chosen!Releases
<1>1. rCheck[c].list \in Nat /\ rCheck[c].list <= Len(Published)
  BY UpdatesAssumption DEF Chosen!CheckAssumption, Chosen!TypeOK, Chosen!Releases
<1>2. CASE Chosen!PickReleaseForChannel(rCheck[c].list, mem.channel) = 0
  BY <1>2
<1>3. CASE Chosen!PickReleaseForChannel(rCheck[c].list, mem.channel) # 0
  <2>1. Chosen!PickReleaseForChannel(rCheck[c].list, mem.channel) \in 1..rCheck[c].list
    BY <1>1, <1>3, PickedFits
  <2>. QED  BY <1>1, <2>1, UpdatesAssumption DEF Chosen!CheckAssumption, Chosen!Releases
<1>. QED  BY <1>2, <1>3

LEMMA NextCheckShape == Chosen!TypeOK /\ CheckShape /\ [Chosen!Next]_checkVars => CheckShape'
<1>. SUFFICES ASSUME Chosen!TypeOK, CheckShape, [Chosen!Next]_checkVars PROVE CheckShape'
  OBVIOUS
<1>. USE DEF CheckShape
<1>1. ASSUME NEW c \in Checks, Chosen!TriggerCheck(c) PROVE CheckShape'
  BY <1>1 DEF Chosen!TriggerCheck
<1>2. ASSUME NEW c \in Checks, Chosen!Fetch(c) PROVE CheckShape'
  BY <1>2 DEF Chosen!Fetch, Chosen!NoCheck, Chosen!TypeOK
<1>3. ASSUME NEW c \in Checks, Chosen!Pick(c) PROVE CheckShape'
  BY <1>3 DEF Chosen!Pick, Chosen!NoCheck
<1>4. ASSUME NEW r, Chosen!Restart(r) PROVE CheckShape'
  BY <1>4 DEF Chosen!Restart, Chosen!NoCheck
<1>5. CASE UNCHANGED rCheck
  BY <1>5
<1>. QED
  BY <1>1, <1>2, <1>3, <1>4, <1>5
  DEF Chosen!Next, Chosen!Save, Chosen!UpdateChannel, Chosen!LoadSettings, Chosen!OnInstall,
      Chosen!InstallSucceeds, Chosen!InstallFails,
      Chosen!Die, Chosen!Publish, checkVars

LEMMA NextCheckTypes == CheckInv /\ [Chosen!Next]_checkVars => Chosen!TypeOK'
<1>. SUFFICES ASSUME CheckInv, [Chosen!Next]_checkVars PROVE Chosen!TypeOK'
  OBVIOUS
<1>0. CheckShape'
  BY NextCheckShape DEF CheckInv
<1>1. (\A c \in Checks : /\ rCheck[c].at \in {"none", "fetching", "parsing"}
                         /\ rCheck[c].list \in {0} \cup Chosen!Releases)'
  BY <1>0 DEF CheckShape
<1>. SUFFICES /\ (published \in Chosen!Releases /\ rRunning \in Chosen!Releases)'
              /\ (stored \in Chosen!Settings /\ mem \in Chosen!Settings /\ saving \in SUBSET Chosen!Settings)'
              /\ (offer \in {0} \cup Chosen!Releases /\ rTarget \in {0} \cup Chosen!Releases)'
              /\ (loaded \in BOOLEAN /\ saves \in 0..MaxSaves /\ checks \in 0..MaxChecks)'
  BY <1>1 DEF Chosen!TypeOK, Chosen!None
<1>. USE UpdatesAssumption DEF Chosen!CheckAssumption, CheckInv, Chosen!TypeOK, Chosen!None
<1>2. ASSUME NEW new \in Chosen!Settings, Chosen!Save(new) PROVE Chosen!TypeOK'
  BY <1>1, <1>2 DEF Chosen!Save
<1>3. CASE Chosen!UpdateChannel \/ Chosen!LoadSettings
  BY <1>1, <1>3 DEF Chosen!UpdateChannel, Chosen!LoadSettings
<1>4. ASSUME NEW c \in Checks, Chosen!TriggerCheck(c) \/ Chosen!Fetch(c) PROVE Chosen!TypeOK'
  BY <1>1, <1>4 DEF Chosen!TriggerCheck, Chosen!Fetch
<1>5. ASSUME NEW c \in Checks, Chosen!Pick(c) PROVE Chosen!TypeOK'
  BY <1>1, <1>5, PickedIsListed DEF Chosen!Pick
<1>6. CASE Chosen!OnInstall \/ Chosen!InstallFails
  BY <1>1, <1>6 DEF Chosen!OnInstall, Chosen!InstallFails
<1>7. ASSUME NEW r \in Chosen!Releases, Chosen!Restart(r) PROVE Chosen!TypeOK'
  BY <1>1, <1>7, DefaultIsSetting DEF Chosen!Restart
<1>8. CASE Chosen!Publish
  BY <1>1, <1>8 DEF Chosen!Publish, Chosen!Releases
<1>9. CASE UNCHANGED checkVars
  BY <1>1, <1>9 DEF checkVars
<1>. QED
  BY <1>2, <1>3, <1>4, <1>5, <1>6, <1>7, <1>8, <1>9 DEF Chosen!Next, Chosen!InstallSucceeds, Chosen!Die

LEMMA NextSettled == Settled /\ [Chosen!Next]_checkVars => Settled'
<1>. SUFFICES ASSUME Settled, [Chosen!Next]_checkVars PROVE Settled'
  OBVIOUS
<1>. USE DEF Settled
<1>1. ASSUME NEW new \in Chosen!Settings, Chosen!Save(new) PROVE Settled'
  BY <1>1 DEF Chosen!Save
<1>2. CASE Chosen!UpdateChannel \/ Chosen!LoadSettings
  BY <1>2 DEF Chosen!UpdateChannel, Chosen!LoadSettings
<1>3. ASSUME NEW r, Chosen!Restart(r) PROVE Settled'
  BY <1>3 DEF Chosen!Restart
<1>4. CASE UNCHANGED <<stored, mem, saving, loaded>>
  BY <1>4
<1>. QED
  BY <1>1, <1>2, <1>3, <1>4
  DEF Chosen!Next, Chosen!TriggerCheck, Chosen!Fetch, Chosen!Pick, Chosen!OnInstall,
      Chosen!InstallSucceeds, Chosen!InstallFails,
      Chosen!Die, Chosen!Publish, checkVars

LEMMA NextCheck == CheckInv /\ [Chosen!Next]_checkVars => CheckInv'
BY NextCheckShape, NextCheckTypes, NextSettled DEF CheckInv

\* What a check installs by itself, in one step (InstallsAsSet).
PickedAsSet ==
  \A c \in Checks : rCheck[c].at = "parsing" /\ rCheck'[c] # rCheck[c] /\ rTarget' \notin {rTarget, 0} =>
    /\ Chosen!NewerThan(rTarget', rRunning)
    /\ Chosen!InChannel(rTarget', mem.channel) /\ mem.mode = "auto"
    /\ saving = {} => mem = stored

LEMMA InstallsAsSetStep == CheckInv /\ [Chosen!Next]_checkVars => PickedAsSet
<1>. SUFFICES ASSUME CheckInv, [Chosen!Next]_checkVars PROVE PickedAsSet
  OBVIOUS
<1>1. ASSUME NEW c \in Checks, Chosen!Pick(c), rTarget' \notin {rTarget, 0} PROVE PickedAsSet
  <2>. DEFINE r == Chosen!PickReleaseForChannel(rCheck[c].list, mem.channel)
  <2>1. r # 0 /\ Chosen!CompareVersions(r) /\ mem.mode = "auto" /\ rTarget' = r
    BY <1>1 DEF Chosen!Pick, Chosen!None
  <2>2. Chosen!NewerThan(r, rRunning)
    BY <2>1 DEF Chosen!CompareVersions, Chosen!NewerThan
  <2>3. rCheck[c].list \in Nat
    BY UpdatesAssumption DEF Chosen!CheckAssumption, CheckInv, Chosen!TypeOK, Chosen!Releases
  <2>4. Chosen!InChannel(r, mem.channel)
    BY <2>1, <2>3, PickedFits
  <2>5. saving = {} => mem = stored
    BY <2>1, DefaultIsSetting DEF CheckInv, Settled
  <2>. HIDE DEF r
  <2>. QED  BY <2>1, <2>2, <2>4, <2>5 DEF PickedAsSet
<1>2. CASE rTarget' \in {rTarget, 0}
  BY <1>2 DEF PickedAsSet
<1>3. CASE UNCHANGED rCheck
  BY <1>3 DEF PickedAsSet
<1>. QED
  BY <1>1, <1>2, <1>3
  DEF Chosen!Next, Chosen!Save, Chosen!UpdateChannel, Chosen!LoadSettings, Chosen!TriggerCheck,
      Chosen!Fetch, Chosen!OnInstall,
      Chosen!InstallSucceeds, Chosen!InstallFails, Chosen!Restart, Chosen!Die, Chosen!Publish, checkVars,
      Chosen!None

-----------------------------------------------------------------------------
(* The modal *)

LEMMA InitModal == Modal!Init => Modal!TypeOK
BY UpdatesAssumption
DEF Modal!ModalAssumption, Modal!Init, Modal!TypeOK, Modal!Versions, Modal!Outcomes, Modal!Terminal,
    Modal!Off

LEMMA NextModal == Modal!TypeOK /\ [Modal!Next]_modalVars => Modal!TypeOK'
<1>. SUFFICES ASSUME Modal!TypeOK, [Modal!Next]_modalVars PROVE Modal!TypeOK'
  OBVIOUS
<1>. USE UpdatesAssumption DEF Modal!ModalAssumption, Modal!TypeOK, Modal!Versions, Modal!Outcomes,
                               Modal!Terminal
<1>1. ASSUME NEW v \in Modal!Versions, Modal!Begin(v), UNCHANGED <<page, modal, poll>>, post' \in 0..Newest
      PROVE  Modal!TypeOK'
  BY <1>1 DEF Modal!Begin
<1>2. CASE Modal!BeginElsewhere
  BY <1>1, <1>2 DEF Modal!BeginElsewhere
<1>3. CASE Modal!AnswerPost
  BY <1>1, <1>3 DEF Modal!AnswerPost, Modal!server_vars
<1>4. CASE Modal!Verified \/ Modal!Apply \/ Modal!Restarted
  BY <1>4 DEF Modal!Verified, Modal!Apply, Modal!Restarted
<1>5. CASE Modal!PollStatus
  BY <1>5 DEF Modal!PollStatus, Modal!server_vars
<1>6. CASE Modal!AutoOpen
  BY <1>6 DEF Modal!AutoOpen, Modal!Show, Modal!server_vars
<1>7. CASE Modal!OnInstall
  BY <1>7 DEF Modal!OnInstall, Modal!Show, Modal!server_vars
<1>8. CASE Modal!Close
  BY <1>8 DEF Modal!Close, Modal!Off, Modal!server_vars
<1>9. CASE Modal!Reload
  BY <1>9 DEF Modal!Reload, Modal!Off, Modal!server_vars
<1>10. CASE Modal!Dropped
  BY <1>10 DEF Modal!Dropped, Modal!Off, Modal!server_vars
<1>11. CASE Modal!Ping
  BY <1>11 DEF Modal!Ping, Modal!End, Modal!server_vars
<1>12. CASE Modal!ReadMarker
  BY <1>12 DEF Modal!ReadMarker, Modal!End, Modal!server_vars
<1>13. CASE Modal!Rerender
  BY <1>13 DEF Modal!Rerender, Modal!server_vars
<1>15. CASE Modal!ReadLog
  <2>1. PICK shown \in BOOLEAN : modal' = [modal EXCEPT !.log = shown]
    BY <1>15 DEF Modal!ReadLog
  <2>. QED  BY <2>1, <1>15 DEF Modal!ReadLog, Modal!Off, Modal!server_vars
<1>14. CASE UNCHANGED modalVars
  BY <1>14 DEF modalVars
<1>. QED
  BY <1>2, <1>3, <1>4, <1>5, <1>6, <1>7, <1>8, <1>9, <1>10, <1>11, <1>12, <1>13, <1>14, <1>15
  DEF Modal!Next, Modal!Server, Modal!Poll

-----------------------------------------------------------------------------
(* The downloaded binaries *)

(* Bytes become executable by the rename alone, and it finds what the      *)
(* check let through: a restart drops the pending rename, so a part that a *)
(* death has cut off is never renamed.                                     *)
PartChecked ==
  /\ install.at = "check" => part = install.got
  /\ install.at = "rename" => part = release /\ install.got = release

(* A boot that is over has the pinned agent in place, or could not install *)
(* it and left what it had found; until then nothing is started.           *)
AgentChecked ==
  /\ install.at # "over" => agent = found /\ spawned = Binary!No
  /\ install.at = "over" => agent = release \/ (agent = found /\ install.got # release)
  /\ spawned # Binary!No => spawned = agent

\* A cloudflared is only put in the place of one that is older, or told nothing of its age.
Replaceable ==
  resolve.at \in {"download", "rename"} /\ resolve.said # Binary!No
  => resolve.said = managed.version /\ managed.version <= release

BinInv == Binary!BinTypeOK /\ PartChecked /\ AgentChecked /\ Replaceable

LEMMA InitBin == Binary!BinInit => BinInv
BY UpdatesAssumption
DEF Binary!BinAssumption, Binary!BinInit, Binary!BinTypeOK, BinInv, PartChecked, AgentChecked, Replaceable,
    Binary!NoInstall, Binary!NoResolve, Binary!Bad, Binary!No, Binary!Releases,
    Binary!Bytes, Binary!Answers

LEMMA BinTypes == Binary!BinTypeOK /\ [Binary!BinNext]_binVars => Binary!BinTypeOK'
<1>. SUFFICES ASSUME Binary!BinTypeOK, [Binary!BinNext]_binVars PROVE Binary!BinTypeOK'
  OBVIOUS
<1>. USE UpdatesAssumption
     DEF Binary!BinAssumption, Binary!BinTypeOK, Binary!Bytes, Binary!Releases, Binary!No, Binary!Bad,
         Binary!Answers, Binary!agent_others, Binary!cf_others
<1>1. CASE Binary!Verify
  BY <1>1 DEF Binary!Verify, Binary!NoInstall
<1>2. CASE Binary!Fetch
  BY <1>2 DEF Binary!Fetch
<1>3. CASE Binary!WritePart
  BY <1>3 DEF Binary!WritePart
<1>4. CASE Binary!CheckPart
  BY <1>4 DEF Binary!CheckPart
<1>5. CASE Binary!PutAgent
  BY <1>5 DEF Binary!PutAgent
<1>6. CASE Binary!SpawnAgent
  BY <1>6 DEF Binary!SpawnAgent
<1>7. CASE Binary!Ask
  BY <1>7 DEF Binary!Ask, Binary!Resolved, Binary!NoResolve, Binary!Says
<1>8. CASE Binary!Download
  BY <1>8 DEF Binary!Download, Binary!Resolved, Binary!NoResolve
<1>9. CASE Binary!PutManaged
  BY <1>9 DEF Binary!PutManaged
<1>10. CASE Binary!AskAgain
  BY <1>10 DEF Binary!AskAgain, Binary!Resolved, Binary!NoResolve
<1>11. CASE Binary!Restart
  BY <1>11 DEF Binary!Restart, Binary!NoInstall, Binary!NoResolve
<1>12. CASE UNCHANGED binVars
  BY <1>12 DEF binVars
<1>. QED
  BY <1>1, <1>2, <1>3, <1>4, <1>5, <1>6, <1>7, <1>8, <1>9, <1>10, <1>11, <1>12 DEF Binary!BinNext

LEMMA NextBin == BinInv /\ [Binary!BinNext]_binVars => BinInv'
<1>. SUFFICES ASSUME BinInv, [Binary!BinNext]_binVars
     PROVE  (PartChecked /\ AgentChecked /\ Replaceable)'
  BY BinTypes DEF BinInv
<1>. USE UpdatesAssumption
     DEF BinInv, PartChecked, AgentChecked, Replaceable, Binary!BinTypeOK,
         Binary!Bytes, Binary!Releases,
         Binary!No, Binary!Bad, Binary!agent_others, Binary!cf_others
<1>1. CASE Binary!Verify
  BY <1>1 DEF Binary!Verify, Binary!NoInstall
<1>2. CASE Binary!Fetch
  BY <1>2 DEF Binary!Fetch
<1>3. CASE Binary!WritePart
  BY <1>3 DEF Binary!WritePart
<1>4. CASE Binary!CheckPart
  BY <1>4 DEF Binary!CheckPart
<1>5. CASE Binary!PutAgent
  BY <1>5 DEF Binary!PutAgent
<1>6. CASE Binary!SpawnAgent
  BY <1>6 DEF Binary!SpawnAgent
<1>7. CASE Binary!Ask
  BY <1>7 DEF Binary!Ask, Binary!Resolved, Binary!NoResolve, Binary!Says, Binary!NewEnough
<1>8. CASE Binary!Download
  BY <1>8 DEF Binary!Download, Binary!Resolved, Binary!NoResolve
<1>9. CASE Binary!PutManaged
  BY <1>9 DEF Binary!PutManaged
<1>10. CASE Binary!AskAgain
  BY <1>10 DEF Binary!AskAgain, Binary!Resolved, Binary!NoResolve, Binary!Says
<1>11. CASE Binary!Restart
  BY <1>11 DEF Binary!Restart, Binary!NoInstall, Binary!NoResolve
<1>12. CASE UNCHANGED binVars
  BY <1>12 DEF binVars
<1>. QED
  BY <1>1, <1>2, <1>3, <1>4, <1>5, <1>6, <1>7, <1>8, <1>9, <1>10, <1>11, <1>12 DEF Binary!BinNext

\* What is spawned is the agent, which is the pinned one or the one that was found.
LEMMA AgentIsVerified == BinInv => Binary!AgentWasVerified
BY UpdatesAssumption
DEF Binary!BinAssumption, BinInv, AgentChecked, Binary!AgentWasVerified, Binary!BinTypeOK, Binary!Releases,
    Binary!No

\* A step that replaces a cloudflared that told its age does not make it older.
NotOlder == resolve.said # Binary!No /\ managed' # managed => managed'.version >= managed.version

LEMMA NeverDowngradedStep == BinInv /\ [Binary!BinNext]_binVars => NotOlder
<1>. SUFFICES ASSUME BinInv, [Binary!BinNext]_binVars, resolve.said # Binary!No, managed' # managed
     PROVE  managed'.version >= managed.version
  BY DEF NotOlder
<1>. USE UpdatesAssumption DEF Binary!BinAssumption, BinInv, Binary!BinTypeOK, Binary!Bytes,
                               Binary!Releases, Binary!No
<1>1. CASE Binary!PutManaged
  BY <1>1 DEF Binary!PutManaged, Replaceable
<1>2. CASE UNCHANGED managed
  BY <1>2
<1>. QED
  BY <1>1, <1>2
  DEF Binary!BinNext, Binary!Verify, Binary!Fetch, Binary!WritePart, Binary!CheckPart, Binary!PutAgent,
      Binary!SpawnAgent, Binary!Ask, Binary!Download,
      Binary!AskAgain, Binary!Restart, Binary!agent_others, Binary!cf_others, binVars

-----------------------------------------------------------------------------
(* The installer *)

WithImage == {"volume", "remove", "run"}
After == WithImage \union {"health", "done"}

\* There is an image to start from the pull or the build on, and it is of some release.
ImageIsThere == (iPc \in WithImage => Install_sh!Image # 0) /\ (iPc \in After => got # 0)

(* A run in which nothing has failed never takes the ways out; it starts   *)
(* the image it has pulled, in the place of what it has removed.           *)
CleanRun ==
  clean =>
    /\ iPc \notin {"failed", "cut", "git", "build"}
    /\ iPc \in WithImage => got = pulled
    /\ iPc = "run" => container = 0
    /\ iPc \in {"health", "done"} => iRunning /\ container = got /\ volume = "data"

\* Nothing is done to the service before there is an image.
ServiceKept == served /\ got = 0 => iRunning

InstallerKinds ==
  /\ iPc \in Install_sh!Steps /\ tools \subseteq {"basics", "gnupg", "git"}
  /\ docker \in {"none", "installed", "up"} /\ key \in {"none", "empty", "good"}
  /\ {pulled, tagged, container, got} \subseteq Install_sh!Releases
  /\ volume \in {"none", "empty", "data"}
  /\ iRelease \in 1..Latest /\ runs \in 0..MaxRuns /\ faults \in 0..MaxFaults
InstallerFlags ==
  /\ clean \in BOOLEAN /\ served \in BOOLEAN /\ iRunning \in BOOLEAN
  /\ iRunning => container # 0

InstallerInv == InstallerKinds /\ InstallerFlags /\ ImageIsThere /\ CleanRun /\ ServiceKept

LEMMA InstallerTyped == InstallerKinds /\ InstallerFlags => Install_sh!TypeOK
BY DEF InstallerKinds, InstallerFlags, Install_sh!TypeOK

LEMMA InitInstaller == Install_sh!Init => InstallerInv
<1>. SUFFICES ASSUME Install_sh!Init PROVE InstallerInv
  OBVIOUS
<1>1. InstallerKinds
  BY UpdatesAssumption DEF Install_sh!InstallerAssumption, Install_sh!Init, InstallerKinds,
                           Install_sh!Steps, Install_sh!Over, Install_sh!Releases
<1>2. InstallerFlags
  BY DEF Install_sh!Init, InstallerFlags
<1>3. ImageIsThere /\ CleanRun /\ ServiceKept
  BY DEF Install_sh!Init, ImageIsThere, CleanRun, ServiceKept, WithImage, After
<1>. QED  BY <1>1, <1>2, <1>3 DEF InstallerInv

LEMMA InstallerKindsKept == InstallerKinds /\ [Install_sh!Next]_installerVars => InstallerKinds'
<1>. SUFFICES ASSUME InstallerKinds, [Install_sh!Next]_installerVars PROVE InstallerKinds'
  OBVIOUS
<1>. USE UpdatesAssumption
     DEF Install_sh!InstallerAssumption, InstallerKinds, Install_sh!Steps, Install_sh!Over,
         Install_sh!Releases,
         Install_sh!Image, Install_sh!machine, Install_sh!images, Install_sh!life, Install_sh!history,
         Install_sh!Go, Install_sh!Well, Install_sh!Badly
<1>1. CASE Install_sh!Start
  BY <1>1 DEF Install_sh!Start
<1>2. CASE Install_sh!WaitForNetwork
  BY <1>2 DEF Install_sh!WaitForNetwork
<1>3. CASE Install_sh!Basics
  <2>1. tools' \subseteq {"basics", "gnupg", "git"}
    BY <1>3 DEF Install_sh!Basics, Install_sh!AptInstall
  <2>2. UNCHANGED <<docker, key, pulled, tagged, container, got, volume, iRelease, runs>>
    BY <1>3 DEF Install_sh!Basics, Install_sh!AptInstall
  <2>3. iPc' \in Install_sh!Steps /\ faults' \in 0..MaxFaults
    BY <1>3 DEF Install_sh!Basics, Install_sh!AptInstall
  <2>. QED  BY <2>1, <2>2, <2>3
<1>4. CASE Install_sh!LookForDocker
  BY <1>4 DEF Install_sh!LookForDocker
<1>5. CASE Install_sh!Prerequisites
  <2>1. tools' \subseteq {"basics", "gnupg", "git"}
    BY <1>5 DEF Install_sh!Prerequisites, Install_sh!AptInstall
  <2>2. UNCHANGED <<docker, key, pulled, tagged, container, got, volume, iRelease, runs>>
    BY <1>5 DEF Install_sh!Prerequisites, Install_sh!AptInstall
  <2>3. iPc' \in Install_sh!Steps /\ faults' \in 0..MaxFaults
    BY <1>5 DEF Install_sh!Prerequisites, Install_sh!AptInstall
  <2>. QED  BY <2>1, <2>2, <2>3
<1>6. CASE Install_sh!ImportKey
  BY <1>6 DEF Install_sh!ImportKey
<1>7. CASE Install_sh!InstallPackages
  BY <1>7 DEF Install_sh!InstallPackages
<1>8. CASE Install_sh!InstallDockerIo
  BY <1>8 DEF Install_sh!InstallDockerIo
<1>9. CASE Install_sh!StartDaemon
  BY <1>9 DEF Install_sh!StartDaemon
<1>10. CASE Install_sh!PullImage
  BY <1>10 DEF Install_sh!PullImage
<1>11. CASE Install_sh!InstallGit
  <2>1. tools' \subseteq {"basics", "gnupg", "git"}
    BY <1>11 DEF Install_sh!InstallGit, Install_sh!AptInstall
  <2>2. UNCHANGED <<docker, key, pulled, tagged, container, got, volume, iRelease, runs>>
    BY <1>11 DEF Install_sh!InstallGit, Install_sh!AptInstall
  <2>3. iPc' \in Install_sh!Steps /\ faults' \in 0..MaxFaults
    BY <1>11 DEF Install_sh!InstallGit, Install_sh!AptInstall
  <2>. QED  BY <2>1, <2>2, <2>3
<1>12. CASE Install_sh!BuildFromSource
  BY <1>12 DEF Install_sh!BuildFromSource
<1>13. CASE Install_sh!EnsureVolume
  BY <1>13 DEF Install_sh!EnsureVolume
<1>14. CASE Install_sh!RemoveOldContainer
  BY <1>14 DEF Install_sh!RemoveOldContainer
<1>15. CASE Install_sh!RunContainer
  BY <1>15 DEF Install_sh!RunContainer
<1>16. CASE Install_sh!WaitForHealth
  BY <1>16 DEF Install_sh!WaitForHealth
<1>17. CASE Install_sh!CutOff
  BY <1>17 DEF Install_sh!CutOff
<1>18. CASE Install_sh!NewRelease
  BY <1>18 DEF Install_sh!NewRelease
<1>19. CASE UNCHANGED installerVars
  BY <1>19 DEF installerVars
<1>. QED
  BY <1>1, <1>2, <1>3, <1>4, <1>5, <1>6, <1>7, <1>8, <1>9, <1>10, <1>11, <1>12, <1>13, <1>14, <1>15,
     <1>16, <1>17, <1>18, <1>19
  DEF Install_sh!Next, Install_sh!Step

LEMMA InstallerFlagsKept == InstallerFlags /\ ImageIsThere /\ [Install_sh!Next]_installerVars => InstallerFlags'
<1>. SUFFICES ASSUME InstallerFlags /\ ImageIsThere, [Install_sh!Next]_installerVars PROVE InstallerFlags'
  OBVIOUS
<1>. USE DEF InstallerFlags, ImageIsThere, WithImage,
            Install_sh!Image, Install_sh!machine, Install_sh!images, Install_sh!life, Install_sh!history,
            Install_sh!Go, Install_sh!Well, Install_sh!Badly
<1>1. CASE Install_sh!Start
  BY <1>1 DEF Install_sh!Start
<1>2. CASE Install_sh!WaitForNetwork
  BY <1>2 DEF Install_sh!WaitForNetwork
<1>3. CASE Install_sh!Basics
  BY <1>3 DEF Install_sh!Basics, Install_sh!AptInstall
<1>4. CASE Install_sh!LookForDocker
  BY <1>4 DEF Install_sh!LookForDocker
<1>5. CASE Install_sh!Prerequisites
  BY <1>5 DEF Install_sh!Prerequisites, Install_sh!AptInstall
<1>6. CASE Install_sh!ImportKey
  BY <1>6 DEF Install_sh!ImportKey
<1>7. CASE Install_sh!InstallPackages
  BY <1>7 DEF Install_sh!InstallPackages
<1>8. CASE Install_sh!InstallDockerIo
  BY <1>8 DEF Install_sh!InstallDockerIo
<1>9. CASE Install_sh!StartDaemon
  BY <1>9 DEF Install_sh!StartDaemon
<1>10. CASE Install_sh!PullImage
  BY <1>10 DEF Install_sh!PullImage
<1>11. CASE Install_sh!InstallGit
  BY <1>11 DEF Install_sh!InstallGit, Install_sh!AptInstall
<1>12. CASE Install_sh!BuildFromSource
  BY <1>12 DEF Install_sh!BuildFromSource
<1>13. CASE Install_sh!EnsureVolume
  BY <1>13 DEF Install_sh!EnsureVolume
<1>14. CASE Install_sh!RemoveOldContainer
  BY <1>14 DEF Install_sh!RemoveOldContainer
<1>15. CASE Install_sh!RunContainer
  <2>1. iRunning' \in BOOLEAN /\ clean' \in BOOLEAN /\ served' \in BOOLEAN
    BY <1>15 DEF Install_sh!RunContainer
  <2>2. iRunning' => container' # 0
    BY <1>15 DEF Install_sh!RunContainer
  <2>. QED  BY <2>1, <2>2
<1>16. CASE Install_sh!WaitForHealth
  BY <1>16 DEF Install_sh!WaitForHealth
<1>17. CASE Install_sh!CutOff
  BY <1>17 DEF Install_sh!CutOff
<1>18. CASE Install_sh!NewRelease
  BY <1>18 DEF Install_sh!NewRelease
<1>19. CASE UNCHANGED installerVars
  BY <1>19 DEF installerVars
<1>. QED
  BY <1>1, <1>2, <1>3, <1>4, <1>5, <1>6, <1>7, <1>8, <1>9, <1>10, <1>11, <1>12, <1>13, <1>14, <1>15,
     <1>16, <1>17, <1>18, <1>19
  DEF Install_sh!Next, Install_sh!Step

LEMMA InstallerSteps ==
  InstallerInv /\ [Install_sh!Next]_installerVars => (ImageIsThere /\ CleanRun /\ ServiceKept)'
<1>. SUFFICES ASSUME InstallerInv, [Install_sh!Next]_installerVars
     PROVE  (ImageIsThere /\ CleanRun /\ ServiceKept)'
  OBVIOUS
<1>. USE DEF InstallerInv, InstallerKinds, InstallerFlags, Install_sh!Releases, Install_sh!Over,
             ImageIsThere, CleanRun, ServiceKept, WithImage, After,
            Install_sh!Image, Install_sh!machine, Install_sh!images, Install_sh!life, Install_sh!history,
            Install_sh!Go, Install_sh!Well, Install_sh!Badly
<1>1. CASE Install_sh!Start
  BY <1>1 DEF Install_sh!Start
<1>2. CASE Install_sh!WaitForNetwork
  BY <1>2 DEF Install_sh!WaitForNetwork
<1>3. CASE Install_sh!Basics
  BY <1>3 DEF Install_sh!Basics, Install_sh!AptInstall
<1>4. CASE Install_sh!LookForDocker
  BY <1>4 DEF Install_sh!LookForDocker
<1>5. CASE Install_sh!Prerequisites
  BY <1>5 DEF Install_sh!Prerequisites, Install_sh!AptInstall
<1>6. CASE Install_sh!ImportKey
  BY <1>6 DEF Install_sh!ImportKey
<1>7. CASE Install_sh!InstallPackages
  BY <1>7 DEF Install_sh!InstallPackages
<1>8. CASE Install_sh!InstallDockerIo
  BY <1>8 DEF Install_sh!InstallDockerIo
<1>9. CASE Install_sh!StartDaemon
  BY <1>9 DEF Install_sh!StartDaemon
<1>10. CASE Install_sh!PullImage
  BY <1>10 DEF Install_sh!PullImage
<1>11. CASE Install_sh!InstallGit
  BY <1>11 DEF Install_sh!InstallGit, Install_sh!AptInstall
<1>12. CASE Install_sh!BuildFromSource
  BY <1>12 DEF Install_sh!BuildFromSource
<1>13. CASE Install_sh!EnsureVolume
  BY <1>13 DEF Install_sh!EnsureVolume
<1>14. CASE Install_sh!RemoveOldContainer
  BY <1>14 DEF Install_sh!RemoveOldContainer
<1>15. CASE Install_sh!RunContainer
  <2>1. got # 0 /\ (clean => got = pulled /\ container = 0) /\ UNCHANGED <<got, pulled, tagged, served>>
    BY <1>15 DEF Install_sh!RunContainer
  <2>2. CASE /\ iPc' = "health" /\ container' = Install_sh!Image /\ iRunning' = TRUE
             /\ volume' = "data" /\ UNCHANGED clean
    BY <2>1, <2>2
  <2>3. CASE iPc' = "failed" /\ clean' = FALSE /\ UNCHANGED iRunning
    BY <2>1, <2>3
  <2>4. CASE container # 0 /\ iPc' = "failed" /\ UNCHANGED <<iRunning, clean>>
    BY <2>1, <2>4
  <2>. QED  BY <1>15, <2>2, <2>3, <2>4 DEF Install_sh!RunContainer
<1>16. CASE Install_sh!WaitForHealth
  BY <1>16 DEF Install_sh!WaitForHealth
<1>17. CASE Install_sh!CutOff
  BY <1>17 DEF Install_sh!CutOff
<1>18. CASE Install_sh!NewRelease
  BY <1>18 DEF Install_sh!NewRelease
<1>19. CASE UNCHANGED installerVars
  BY <1>19 DEF installerVars
<1>. QED
  BY <1>1, <1>2, <1>3, <1>4, <1>5, <1>6, <1>7, <1>8, <1>9, <1>10, <1>11, <1>12, <1>13, <1>14, <1>15,
     <1>16, <1>17, <1>18, <1>19
  DEF Install_sh!Next, Install_sh!Step

LEMMA NextInstaller == InstallerInv /\ [Install_sh!Next]_installerVars => InstallerInv'
BY InstallerKindsKept, InstallerFlagsKept, InstallerSteps DEF InstallerInv

LEMMA RecoversWhenRerun == InstallerInv => Install_sh!RerunRecovers
BY InstallerTyped
DEF InstallerInv, Install_sh!RerunRecovers, Install_sh!Steps, Install_sh!Over, ImageIsThere, CleanRun,
    ServiceKept, WithImage, After

-----------------------------------------------------------------------------
(* The composition *)

ComposedInv == UpdaterInv /\ CheckInv /\ Modal!TypeOK /\ BinInv /\ InstallerInv

allVars == <<vars, checkVars, modalVars, binVars, installerVars, scene>>

LEMMA InitComposed == MCInit => ComposedInv
BY InitUpdater, InitCheck, InitModal, InitBin, InitInstaller DEF MCInit, ComposedInv

LEMMA EachSteps ==
  [MCNext]_allVars =>
    /\ [Next]_vars /\ [Chosen!Next]_checkVars /\ [Modal!Next]_modalVars
    /\ [Binary!BinNext]_binVars /\ [Install_sh!Next]_installerVars
BY DEF MCNext, allVars

LEMMA NextComposed == ComposedInv /\ [MCNext]_allVars => ComposedInv'
BY EachSteps, NextUpdater, NextCheck, NextModal, NextBin, NextInstaller DEF ComposedInv

LEMMA ComposedAlways == MCSpec => []ComposedInv
BY InitComposed, NextComposed, PTL DEF MCSpec, allVars

(* The update slot has at most one holder, and its lock file is on disk    *)
(* exactly as long as somebody holds it, unless two installs were inside   *)
(* acquireLock at once, a lock went stale under its holder, or the holder  *)
(* died (updater.ts acquireLock, releaseLock and apply-update.sh's bail).  *)
THEOREM OneInstallAtATime == MCSpec => []SlotHeld
<1>1. ComposedInv => SlotHeld
  BY SlotIsHeld, InstallerTyped DEF ComposedInv, SlotHeld, UpdaterInv, CheckInv, BinInv, InstallerInv
<1>. QED  BY ComposedAlways, <1>1, PTL

(* What is extracted is the archive whose checksum was right, what a check *)
(* installs is newer than what runs and allowed by the settings of that    *)
(* moment, and a cloudflared that tells its version is never replaced by   *)
(* an older one (triggerInstall, triggerCheck, cloudflared/binary.ts).     *)
THEOREM InstallsWhatWasChosen == MCSpec => InstallsAsChosen
<1>1. ComposedInv /\ [MCNext]_allVars => [VerifiedStep]_vars
  BY ExtractsVerifiedStep DEF ComposedInv
<1>2. ComposedInv /\ [MCNext]_allVars => [PickedAsSet]_checkVars
  BY InstallsAsSetStep, EachSteps DEF ComposedInv
<1>3. ComposedInv /\ [MCNext]_allVars =>
        [NotOlder]_binVars
  BY NeverDowngradedStep, EachSteps DEF ComposedInv
<1>4. MCSpec => ExtractsVerified
  BY ComposedAlways, <1>1, PTL DEF MCSpec, allVars, ExtractsVerified, VerifiedStep
<1>5. MCSpec => Chosen!InstallsAsSet
  BY ComposedAlways, <1>2, PTL
  DEF MCSpec, allVars, Chosen!InstallsAsSet, PickedAsSet, checkVars, Chosen!vars, Chosen!None
<1>6. MCSpec => Binary!NeverDowngraded
  BY ComposedAlways, <1>3, PTL DEF MCSpec, allVars, Binary!NeverDowngraded, NotOlder, binVars, Binary!bin_vars
<1>. QED  BY <1>4, <1>5, <1>6 DEF InstallsAsChosen

(* Whatever is downloaded, and wherever a boot is cut off, the agent is    *)
(* started from the bytes its release pins, or from the file that was      *)
(* there before a boot that could not install it                           *)
(* (playit-binary.ts:133-142, bootstrap.ts:200-207).                       *)
THEOREM AgentAlwaysVerified == MCSpec => []AgentWasVerified
<1>1. ComposedInv => AgentWasVerified
  BY AgentIsVerified DEF ComposedInv, AgentWasVerified
<1>. QED  BY ComposedAlways, <1>1, PTL

(* The installer may be run again after any failure: a run in which        *)
(* nothing fails ends with the release it obtained in service on the       *)
(* volume there was, and one that ends before it has an image leaves the   *)
(* service as it was (install/lxc-install.sh, "re-runnable any time").     *)
THEOREM RerunAlwaysRecovers == MCSpec => []RerunRecovers
<1>1. ComposedInv => RerunRecovers
  BY RecoversWhenRerun DEF ComposedInv, RerunRecovers
<1>. QED  BY ComposedAlways, <1>1, PTL
=============================================================================
