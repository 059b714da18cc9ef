----------------------------- MODULE MCUpdates -----------------------------
(***************************************************************************)
(* Updates around the script, for TLC: the updater service, the release    *)
(* check that feeds it, the modal that watches it, the binaries a release  *)
(* brings along, and the installer that may be run again at any time.  The *)
(* five modules share no state, so one of them, chosen at the start, runs  *)
(* while the others stay at their initial states: every behaviour of each  *)
(* is checked, and the states add up instead of multiplying.  Fairness     *)
(* speaks of the one that runs.                                            *)
(***************************************************************************)
EXTENDS Updater, Sequences

CONSTANTS Published, Checks, MaxSaves, MaxChecks,
          Newest, MaxModals,
          System, MaxRestarts,
          Latest, MaxRuns, MaxFaults

VARIABLES scene,
          published, rRunning, stored, mem, loaded, saving, rCheck, offer, rTarget, saves, checks,
          up, mRunning, server, mTarget, marker, mInstalls, page, modal, poll, post,
          release, agent, found, part, install, spawned, managed, resolve, using, restarts,
          iPc, tools, docker, key, pulled, tagged, volume, container, iRunning, iRelease, got,
          runs, faults, clean, served

Chosen == INSTANCE ReleaseCheck WITH running <- rRunning, check <- rCheck, target <- rTarget
Modal == INSTANCE UpdateModal WITH
           MaxInstalls <- MaxModals, running <- mRunning, target <- mTarget, installs <- mInstalls
Binary == INSTANCE Binaries
Install_sh == INSTANCE Installer WITH pc <- iPc, running <- iRunning, release <- iRelease

ASSUME UpdatesAssumption ==
  Chosen!CheckAssumption /\ Modal!ModalAssumption /\ Binary!BinAssumption /\ Install_sh!InstallerAssumption

checkVars == <<published, rRunning, stored, mem, loaded, saving, rCheck, offer, rTarget, saves, checks>>
modalVars == <<up, mRunning, server, mTarget, marker, mInstalls, page, modal, poll, post>>
binVars == <<release, agent, found, part, install, spawned, managed, resolve, using, restarts>>
installerVars == <<iPc, tools, docker, key, pulled, tagged, volume, container, iRunning, iRelease,
                   got, runs, faults, clean, served>>

\* What GitHub comes to list, in the order of publication: a release candidate of the
\* number of the release after it, a nightly build, and a backport published last.
Rel(number, tag, flag) == [number |-> number, tag |-> tag, flag |-> flag]
MCPublished ==
  <<Rel(10, "", FALSE), Rel(11, "nightly", TRUE), Rel(11, "rc", FALSE), Rel(11, "", FALSE), Rel(10, "", TRUE)>>

MCInit ==
  /\ scene \in {"updater", "check", "modal", "binaries", "installer"}
  /\ Init /\ Chosen!Init /\ Modal!Init /\ Binary!BinInit /\ Install_sh!Init
  /\ scene # "check" => published = 1
  /\ scene # "modal" => marker = "none"
  /\ scene # "binaries" => release = 1 /\ agent = Binary!No
  /\ scene # "installer" => docker = "none"

MCNext ==
  /\ UNCHANGED scene
  /\ \/ scene = "updater" /\ Next
        /\ UNCHANGED <<checkVars, modalVars, binVars, installerVars>>
     \/ scene = "check" /\ Chosen!Next
        /\ UNCHANGED <<vars, modalVars, binVars, installerVars>>
     \/ scene = "modal" /\ Modal!Next
        /\ UNCHANGED <<vars, checkVars, binVars, installerVars>>
     \/ scene = "binaries" /\ Binary!BinNext
        /\ UNCHANGED <<vars, checkVars, modalVars, installerVars>>
     \/ scene = "installer" /\ Install_sh!Next
        /\ UNCHANGED <<vars, checkVars, modalVars, binVars>>

\* Updater's and UpdateModal's fairness, each in its scene.
MCFairness ==
  /\ \A r \in Install :
       WF_vars(scene = "updater" /\ InstallStep(r)) /\ WF_vars(scene = "updater" /\ ScriptStep(r))
  /\ WF_vars(scene = "updater" /\ StartCheck) /\ WF_vars(scene = "updater" /\ CheckDone)
  /\ WF_vars(scene = "updater" /\ BackendUp)
  /\ WF_modalVars(scene = "modal" /\ Modal!Server) /\ WF_modalVars(scene = "modal" /\ Modal!AnswerPost)
  /\ WF_modalVars(scene = "modal" /\ Modal!Dropped) /\ WF_modalVars(scene = "modal" /\ Modal!Poll)
  /\ WF_modalVars(scene = "modal" /\ Modal!PollStatus)

MCSpec ==
  MCInit /\ [][MCNext]_<<vars, checkVars, modalVars, binVars, installerVars, scene>> /\ MCFairness

-----------------------------------------------------------------------------
\* The update slot, its lock file and whoever holds them agree, unless two raced for it
\* (OneUnlessRaced, LockMatchesHolder of Updater); and every variable has its type.
SlotHeld ==
  /\ TypeOK /\ Chosen!TypeOK /\ Modal!TypeOK /\ Binary!BinTypeOK /\ Install_sh!TypeOK
  /\ OneUnlessRaced /\ LockMatchesHolder

\* What is put in place is what was chosen and checked: the archive that was verified
\* (ExtractsVerified), a release that the channel and mode of that moment allow
\* (ReleaseCheck), and never an older cloudflared than the one in /data that told its age
\* (Binaries).
InstallsAsChosen == ExtractsVerified /\ Chosen!InstallsAsSet /\ Binary!NeverDowngraded

\* An install comes to an end, and so does the status that reports it (Updater).
UpdatesEnd == InstallsEnd /\ BusyEnds

\* The modal reaches an outcome (UpdateModal); no boot puts an agent in place that its
\* release does not pin (Binaries); the installer can be run again (Installer).
ModalEnds == Modal!ModalEnds
AgentWasVerified == Binary!AgentWasVerified
RerunRecovers == Install_sh!RerunRecovers

=============================================================================
