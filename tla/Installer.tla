------------------------------ MODULE Installer ------------------------------
(***************************************************************************)
(* install/lxc-install.sh: the one-line installer, which promises to be    *)
(* "robust + self-recovering" and "re-runnable any time (idempotent)".     *)
(*                                                                         *)
(* A machine and any number of runs of the script on it, one after the     *)
(* other.  A command may fail, the run may be cut off between two          *)
(* commands, and new releases appear while it works.  What a command       *)
(* leaves behind stays for the next run: a half-written key, an image      *)
(* pulled long ago, a container that was created but never started.        *)
(***************************************************************************)
EXTENDS Naturals

CONSTANTS
  Latest,   \* releases are 1..Latest; the registry and the main branch hold the same one
  MaxRuns,  \* bounds the runs of the script
  MaxFaults \* bounds the commands that fail

InstallerAssumption == Latest \in Nat \ {0} /\ MaxRuns \in Nat /\ MaxFaults \in Nat

VARIABLES
  pc,        \* where the run is
  tools,     \* the packages that are installed: "basics", "gnupg", "git"
  docker,    \* "none", "installed", "up"
  key,       \* /etc/apt/keyrings/docker.gpg: "none", "empty", "good"
  pulled,    \* the release of the image under its registry name, 0 without one
  tagged,    \* the release of cloudgate:installed
  volume,    \* the data volume: "none", "empty", "data" once CloudGate has run on it
  container, \* the release it was made of, 0 without one
  running,   \* it runs
  release,   \* the newest release
  got,       \* history: the release this run has obtained
  runs, faults,
  clean,     \* history: no command of this run has failed
  served     \* history: the container ran when this run began

vars == <<pc, tools, docker, key, pulled, tagged, volume, container, running, release, got, runs,
          faults, clean, served>>

Over == {"idle", "done", "failed", "cut"}
Steps == Over \union {"network", "basics", "docker", "prerequisites", "key", "packages", "fallback", "daemon",
                      "pull", "git", "build", "volume", "remove", "run", "health"}
Releases == 0..Latest

TypeOK ==
  /\ pc \in Steps /\ tools \subseteq {"basics", "gnupg", "git"}
  /\ docker \in {"none", "installed", "up"} /\ key \in {"none", "empty", "good"}
  /\ pulled \in Releases /\ tagged \in Releases /\ container \in Releases /\ got \in Releases
  /\ volume \in {"none", "empty", "data"} /\ (running => container # 0)
  /\ release \in 1..Latest /\ runs \in 0..MaxRuns /\ faults \in 0..MaxFaults
  /\ clean \in BOOLEAN /\ served \in BOOLEAN

Init ==
  /\ pc = "idle" /\ tools = {} /\ docker \in {"none", "up"} /\ key = "none"
  /\ pulled = 0 /\ tagged = 0 /\ volume = "none" /\ container = 0 /\ running = FALSE
  /\ release = 1 /\ got = 0 /\ runs = 0 /\ faults = 0 /\ clean = TRUE /\ served = FALSE

machine == <<tools, docker, key>>
images == <<pulled, tagged, got>>
life == <<volume, container, running>>
history == <<release, runs, served>>

Go(step) == pc' = step /\ UNCHANGED <<runs, release, served>>
Well(step) == Go(step) /\ UNCHANGED <<faults, clean>>
\* A command fails, and the script goes on at step.
Badly(step) == Go(step) /\ faults < MaxFaults /\ faults' = faults + 1 /\ clean' = FALSE

(***************************************************************************)
(* The machine                                                             *)
(***************************************************************************)
\* The script is started: as root, on a distribution it knows or tries anyway.
Start ==
  /\ pc \in Over /\ runs < MaxRuns
  /\ pc' = "network" /\ runs' = runs + 1
  /\ got' = 0 /\ clean' = TRUE /\ served' = running
  /\ UNCHANGED <<machine, pulled, tagged, life, release, faults>>

\* wait_for_network gives up after twelve tries.
WaitForNetwork ==
  /\ pc = "network"
  /\ Well("basics") \/ Badly("failed")
  /\ UNCHANGED <<machine, images, life>>

\* apt_install_if_missing installs what is not there, and tries twice.
AptInstall(pkg, next, otherwise) ==
  \/ pkg \in tools /\ Well(next) /\ UNCHANGED tools
  \/ pkg \notin tools /\ Well(next) /\ tools' = tools \union {pkg}
  \/ pkg \notin tools /\ Badly(otherwise) /\ UNCHANGED tools

Basics ==
  /\ pc = "basics"
  /\ AptInstall("basics", "docker", "failed")
  /\ UNCHANGED <<docker, key, images, life>>

\* install_docker has nothing to do where docker answers.
LookForDocker ==
  /\ pc = "docker"
  /\ Well(IF docker = "up" THEN "pull" ELSE "prerequisites")
  /\ UNCHANGED <<machine, images, life>>

Prerequisites ==
  /\ pc = "prerequisites"
  /\ AptInstall("gnupg", "key", "failed")
  /\ UNCHANGED <<docker, key, images, life>>

\* A key that is there is taken for good; a download that fails leaves no file, or an empty one.
ImportKey ==
  /\ pc = "key"
  /\ \/ key # "none" /\ Well("packages") /\ UNCHANGED key
     \/ key = "none" /\ Well("packages") /\ key' = "good"
     \/ key = "none" /\ Badly("failed") /\ key' \in {"none", "empty"}
  /\ UNCHANGED <<tools, docker, images, life>>

\* A mistaken InstallPackages, without the way out that follows.
InstallPackagesOrFail ==
  /\ pc = "packages"
  /\ \/ (docker # "none" \/ key = "good") /\ Well("daemon") /\ docker' = (IF docker = "none" THEN "installed" ELSE docker)
     \/ docker = "none" /\ key # "good" /\ Well("failed") /\ UNCHANGED docker
     \/ docker = "none" /\ Badly("fallback") /\ UNCHANGED docker
  /\ UNCHANGED <<tools, key, images, life>>

\* Docker's own packages need its key; the distribution's docker.io does not.
InstallPackages ==
  /\ pc = "packages"
  /\ \/ (docker # "none" \/ key = "good") /\ Well("daemon") /\ docker' = (IF docker = "none" THEN "installed" ELSE docker)
     \/ docker = "none" /\ key # "good" /\ Well("fallback") /\ UNCHANGED docker
     \/ docker = "none" /\ Badly("fallback") /\ UNCHANGED docker
  /\ UNCHANGED <<tools, key, images, life>>

InstallDockerIo ==
  /\ pc = "fallback"
  /\ \/ Well("daemon") /\ docker' = "installed"
     \/ Badly("failed") /\ UNCHANGED docker
  /\ UNCHANGED <<tools, key, images, life>>

\* The daemon is enabled and given twenty seconds.
StartDaemon ==
  /\ pc = "daemon"
  /\ \/ Well("pull") /\ docker' = "up"
     \/ Badly("failed") /\ UNCHANGED docker
  /\ UNCHANGED <<tools, key, images, life>>

(***************************************************************************)
(* The image                                                               *)
(***************************************************************************)
PullImage ==
  /\ pc = "pull"
  /\ \/ Well("volume") /\ pulled' = release /\ tagged' = release /\ got' = release
     \/ Badly("git") /\ UNCHANGED images
  /\ UNCHANGED <<machine, life>>

InstallGit ==
  /\ pc = "git"
  /\ AptInstall("git", "build", "failed")
  /\ UNCHANGED <<docker, key, images, life>>

\* git clone and docker build.
BuildFromSource ==
  /\ pc = "build"
  /\ \/ Well("volume") /\ tagged' = release /\ got' = release /\ UNCHANGED pulled
     \/ Badly("failed") /\ UNCHANGED images
  /\ UNCHANGED <<machine, life>>

(***************************************************************************)
(* The container                                                           *)
(***************************************************************************)
EnsureVolume ==
  /\ pc = "volume"
  /\ \/ Well("remove") /\ volume' = (IF volume = "none" THEN "empty" ELSE volume)
     \/ volume = "none" /\ Badly("failed") /\ UNCHANGED volume
  /\ UNCHANGED <<machine, images, container, running>>

\* docker rm -f; one that fails is no reason to stop.
RemoveOldContainer ==
  /\ pc = "remove"
  /\ \/ Well("run") /\ container' = 0 /\ running' = FALSE
     \/ container # 0 /\ Badly("run") /\ UNCHANGED <<container, running>>
  /\ UNCHANGED <<machine, images, volume>>

\* The image under its registry name is preferred whenever there is one.
Image == IF pulled # 0 THEN pulled ELSE tagged

\* docker run: the name must be free; a port that is taken leaves a container that does not run.
RunContainer ==
  /\ pc = "run"
  /\ \/ container = 0 /\ Well("health") /\ container' = Image /\ running' = TRUE /\ volume' = "data"
     \/ container # 0 /\ Well("failed") /\ UNCHANGED life
     \/ container = 0 /\ Badly("failed") /\ container' \in {0, Image} /\ UNCHANGED <<running, volume>>
  /\ UNCHANGED <<machine, images>>

\* Not being healthy after three minutes is not an error: the recovery UI may be.
WaitForHealth ==
  /\ pc = "health"
  /\ Well("done") \/ Badly("done")
  /\ UNCHANGED <<machine, images, life>>

(***************************************************************************)
(* What happens to a run                                                   *)
(***************************************************************************)
\* The terminal is closed, or the machine goes down; docker brings a running container back.
CutOff ==
  /\ pc \notin Over /\ faults < MaxFaults
  /\ pc' = "cut" /\ faults' = faults + 1 /\ clean' = FALSE
  /\ UNCHANGED <<machine, images, life, history>>

NewRelease ==
  /\ release < Latest /\ release' = release + 1
  /\ UNCHANGED <<pc, machine, images, life, runs, faults, clean, served>>

Step ==
  \/ WaitForNetwork \/ Basics
  \/ LookForDocker \/ Prerequisites \/ ImportKey \/ InstallPackages \/ InstallDockerIo \/ StartDaemon
  \/ PullImage \/ InstallGit \/ BuildFromSource
  \/ EnsureVolume \/ RemoveOldContainer \/ RunContainer \/ WaitForHealth

Next == Start \/ Step \/ CutOff \/ NewRelease

Spec == Init /\ [][Next]_vars

(***************************************************************************)
(* Properties                                                              *)
(***************************************************************************)
\* Re-running is safe: whatever earlier runs have left, a run in which nothing fails ends with
\* the release it obtained in service, on the volume there was; and a run that ends before it
\* has an image to start leaves a service that was up as it was.
RerunRecovers ==
  /\ TypeOK
  /\ (pc \in {"done", "failed"} /\ clean) => pc = "done" /\ running /\ container = got /\ volume = "data"
  /\ (pc \in Over /\ served /\ got = 0 /\ runs > 0) => running

=============================================================================
