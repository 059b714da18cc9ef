----------------------------- MODULE Binaries -----------------------------
(***************************************************************************)
(* The two programs CloudGate downloads for itself: playit-agent           *)
(* (services/playit-binary.ts, run by bootstrap.ts, spawned by             *)
(* playit/process.ts) and cloudflared (cloudflared/binary.ts, resolved     *)
(* when the first tunnel starts).                                          *)
(*                                                                         *)
(* Each release of CloudGate pins one version of each, here by its own     *)
(* number; /data, and with it both files, outlives updates, rollbacks and  *)
(* deaths in the middle of a download.  The agent is known by its hash     *)
(* alone, cloudflared by the version it says it has.                       *)
(*                                                                         *)
(* The bytes of a file are the release whose pin they match; Bad are any   *)
(* others (a download that was tampered with or went wrong, a file cut     *)
(* off by a death, one that somebody dropped there), and No is no file.    *)
(***************************************************************************)
EXTENDS Integers

CONSTANTS Newest,      \* releases are 1..Newest
          System,      \* the version of the image's own cloudflared
          MaxRestarts  \* bounds the deaths, updates and rollbacks

BinAssumption == Newest \in Nat \ {0} /\ MaxRestarts \in Nat

VARIABLES
  release,  \* the release that runs
  agent,    \* /data/playit/bin/playit-agent
  found,    \* history: the bytes that were there when the boot began
  part,     \* the file beside it that a download is written to
  install,  \* ensurePlayitBinary: its step, and what was downloaded
  spawned,  \* the bytes the last agent was started from
  managed,  \* /data/cloudflared/bin/cloudflared: its version, and whether it runs here
  resolve,  \* resolveCloudflaredBin: its step, what to fall back on, and what managed said
  using,    \* its cached answer
  restarts

bin_vars == <<release, agent, found, part, install, spawned, managed, resolve, using, restarts>>

Releases == 1..Newest
Bad == 0
No == -1
Bytes == No..Newest
NoInstall == [at |-> "verify", got |-> No]
NoResolve == [at |-> "ask", fallback |-> "none", said |-> No]
Answers == {"none", "managed", "system"}

BinTypeOK ==
  /\ release \in Releases
  /\ agent \in Bytes /\ found \in Bytes /\ part \in Bytes /\ spawned \in Bytes
  /\ install \in [at : {"verify", "fetch", "write", "check", "rename", "over"}, got : Bytes]
  /\ managed \in [version : Bytes, runs : BOOLEAN]
  /\ resolve \in [at : {"ask", "download", "rename", "again", "over"}, fallback : Answers, said : Bytes]
  /\ using \in Answers /\ restarts \in 0..MaxRestarts

-----------------------------------------------------------------------------
(* playit-agent, at every boot *)

agent_others == <<release, found, spawned, managed, resolve, using, restarts>>

\* A file with the pinned hash is left alone.
Verify ==
  /\ install.at = "verify"
  /\ install' = [NoInstall EXCEPT !.at = IF agent = release THEN "over" ELSE "fetch"]
  /\ UNCHANGED <<agent, part, agent_others>>

\* The download, which may fail or be switched off; the boot then goes on without.
Fetch ==
  /\ install.at = "fetch"
  /\ install' \in {[at |-> "write", got |-> release], [at |-> "write", got |-> Bad],
                   [at |-> "over", got |-> No]}
  /\ UNCHANGED <<agent, part, agent_others>>

WritePart ==
  /\ install.at = "write" /\ part' = install.got
  /\ install' = [install EXCEPT !.at = "check"]
  /\ UNCHANGED <<agent, agent_others>>

\* Mutant of CheckPart: the file is put in place, and checked when it is there
CheckInPlace ==
  /\ install.at = "check" /\ agent' = part
  /\ install' = [install EXCEPT !.at = IF part = release THEN "rename" ELSE "over"]
  /\ UNCHANGED <<part, agent_others>>

CheckPart ==
  /\ install.at = "check"
  /\ IF part = release
     THEN install' = [install EXCEPT !.at = "rename"] /\ UNCHANGED part
     ELSE install' = [install EXCEPT !.at = "over"] /\ part' = No
  /\ UNCHANGED <<agent, agent_others>>

PutAgent ==
  /\ install.at = "rename" /\ agent' = part /\ part' = No
  /\ install' = [install EXCEPT !.at = "over"]
  /\ UNCHANGED agent_others

\* PlayitProcess: whatever is at the path, once the boot is over, which an install that
\* failed or was switched off does not stop.
SpawnAgent ==
  /\ install.at = "over" /\ agent # No /\ spawned' = agent
  /\ UNCHANGED <<release, agent, found, part, install, managed, resolve, using, restarts>>

-----------------------------------------------------------------------------
(* cloudflared, when it is needed *)

cf_others == <<release, agent, found, part, install, spawned, restarts>>

\* readVersion: nothing, whatever there is, when the program does not answer in 10 s
Says(m) == {No} \cup (IF m.runs THEN {m.version} ELSE {})
Resolved(answer) == /\ using' = answer /\ resolve' = [NoResolve EXCEPT !.at = "over"]

\* The versions that both files report; where neither does there is nothing to update.
NewEnough(v) == v # No /\ v >= release
Ask ==
  /\ resolve.at = "ask" /\ install.at = "over"
  /\ \E m \in Says(managed), s \in {No, System} :
       \/ NewEnough(m) /\ Resolved("managed")
       \/ ~NewEnough(m) /\ NewEnough(s) /\ Resolved("system")
       \/ m = No /\ s = No /\ Resolved("system")
       \/ /\ ~NewEnough(m) /\ ~NewEnough(s) /\ (m # No \/ s # No) /\ UNCHANGED using
          /\ resolve' = [at |-> "download", said |-> m,
                         fallback |-> IF m # No THEN "managed" ELSE "system"]
  /\ UNCHANGED <<managed, cf_others>>

\* Bytes of another hash are discarded, and so is a download that fails or is switched off.
Download ==
  /\ resolve.at = "download"
  /\ \/ resolve' = [resolve EXCEPT !.at = "rename"] /\ UNCHANGED using
     \/ Resolved(resolve.fallback)
  /\ UNCHANGED <<managed, cf_others>>

\* It may not run on this host, although it is the pinned one.
PutManaged ==
  /\ resolve.at = "rename" /\ resolve' = [resolve EXCEPT !.at = "again"]
  /\ \E runs \in BOOLEAN : managed' = [version |-> release, runs |-> runs]
  /\ UNCHANGED <<using, cf_others>>

AskAgain ==
  /\ resolve.at = "again"
  /\ \E m \in Says(managed) : Resolved(IF m # No THEN "managed" ELSE resolve.fallback)
  /\ UNCHANGED <<managed, cf_others>>

-----------------------------------------------------------------------------

\* The process ends at any step and starts again, in this release or in another one; a file
\* being written is cut off, and the agent at its path may be replaced by hand or damaged
\* ("a partial download, a tampered file").
Restart ==
  /\ restarts < MaxRestarts /\ restarts' = restarts + 1
  /\ release' \in Releases
  /\ part' \in IF install.at = "write" THEN {part, Bad} ELSE {part}
  /\ install' = NoInstall /\ resolve' = NoResolve /\ using' = "none" /\ spawned' = No
  /\ agent' \in {agent, Bad} /\ found' = agent'
  /\ UNCHANGED managed

BinInit ==
  /\ release \in Releases /\ agent \in {No, Bad} /\ found = agent /\ part = No /\ install = NoInstall /\ spawned = No
  /\ managed = [version |-> No, runs |-> TRUE] /\ resolve = NoResolve /\ using = "none"
  /\ restarts = 0

BinNext ==
  \/ Verify
  \/ Fetch
  \/ WritePart
  \/ CheckPart
  \/ PutAgent
  \/ SpawnAgent
  \/ Ask
  \/ Download
  \/ PutManaged
  \/ AskAgain
  \/ Restart

BinSpec == BinInit /\ [][BinNext]_bin_vars

-----------------------------------------------------------------------------
\* An agent is started from the bytes its release pins, whatever was downloaded and wherever
\* a boot was cut off (playit-binary.ts:133-142: verify, and only then put the file where it is
\* executed), but where a boot could not install it: then what it had found at the path is
\* started, unverified (bootstrap.ts:200-207 goes on).
AgentWasVerified == spawned \notin {No, release} => spawned = found /\ install.got # release

\* A cloudflared in /data that answered when it was asked for its version is never replaced
\* by an older one (cloudflared/binary.ts:6-7), through updates and rollbacks of CloudGate.
NeverDowngraded ==
  [][resolve.said # No /\ managed' # managed => managed'.version >= managed.version]_bin_vars

=============================================================================
