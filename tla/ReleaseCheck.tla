---------------------------- MODULE ReleaseCheck ----------------------------
(***************************************************************************)
(* services/updater.ts, triggerCheck: which release a check picks for the  *)
(* channel that is set, and what it does with it, while the settings are   *)
(* being changed, releases are published and the backend restarts.  What   *)
(* an install then does is Updater and ApplyUpdate; here it succeeds, and  *)
(* the new version runs, or it fails.                                      *)
(*                                                                         *)
(* A release is its number (major, minor and patch in one), what its tag   *)
(* says after it, and GitHub's prerelease flag.  GitHub lists releases in  *)
(* the order of their publication, the last first.                         *)
(***************************************************************************)
EXTENDS Integers, Sequences

CONSTANTS
  Published,  \* the releases, in the order in which they are published
  Checks,     \* checks that can be under way at once
  MaxSaves,   \* bounds the changes of the settings
  MaxChecks   \* bounds the checks

\* GitHub lists something; the bounds are numbers.
CheckAssumption == Len(Published) \in Nat \ {0} /\ MaxSaves \in Nat /\ MaxChecks \in Nat

VARIABLES
  published, \* how many of Published are
  running,   \* the one that runs
  stored,    \* the settings table: channel and mode
  mem,       \* state.channel and state.mode
  loaded,    \* init has read the table
  saving,    \* what POST /updates/settings has put in the table, and not in the status yet
  check,     \* what each check is doing
  offer,     \* state.latest_version, when update_available is set
  target,    \* the release that is being installed
  saves, checks

vars == <<published, running, stored, mem, loaded, saving, check, offer, target, saves, checks>>

None == 0
Channels == {"stable", "prerelease", "nightly", "disabled"}
Modes == {"auto", "notify"}          \* 'scheduled' is treated as 'notify'
Settings == [channel : Channels, mode : Modes]
Default == [channel |-> "stable", mode |-> "notify"]
NoCheck == [at |-> "none", list |-> 0]
Releases == 1..Len(Published)

TypeOK ==
  /\ published \in Releases /\ running \in Releases
  /\ stored \in Settings /\ mem \in Settings /\ saving \in SUBSET Settings
  /\ offer \in {None} \cup Releases /\ target \in {None} \cup Releases
  /\ loaded \in BOOLEAN /\ saves \in 0..MaxSaves /\ checks \in 0..MaxChecks
  /\ \A c \in Checks : check[c].at \in {"none", "fetching", "parsing"} /\ check[c].list \in {0} \cup Releases

Init ==
  /\ published \in Releases /\ running \in 1..published
  /\ stored = Default /\ mem = Default /\ loaded = TRUE /\ saving = {}
  /\ check = [c \in Checks |-> NoCheck] /\ offer = None /\ target = None
  /\ saves = 0 /\ checks = 0

-----------------------------------------------------------------------------
(* pickReleaseForChannel and compareVersions                               *)

IsPrerelease(r) == Published[r].flag \/ Published[r].tag # ""
IsNightly(r) == Published[r].tag = "nightly"
InChannel(r, channel) ==
  CASE channel = "stable" -> ~ IsPrerelease(r)
    [] channel = "prerelease" -> ~ IsNightly(r)
    [] channel = "nightly" -> TRUE
    [] channel = "disabled" -> FALSE

\* The first of the list that is in the channel; the list holds the first n releases.
PickReleaseForChannel(n, channel) ==
  LET fits == {r \in 1..n : InChannel(r, channel)}
  IN IF fits = {} THEN None ELSE CHOOSE r \in fits : \A q \in fits : q <= r

\* Mutant of CompareVersions: a suffix does not matter, and the same number is new
CompareLoosely(r) == Published[r].number >= Published[running].number

\* What follows the number is not compared.
CompareVersions(r) == Published[r].number > Published[running].number

-----------------------------------------------------------------------------
(* The settings                                                            *)

Save(new) ==
  /\ saving = {} /\ saves < MaxSaves /\ saves' = saves + 1
  /\ stored' = new /\ saving' = {new}
  /\ UNCHANGED <<published, running, mem, loaded, check, offer, target, checks>>

\* updateChannel goes on: the status follows the table.
UpdateChannel ==
  /\ saving' = {}
  /\ mem' \in saving
  /\ UNCHANGED <<published, running, stored, loaded, check, offer, target, saves, checks>>

\* init's loadSettings; the server may be answering already.
LoadSettings ==
  /\ ~ loaded /\ loaded' = TRUE
  /\ mem' = stored
  /\ UNCHANGED <<published, running, stored, saving, check, offer, target, saves, checks>>

-----------------------------------------------------------------------------
(* triggerCheck                                                            *)

TriggerCheck(c) ==
  /\ check[c] = NoCheck /\ checks < MaxChecks /\ checks' = checks + 1
  /\ mem.channel # "disabled"
  /\ check' = [check EXCEPT ![c] = [at |-> "fetching", list |-> 0]]
  /\ UNCHANGED <<published, running, stored, mem, loaded, saving, offer, target, saves>>

\* GitHub answers with the list of that moment, or does not.
Fetch(c) ==
  /\ check[c].at = "fetching"
  /\ \/ check' = [check EXCEPT ![c].at = "parsing", ![c].list = published]
     \/ check' = [check EXCEPT ![c] = NoCheck]
  /\ UNCHANGED <<published, running, stored, mem, loaded, saving, offer, target, saves, checks>>

\* The list is there: the channel and the mode are those of this moment.
Pick(c) ==
  LET r == PickReleaseForChannel(check[c].list, mem.channel)
      new == r # None /\ CompareVersions(r)
  IN /\ check[c].at = "parsing"
     /\ offer' = IF new THEN r ELSE None
     \* a second install is refused: Updater
     /\ target' = IF new /\ mem.mode = "auto" /\ target = None THEN r ELSE target
     /\ check' = [check EXCEPT ![c] = NoCheck]
     /\ UNCHANGED <<published, running, stored, mem, loaded, saving, saves, checks>>

-----------------------------------------------------------------------------
(* Installs and restarts                                                   *)

\* POST /updates/install, from the page that shows the offer.
OnInstall ==
  /\ offer # None /\ target = None
  /\ target' = offer
  /\ UNCHANGED <<published, running, stored, mem, loaded, saving, check, offer, saves, checks>>

Restart(r) ==
  /\ running' = r /\ target' = None
  /\ mem' = Default /\ loaded' = FALSE /\ saving' = {}
  /\ check' = [c \in Checks |-> NoCheck] /\ offer' = None
  /\ UNCHANGED <<published, stored, saves, checks>>

InstallSucceeds == target # None /\ Restart(target)
InstallFails ==
  /\ target # None /\ target' = None
  /\ UNCHANGED <<published, running, stored, mem, loaded, saving, check, offer, saves, checks>>
Die == loaded /\ Restart(running)

Publish ==
  /\ published < Len(Published) /\ published' = published + 1
  /\ UNCHANGED <<running, stored, mem, loaded, saving, check, offer, target, saves, checks>>

Next ==
  \/ \E new \in Settings : Save(new)
  \/ UpdateChannel \/ LoadSettings
  \/ \E c \in Checks : TriggerCheck(c) \/ Fetch(c) \/ Pick(c)
  \/ OnInstall \/ InstallSucceeds \/ InstallFails \/ Die \/ Publish

Spec == Init /\ [][Next]_vars

-----------------------------------------------------------------------------
(* Properties                                                              *)

\* SemVer: at the same number a release is newer than its release candidates and these
\* than the nightly builds.
Rank(r) == CASE Published[r].tag = "" -> 2 [] Published[r].tag = "rc" -> 1 [] OTHER -> 0
NewerThan(r, q) ==
  \/ Published[r].number > Published[q].number
  \/ Published[r].number = Published[q].number /\ Rank(r) > Rank(q)

\* What a check installs by itself is newer than what runs, in the channel that is set
\* when the install begins, and allowed by the mode; and unless a change is being saved,
\* what is set is what the table says.  The settings may have changed while GitHub was
\* asked, and the backend may have restarted since they did.
InstallsAsSet ==
  [][\A c \in Checks : check[c].at = "parsing" /\ check'[c] # check[c] /\ target' \notin {target, None} =>
       /\ NewerThan(target', running)
       /\ InChannel(target', mem.channel) /\ mem.mode = "auto"
       /\ saving = {} => mem = stored]_vars

=============================================================================
