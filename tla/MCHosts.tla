------------------------------ MODULE MCHosts ------------------------------
(***************************************************************************)
(* The hosts, for TLC: those that the local nginx serves and their         *)
(* certificates, what the diagnosis says of a host, who gets in through    *)
(* the gateway, and how hosts are imported and edited.  The five modules   *)
(* share no state, so one of them, chosen at the start, runs while the     *)
(* others stay at their initial states: every behaviour of each is         *)
(* checked, and the states add up instead of multiplying.                  *)
(***************************************************************************)
EXTENDS LocalEdge, TLC

CONSTANTS Attempts, Origins, MaxAsked, MaxChanges,
          Admins, Visitors, MaxSaves, MaxActive, MaxStep,
          Names, Zones, EndsWith, Cloudflared, Playit, Entries, Callers, FileLength, MaxHosts,
          Tabs, EditedHosts, Clicks, Tunnels, MaxPuts

VARIABLES scene,
          dRow, public, zone, origin, dJob, found, dAsked, changes,
          gRow, conf, daemon, gEdge, missed, adrift, saves, now, change, login, cookie, undone,
          rows, tunnels, zones, request, inserted, requests,
          eRow, list, fetch, form, put, click, puts

Diagnosis == INSTANCE Diagnostics WITH row <- dRow, job <- dJob, asked <- dAsked
Gateway == INSTANCE HostGateway WITH row <- gRow, edge <- gEdge
Import == INSTANCE HostImport
Edit == INSTANCE HostEdit WITH Hosts <- EditedHosts, row <- eRow

\* Limits are numbers, a query is made once at least, a file has a row, and the lists of
\* services and of entries, of tunnels and of zones, hold what their modules say.
ASSUME HostsAssumption ==
  /\ {MaxRequests, MaxOrders, MaxRestarts, MaxAsked, MaxChanges, MaxSaves, MaxHosts, MaxPuts} \subseteq Nat
  /\ {Attempts, MaxStep, FileLength} \subseteq Nat \ {0}
  /\ Origins \subseteq Diagnosis!Origin
  /\ Entries \subseteq Import!EntryType
  /\ Import!None \notin Import!AllTunnels \cup Zones
  /\ Edit!NoTunnel \notin Tunnels

diagnosisVars == <<dRow, public, zone, origin, dJob, found, dAsked, changes>>
gatewayVars == <<gRow, conf, daemon, gEdge, missed, adrift, saves, now, change, login, cookie, undone>>
importVars == <<rows, tunnels, zones, request, inserted, requests>>
editVars == <<eRow, list, fetch, form, put, click, puts>>

-----------------------------------------------------------------------------
(* The services a host may point at: what its port says, whether it speaks *)
(* TLS and for which names, and what it answers: to its address, and to    *)
(* its hostname asked directly and through the proxy's headers.            *)
Web(status, proxied) ==
  [port |-> "open", tls |-> FALSE, hello |-> "http", names |-> {},
   direct |-> status, plain |-> status, proxied |-> proxied]
Tls(hello, names) ==
  [Web("good", "good") EXCEPT !.tls = TRUE, !.hello = hello, !.names = names]
Both == {"address", "hostname"}
MCOrigins ==
  {[Web("good", "good") EXCEPT !.port = "refused"],
   Web("good", "good"), Web("good", "bad"), Web("bad", "bad"), Web("good", "error"),
   [Web("error", "error") EXCEPT !.direct = "good"],
   [Tls("handshake", Both) EXCEPT !.proxied = "bad"], [Tls("handshake", {"address"}) EXCEPT !.proxied = "bad"],
   [Tls("handshake", {"hostname"}) EXCEPT !.proxied = "bad"],
   Tls("handshake", {}), Tls("alert", Both), Tls("http", Both)}

(* The entries of an import file, one for each way to be right or wrong.   *)
WebEntry ==
  [name |-> "web", upper |-> FALSE, mode |-> "tunnel", protocol |-> "http", tunnel |-> 1, zone |-> 7]
Game ==
  [name |-> "game", upper |-> FALSE, mode |-> "tunnel", protocol |-> "tcp", tunnel |-> 2, zone |-> 0]
MCEntries ==
  {WebEntry, Game,
   [Game EXCEPT !.upper = TRUE], [WebEntry EXCEPT !.tunnel = 2], [Game EXCEPT !.zone = 7],
   [WebEntry EXCEPT !.zone = 0], [WebEntry EXCEPT !.mode = "local", !.tunnel = 0, !.zone = 0]}
MCEndsWith == {<<"web", 7>>}

-----------------------------------------------------------------------------
\* The diagnosis runs in two scenes: while DNS changes, for a service that is up or down,
\* and while the service changes or requests to it fail, not both, for a name that resolves
\* and nobody verifies or doubts.  A host starts in plain http; an edit brings the other targets.
Diagnosis_scenes == {"dns", "probe"}

InScene(d) ==
  IF scene = "dns" THEN ~d.lost
  ELSE d.kind # "verify" /\ d.dns \in {"none", "ok"} /\ (changes' > 0 => ~d.lost)

\* So does the gateway: in one scene visitors sign in, in the other the tunnel's daemon runs.
Gateway_scenes == {"visits", "routing"}

\* No definition of HostEdit tells one tunnel from another or one position of the switch from
\* the other, so an edited host starts at one tunnel or none, and switched on.
EditedRows == [tunnel : {Edit!NoTunnel, CHOOSE n \in Tunnels : TRUE}, enabled : {TRUE}]

MCInit ==
  /\ scene \in {"edge", "import", "edit"} \cup Diagnosis_scenes \cup Gateway_scenes
  /\ Init /\ Diagnosis!Init /\ Gateway!Init /\ Import!Init /\ Edit!EditInit
  /\ scene # "probe" => origin \in {Web("good", "good"), [Web("good", "good") EXCEPT !.port = "refused"]}
  /\ dRow.target = [https |-> FALSE, skip |-> FALSE]
  /\ scene # "dns" => zone = "ours"
  /\ scene \notin Diagnosis_scenes => origin = Web("good", "good")
  /\ \A h \in EditedHosts : eRow[h] \in EditedRows
  /\ scene # "edit" => \A h \in EditedHosts : eRow[h].tunnel = Edit!NoTunnel

MCNext ==
  /\ UNCHANGED scene
  /\ \/ scene = "edge" /\ Next
        /\ UNCHANGED <<diagnosisVars, gatewayVars, importVars, editVars>>
     \/ scene \in Diagnosis_scenes /\ Diagnosis!Next
        /\ (scene = "dns" => UNCHANGED origin /\ dRow'.target = dRow.target)
        /\ (scene = "probe" => UNCHANGED <<zone, public>>)
        /\ (\A j \in Jobs : dJob'[j] # Diagnosis!Idle => InScene(dJob'[j]))
        /\ UNCHANGED <<vars, gatewayVars, importVars, editVars>>
     \/ scene \in Gateway_scenes /\ Gateway!Next
        /\ (scene = "visits" => UNCHANGED daemon)
        /\ (scene = "routing" => UNCHANGED <<login, now>>)
        /\ UNCHANGED <<vars, diagnosisVars, importVars, editVars>>
     \/ scene = "import" /\ Import!Next
        /\ UNCHANGED <<vars, diagnosisVars, gatewayVars, editVars>>
     \/ scene = "edit" /\ Edit!EditNext
        /\ UNCHANGED <<vars, diagnosisVars, gatewayVars, importVars>>

MCSpec ==
  MCInit /\ [][MCNext]_<<vars, diagnosisVars, gatewayVars, importVars, editVars, scene>>

\* The requests, people and tabs of the five modules are the same two model values: in
\* none of them has either a part of its own.
Symmetry == Permutations(Jobs)

-----------------------------------------------------------------------------
\* What nginx serves is what was asked, and one order is placed for a gap in the
\* certificates (LocalEdge).
EdgeSound == scene = "edge" => EdgeAsAsked /\ OneOrderPerGap

\* What is said of a host holds for its visitors, and what its row says is what was
\* found last (Diagnostics).
DiagnosisTrue ==
  scene \in Diagnosis_scenes =>
    Diagnosis!TypeOK /\ Diagnosis!VerdictHoldsForVisitors /\ Diagnosis!RowShowsLastFindings

\* A cookie proves the credentials of today, the edge asks for them where the row says
\* so, and a TOTP step opens a host once (HostGateway).
GatewayHolds ==
  [](scene \in Gateway_scenes => Gateway!TypeOK /\ Gateway!CookieProvesCurrent /\ Gateway!ShownAsRouted)
    /\ Gateway!HostStepOnce

\* What is imported is placed as the form would place it, and the answer counts what
\* became of the file (HostImport).
ImportSound == scene = "import" => Import!HostsPlaced /\ Import!ImportTellsTruth

\* An edit leaves the tunnel alone that another tab chose, and a switch stays where it
\* was put (HostEdit).
EditSound ==
  [](scene = "edit" => Edit!EditTypeOK /\ Edit!ClickStands) /\ Edit!EditKeepsTunnel

=============================================================================
