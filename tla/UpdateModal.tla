---------------------------- MODULE UpdateModal ----------------------------
(***************************************************************************)
(* The updates page and its modal (UpdatesPage.tsx,                        *)
(* UpdateProgressModal.tsx, api/updates.ts) beside an update that runs on  *)
(* the server (routes/updates.ts; in detail: Updater and ApplyUpdate).     *)
(*                                                                         *)
(* The page polls the status and opens the modal when the user asks for an *)
(* install, or when it finds one under way.  The modal subscribes to the   *)
(* events, and when the subscription ends polls /api/health until a        *)
(* backend answers, and takes its version and the last update's marker for *)
(* the outcome.  Each request is a step of its own, and the page, the      *)
(* modal and the server meet at any of them.                               *)
(*                                                                         *)
(* The modal subscribes with ?access_token=, and the stream takes a ticket *)
(* or a header: the subscription ends at once, and the handlers of its     *)
(* events never run (phase "streaming" is not reached).                    *)
(***************************************************************************)
EXTENDS Naturals

CONSTANTS Newest,     \* releases are numbered, 1 is the one installed at first
          MaxInstalls \* bounds the installs begun

ModalAssumption == Newest \in Nat \ {0} /\ MaxInstalls \in Nat

VARIABLES
  up, running,   \* the backend and its version
  server,        \* the install under way: "idle", "working" in the backend, "applying" in the script, "stopped"
  target,        \* its version
  marker,        \* outcome in the newest .last-update-*.json
  installs,
  page,          \* the status the page has: version, state, target_version
  modal,         \* open, phase, startingVersion, targetVersion
  poll,          \* the health poll's effect: at which await it is, and its flag
  post           \* POST /updates/install: its version, 0 for none

server_vars == <<up, running, server, target, marker, installs>>
vars == <<server_vars, page, modal, poll, post>>

Versions == 1..Newest
Outcomes == {"none", "failed", "rolled_back", "succeeded"}
Terminal == {"success", "rolled_back", "failed"}

TypeOK ==
  /\ up \in BOOLEAN /\ running \in Versions /\ target \in Versions
  /\ server \in {"idle", "working", "applying", "stopped"} /\ marker \in Outcomes
  /\ installs \in 0..MaxInstalls
  /\ page \in [version : Versions, busy : BOOLEAN, target : 0..Newest]
  /\ modal \in [open : BOOLEAN, phase : {"connecting", "reconnecting"} \union Terminal,
                from : Versions, to : Versions, log : BOOLEAN]
  /\ poll \in [step : {"off", "ping", "marker", "log"}, cancelled : BOOLEAN]
  /\ post \in 0..Newest

Off == [step |-> "off", cancelled |-> FALSE]

Init ==
  /\ up = TRUE /\ running = 1 /\ server = "idle" /\ target = 1 /\ installs = 0
  /\ marker \in Outcomes
  /\ page = [version |-> 1, busy |-> FALSE, target |-> 0]
  /\ modal = [open |-> FALSE, phase |-> "connecting", from |-> 1, to |-> 1, log |-> FALSE]
  /\ poll = Off /\ post = 0

-----------------------------------------------------------------------------
(* The server *)

\* POST /install by this page, by another one or by the automatic mode: triggerInstall.
Begin(v) ==
  /\ up /\ server = "idle" /\ installs < MaxInstalls
  /\ server' = "working" /\ target' = v /\ installs' = installs + 1
  /\ UNCHANGED <<up, running, marker>>

BeginElsewhere ==
  /\ \E v \in running + 1 .. Newest : Begin(v)
  /\ UNCHANGED <<page, modal, poll, post>>

\* The page's request; refused or failed, it leaves a notification and nothing else.
AnswerPost ==
  /\ post # 0 /\ post' = 0
  /\ \/ Begin(post)
     \/ ~(up /\ server = "idle" /\ installs < MaxInstalls) /\ UNCHANGED server_vars
  /\ UNCHANGED <<page, modal, poll>>

\* The download or a check fails, or the script takes over.
Verified ==
  /\ up /\ server = "working" /\ server' \in {"idle", "applying"}
  /\ UNCHANGED <<up, running, target, marker, installs, page, modal, poll, post>>

\* The script gives up before it stops the backend, or stops it.
Apply ==
  /\ server = "applying"
  /\ \/ server' = "idle" /\ marker' = "failed" /\ UNCHANGED up
     \/ server' = "stopped" /\ up' = FALSE /\ UNCHANGED marker
  /\ UNCHANGED <<running, target, installs, page, modal, poll, post>>

Restarted ==
  /\ server = "stopped" /\ server' = "idle" /\ up' = TRUE
  /\ \/ running' = target /\ marker' = "succeeded"
     \/ running' = running /\ marker' \in {"rolled_back", "failed"}
  /\ UNCHANGED <<target, installs, page, modal, poll, post>>

-----------------------------------------------------------------------------
(* The page *)

\* useUpdateStatus, every two or thirty seconds; without an answer the page keeps what
\* it has.
PollStatus ==
  /\ up
  /\ page' = [version |-> running, busy |-> server # "idle", target |-> IF server = "idle" THEN 0 ELSE target]
  /\ UNCHANGED <<server_vars, modal, poll, post>>

Show(from, to) ==
  modal' = [open |-> TRUE, phase |-> "connecting", from |-> from, to |-> to, log |-> FALSE]

\* shouldShowModalForStatus: on any render with such a status.
AutoOpen ==
  /\ ~modal.open /\ page.busy /\ page.target # 0
  /\ Show(page.version, page.target)
  /\ UNCHANGED <<server_vars, page, poll, post>>

\* onInstall, after the confirmation: the modal first, then the request.
OnInstall ==
  /\ ~modal.open /\ ~page.busy /\ post = 0
  /\ \E v \in page.version + 1 .. Newest : Show(page.version, v) /\ post' = v
  /\ UNCHANGED <<server_vars, page, poll>>

\* Only a finished modal closes; the effects are cleaned up, and what they await is lost.
Close ==
  /\ modal.open /\ modal.phase \in Terminal
  /\ modal' = [modal EXCEPT !.open = FALSE, !.phase = "connecting", !.log = FALSE]
  /\ poll' = Off
  /\ UNCHANGED <<server_vars, page, post>>

\* Five seconds after success: window.location.reload() starts everything anew.
Reload ==
  /\ modal.phase = "success" /\ up
  /\ page' = [version |-> running, busy |-> server # "idle", target |-> IF server = "idle" THEN 0 ELSE target]
  /\ modal' = [open |-> FALSE, phase |-> "connecting", from |-> 1, to |-> 1, log |-> FALSE]
  /\ poll' = Off /\ post' = 0
  /\ UNCHANGED server_vars

-----------------------------------------------------------------------------
(* The modal *)

\* onError: the stream refuses its credential (401), or there is no backend (502).  The
\* effect that polls begins.
Dropped ==
  /\ modal.open /\ modal.phase = "connecting"
  /\ modal' = [modal EXCEPT !.phase = "reconnecting"]
  /\ poll' = [Off EXCEPT !.step = "ping"]
  /\ UNCHANGED <<server_vars, page, post>>

End(phase) == modal' = [modal EXCEPT !.phase = phase] /\ poll' = [poll EXCEPT !.step = "log"]

\* Mutant of Ping: one ping, no loop
PingOnce ==
  /\ poll.step = "ping"
  /\ \/ up /\ running # modal.from /\ End("success")
     \/ up /\ running = modal.from /\ poll' = [poll EXCEPT !.step = "marker"] /\ UNCHANGED modal
     \/ ~up /\ poll' = Off /\ UNCHANGED modal
  /\ UNCHANGED <<server_vars, page, post>>

\* pingHealth, again every two seconds until there is an answer.
Ping ==
  /\ poll.step = "ping"
  /\ \/ up /\ running # modal.from /\ End("success")
     \/ up /\ running = modal.from /\ poll' = [poll EXCEPT !.step = "marker"] /\ UNCHANGED modal
  /\ UNCHANGED <<server_vars, page, post>>

\* fetchLastUpdate; a request that fails is no marker, and whatever is not "failed" is
\* taken for a rollback.
ReadMarker ==
  /\ poll.step = "marker"
  /\ End(IF up /\ marker = "failed" THEN "failed" ELSE "rolled_back") \/ End("rolled_back")
  /\ UNCHANGED <<server_vars, page, post>>

\* The change of phase runs the effect's own cleanup, once React renders.
Rerender ==
  /\ poll.step = "log" /\ ~poll.cancelled
  /\ poll' = [poll EXCEPT !.cancelled = TRUE]
  /\ UNCHANGED <<server_vars, page, modal, post>>

\* fetchUpdateLog: its lines are shown if they are there before that.
ReadLog ==
  /\ poll.step = "log" /\ poll' = Off
  /\ modal' = [modal EXCEPT !.log = ~poll.cancelled]
  /\ UNCHANGED <<server_vars, page, post>>

Server == Verified \/ Apply \/ Restarted
Poll == Ping \/ ReadMarker \/ Rerender \/ ReadLog

Next ==
  \/ BeginElsewhere \/ AnswerPost \/ Server
  \/ PollStatus \/ AutoOpen \/ OnInstall \/ Close \/ Reload
  \/ Dropped \/ Poll

\* An update ends, one way or the other (ApplyUpdate), requests are answered, and timers
\* of the page fire.
Fairness ==
  /\ WF_vars(Server) /\ WF_vars(AnswerPost)
  /\ WF_vars(Dropped) /\ WF_vars(Poll) /\ WF_vars(PollStatus)

Spec == Init /\ [][Next]_vars /\ Fairness
-----------------------------------------------------------------------------

\* An open modal comes to an outcome, through the time without a backend and whatever
\* the requests return: it cannot be closed before.
ModalEnds == modal.open ~> modal.phase \in Terminal \/ ~modal.open

=============================================================================
