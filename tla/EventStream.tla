---------------------------- MODULE EventStream ----------------------------
(***************************************************************************)
(* Live updates of the panel: useEventStream (api/events.ts), routes/      *)
(* events.ts and the bus of services/events.ts.                            *)
(*                                                                         *)
(* The credential of a stream is a ticket that lasts a minute, so a stream *)
(* that breaks is opened again with a new one.  The effect may be cleaned  *)
(* up while it awaits a ticket.  What the topics say is left out: they     *)
(* only make queries refetch.                                              *)
(***************************************************************************)
EXTENDS Naturals

CONSTANTS Mounts,     \* runs of the effect, one after the other
          MaxDeaths   \* bounds the deaths of the backend

VARIABLES up,       \* the backend runs
          signedIn, \* a session token is stored and the backend takes it
          hook,     \* what each run of the effect is at
          closed,   \* its flag
          ticket,   \* the ticket in the URL of its EventSource
          bus,      \* the subscribers at the backend
          deaths

vars == <<up, signedIn, hook, closed, ticket, bus, deaths>>

Streaming == {"opening", "open"}
Steps == {"none", "off", "ticket", "retry", "gone"} \union Streaming

TypeOK ==
  /\ up \in BOOLEAN /\ signedIn \in BOOLEAN
  /\ hook \in [Mounts -> Steps] /\ closed \in [Mounts -> BOOLEAN]
  /\ ticket \in [Mounts -> {"none", "fresh", "expired"}]
  /\ bus \subseteq Mounts /\ deaths \in 0..MaxDeaths

Init ==
  /\ up = TRUE /\ signedIn \in BOOLEAN
  /\ hook = [m \in Mounts |-> "none"] /\ closed = [m \in Mounts |-> FALSE]
  /\ ticket = [m \in Mounts |-> "none"] /\ bus = {} /\ deaths = 0

Go(m, step) == hook' = [hook EXCEPT ![m] = step]

\* The effect runs when the one before it has been cleaned up; without a token it does
\* nothing, and nothing makes it run again when there is one.
Mount(m) ==
  /\ hook[m] = "none" /\ \A o \in Mounts : hook[o] # "none" => closed[o]
  /\ Go(m, IF signedIn THEN "ticket" ELSE "off")
  /\ UNCHANGED <<up, signedIn, closed, ticket, bus, deaths>>

\* The cleanup: no timer and no stream is left; a ticket may still be on its way.
Unmount(m) ==
  /\ hook[m] # "none" /\ ~closed[m]
  /\ closed' = [closed EXCEPT ![m] = TRUE]
  /\ IF hook[m] = "ticket" THEN UNCHANGED hook ELSE Go(m, "gone")
  /\ UNCHANGED <<up, signedIn, ticket, bus, deaths>>

\* POST /events/ticket, then `if (closed) return`
GetTicket(m) ==
  /\ hook[m] = "ticket" /\ up /\ signedIn
  /\ IF closed[m] THEN Go(m, "gone") /\ UNCHANGED ticket
       ELSE Go(m, "opening") /\ ticket' = [ticket EXCEPT ![m] = "fresh"]
  /\ UNCHANGED <<up, signedIn, closed, bus, deaths>>

\* scheduleRetry does nothing once the effect has been cleaned up.
Retry(m) == Go(m, IF closed[m] THEN "gone" ELSE "retry")

TicketFails(m) ==
  /\ hook[m] = "ticket" /\ ~(up /\ signedIn)
  /\ Retry(m)
  /\ UNCHANGED <<up, signedIn, closed, ticket, bus, deaths>>

\* GET /api/events: the ticket is verified, and the subscriber added.  A session that
\* ends later does not end the stream.
OpenStream(m) ==
  /\ hook[m] = "opening" /\ up /\ ticket[m] = "fresh"
  /\ Go(m, "open") /\ bus' = bus \union {m}
  /\ UNCHANGED <<up, signedIn, closed, ticket, deaths>>

\* The error event: refused, or the connection broke.
StreamFails(m) ==
  /\ \/ hook[m] = "opening" /\ (~up \/ ticket[m] = "expired")
     \/ hook[m] = "open"
  /\ Retry(m)
  /\ UNCHANGED <<up, signedIn, closed, ticket, bus, deaths>>

\* Mutant of Backoff: EventSource's own reconnect, with the URL it has
Replay(m) ==
  /\ hook[m] = "retry"
  /\ Go(m, IF ticket[m] = "none" THEN "ticket" ELSE "opening")
  /\ UNCHANGED <<up, signedIn, closed, ticket, bus, deaths>>

\* The timer of one to thirty seconds.
Backoff(m) ==
  /\ hook[m] = "retry"
  /\ Go(m, "ticket")
  /\ UNCHANGED <<up, signedIn, closed, ticket, bus, deaths>>

\* subscribe's cleanup, when the connection has closed.
Cleanup(m) ==
  /\ m \in bus /\ hook[m] # "open"
  /\ bus' = bus \ {m}
  /\ UNCHANGED <<up, signedIn, hook, closed, ticket, deaths>>

\* A ticket runs out; opening a stream takes less than its minute.
MinutePasses ==
  /\ \E m \in Mounts : ticket[m] = "fresh"
  /\ \A m \in Mounts : ticket[m] = "fresh" => hook[m] # "opening"
  /\ ticket' = [m \in Mounts |-> IF ticket[m] = "fresh" THEN "expired" ELSE ticket[m]]
  /\ UNCHANGED <<up, signedIn, hook, closed, bus, deaths>>

\* The bus is in memory.
BackendDies ==
  /\ up /\ deaths < MaxDeaths /\ deaths' = deaths + 1
  /\ up' = FALSE /\ bus' = {}
  /\ hook' = [m \in Mounts |-> IF hook[m] = "open" THEN "retry" ELSE hook[m]]
  /\ UNCHANGED <<signedIn, closed, ticket>>

BackendStarts == ~up /\ up' = TRUE /\ UNCHANGED <<signedIn, hook, closed, ticket, bus, deaths>>

SessionChanges == signedIn' = ~signedIn /\ UNCHANGED <<up, hook, closed, ticket, bus, deaths>>

Effect(m) == GetTicket(m) \/ TicketFails(m) \/ OpenStream(m) \/ Backoff(m)
Refused(m) == hook[m] = "opening" /\ StreamFails(m)

Next ==
  \/ \E m \in Mounts : Mount(m) \/ Unmount(m) \/ Effect(m) \/ StreamFails(m) \/ Cleanup(m)
  \/ MinutePasses \/ BackendDies \/ BackendStarts \/ SessionChanges

\* Requests are answered and timers fire.
Fairness == \A m \in Mounts : WF_vars(Effect(m) \/ Refused(m))

Spec == Init /\ [][Next]_vars /\ Fairness

-----------------------------------------------------------------------------

\* A run of the effect that was cleaned up has no stream and no timer, so there is one
\* stream at most (the `closed` flag, api/events.ts).
OneStream == TypeOK /\ \A m \in Mounts : closed[m] => hook[m] \in {"ticket", "gone"}

Running(m) == hook[m] \notin {"none", "off"} /\ ~closed[m]

\* While the backend and the session last, the stream is open again and again, however
\* old its first ticket is: it does not "retry a dead credential forever".
StreamComesBack ==
  \A m \in Mounts : <>[](up /\ signedIn /\ Running(m)) => []<>(hook[m] = "open")

=============================================================================
