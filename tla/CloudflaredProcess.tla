------------------------- MODULE CloudflaredProcess -------------------------
(***************************************************************************)
(* The supervisor of one cloudflared child: the base class                 *)
(* services/managed-process.ts with its one refinement in                  *)
(* tunnel-providers/cloudflared/process.ts (readiness probe, fallback to   *)
(* HTTP/2, sweep of orphans).                                              *)
(*                                                                         *)
(* Procs are the supervisor objects, Kids the operating-system processes   *)
(* they spawn (a kid is free again once its 'exit' event has been          *)
(* handled).  JavaScript runs to completion between events, so an action   *)
(* is one event handler with the continuations it resolves; the kids move  *)
(* on their own.  Delays (backoff, grace, poll interval, startup limits)   *)
(* are abstracted to "sooner or later"; log lines and reasons are left out. *)
(***************************************************************************)
EXTENDS FiniteSets

CONSTANTS Procs, Kids, None,
          Callers,     \* requests that may be waiting for a stop() to resolve
          AutoProtocol \* the "protocol" setting is 'auto': HTTP/2 fallback allowed

ASSUME ProcessAssumption ==
  /\ None \notin Procs \cup Kids
  /\ "fallback" \notin Callers
  /\ AutoProtocol \in BOOLEAN

VARIABLES sup,   \* the fields of every supervisor object
          kids   \* every child process and the listeners attached to it

procVars == <<sup, kids>>

Status == {"starting", "running", "stopped", "error"}

\* up: running; term: sent SIGTERM; killed: sent SIGKILL; exited: gone, event
\* not handled yet; failed: spawn emitted 'error' and will never emit 'exit'.
KidState == {"free", "up", "term", "killed", "exited", "failed"}

Supervisor ==
  [child : Kids \cup {None}, status : Status, intentional : BOOLEAN,
   respawn : BOOLEAN,    \* pendingRespawnTimer
   ticking : BOOLEAN,    \* healthTimer
   grace : BOOLEAN,      \* a setTimeout that will start the health timer
   probe : {"none", "asked", "ok", "bad"},  \* checkHealth in flight
   forced : BOOLEAN]     \* forceHttp2

Kid == [st : KidState, of : Procs \cup {None},
        waiters : SUBSET (Callers \cup {"fallback"}),  \* once('exit') of stop()
        killDue : BOOLEAN,   \* the SIGKILL timer of stop()
        swept : BOOLEAN]     \* listed by a killOrphans walk under way

NewSupervisor ==
  [child |-> None, status |-> "stopped", intentional |-> FALSE, respawn |-> FALSE,
   ticking |-> FALSE, grace |-> FALSE, probe |-> "none", forced |-> FALSE]

FreeKid == [st |-> "free", of |-> None, waiters |-> {}, killDue |-> FALSE, swept |-> FALSE]

ProcInit ==
  /\ sup = [p \in Procs |-> NewSupervisor]
  /\ kids = [k \in Kids |-> FreeKid]

Alive(kd, k) == kd[k].st \in {"up", "term"}

Kill(kd, k) == [kd EXCEPT ![k].st = IF Alive(kd, k) THEN "killed" ELSE @]

-----------------------------------------------------------------------------
(* spawnOnce, start and stop, applied to supervisor fields s and kids kd.  *)

ChildOf(s) == IF s.child = None THEN {} ELSE {s.child}

SpawnedOn(s, k, ok) ==
  [s EXCEPT !.child = k, !.grace = TRUE,
            !.status = IF ok THEN "starting" ELSE "error"]

\* One element of S, if it has any: where all of them are interchangeable.
AnyOf(S) == IF S = {} THEN {} ELSE {CHOOSE x \in S : TRUE}

Fresh(kd) == {k \in Kids : kd[k].st = "free"}

\* An orphan still referenced is killed before the reference is overwritten.
Spawn(p, s, kd) ==
  \E k \in AnyOf(Fresh(kd)), ok \in BOOLEAN :
    /\ sup' = [sup EXCEPT ![p] = SpawnedOn(s, k, ok)]
    /\ kids' = [j \in Kids |->
         IF j = k THEN [FreeKid EXCEPT !.st = IF ok THEN "up" ELSE "failed", !.of = p]
         ELSE IF j \in ChildOf(s) THEN Kill(kd, j)[j] ELSE kd[j]]

\* killOrphans: every cloudflared of this tunnel except the current child is
\* listed, to be killed one by one while other events run.
Swept(s, kd) ==
  [k \in Kids |-> [kd[k] EXCEPT !.swept = @ \/ (Alive(kd, k) /\ k \notin ChildOf(s))]]

StartKeepsTimer(p, s, kd) ==  \* mutant: the queued backoff is not cancelled
  IF s.child # None
  THEN sup' = [sup EXCEPT ![p] = s] /\ kids' = Swept(s, kd)
  ELSE Spawn(p, [s EXCEPT !.intentional = FALSE], Swept(s, kd))

Start(p, s, kd) ==
  IF s.child # None
  THEN sup' = [sup EXCEPT ![p] = s] /\ kids' = Swept(s, kd)
  ELSE Spawn(p, [s EXCEPT !.intentional = FALSE, !.respawn = FALSE], Swept(s, kd))

StopFields(s) ==
  [s EXCEPT !.intentional = TRUE, !.ticking = FALSE, !.respawn = FALSE,
            !.status = IF s.child = None THEN "stopped" ELSE @]

\* w waits for the exit of k; SIGTERM now, SIGKILL when the timer fires.
StopKid(kd, k, w) ==
  [kd EXCEPT ![k].waiters = @ \cup {w}, ![k].killDue = TRUE,
             ![k].st = IF @ = "up" THEN "term" ELSE @]

-----------------------------------------------------------------------------
(* The events. *)

\* The operating system: a kid may end at any moment, of itself or of a signal.
Exits(k) ==
  /\ kids[k].st \in {"up", "term", "killed"}
  /\ kids' = [kids EXCEPT ![k].st = "exited"]
  /\ UNCHANGED sup

ForceKill(k) ==
  /\ kids[k].killDue
  /\ kids[k].st \in {"up", "term"}
  /\ sup[kids[k].of].child = k
  /\ kids' = [Kill(kids, k) EXCEPT ![k].killDue = FALSE]
  /\ UNCHANGED sup

SweepKill(k) ==
  /\ kids[k].swept
  /\ Alive(kids, k)
  /\ kids' = [Kill(kids, k) EXCEPT ![k].swept = FALSE]
  /\ UNCHANGED sup

\* The 'exit' listener of spawnOnce, then those of every stop() that waits.
AfterExitGivesUp(s, k, waited) ==  \* mutant: a crash is not followed by a respawn
  [s EXCEPT !.child = IF @ = k THEN None ELSE @, !.ticking = FALSE,
            !.status = IF s.intentional \/ waited THEN "stopped" ELSE "error"]

AfterExit(s, k, waited) ==
  [s EXCEPT !.child = IF @ = k THEN None ELSE @, !.ticking = FALSE,
            !.status = IF s.intentional \/ waited THEN "stopped" ELSE "error",
            !.respawn = IF s.intentional THEN @ ELSE TRUE]

\* The fallback's stop().then(start) runs in the microtasks of the same event.
ExitSeen(k) ==
  LET p == kids[k].of
      s == AfterExit(sup[p], k, kids[k].waiters # {})
      freed == [kids EXCEPT ![k] = FreeKid]
  IN  /\ kids[k].st = "exited"
      /\ IF "fallback" \in kids[k].waiters
         THEN Start(p, s, freed)
         ELSE sup' = [sup EXCEPT ![p] = s] /\ kids' = freed

RespawnDue(p) ==
  /\ sup[p].respawn
  /\ IF sup[p].intentional
     THEN sup' = [sup EXCEPT ![p].respawn = FALSE] /\ UNCHANGED kids
     ELSE Spawn(p, [sup[p] EXCEPT !.respawn = FALSE], kids)

GraceOver(p) ==
  /\ sup[p].grace
  /\ sup' = [sup EXCEPT ![p].grace = FALSE, ![p].ticking = TRUE]
  /\ UNCHANGED kids

Poll(p) ==
  /\ sup[p].ticking
  /\ sup[p].child # None
  /\ sup[p].probe = "none"
  /\ sup' = [sup EXCEPT ![p].probe = "asked"]
  /\ UNCHANGED kids

\* Whoever serves the tunnel's metrics port answers; nobody need be ready.
Answer(p) ==
  /\ sup[p].probe = "asked"
  /\ \E r \in {"bad"} \cup {q \in {"ok"} : \E k \in Kids : Alive(kids, k)} :
       sup' = [sup EXCEPT ![p].probe = r]
  /\ UNCHANGED kids

Judged(s, startupOver) ==
  [s EXCEPT !.probe = "none",
     !.status = IF s.probe = "ok" THEN "running"
                ELSE IF s.status = "starting" /\ ~startupOver THEN "starting"
                ELSE "error"]

Judge(p) ==
  /\ sup[p].probe \in {"ok", "bad"}
  /\ \E startupOver \in BOOLEAN : sup' = [sup EXCEPT ![p] = Judged(sup[p], startupOver)]
  /\ UNCHANGED kids

\* A bad answer more than a minute after the spawn, once per object.
MayFallBack(s) ==
  AutoProtocol /\ ~s.forced /\ s.probe = "bad" /\ s.status = "starting"

FallBack(p) ==
  /\ MayFallBack(sup[p])
  /\ \E startupOver \in BOOLEAN :
       sup' = [sup EXCEPT ![p] = Judged([StopFields(sup[p]) EXCEPT !.forced = TRUE], startupOver)]
  /\ kids' = StopKid(kids, sup[p].child, "fallback")

=============================================================================
