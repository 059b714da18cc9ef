------------------------ MODULE CloudflaredProvider -------------------------
(***************************************************************************)
(* tunnel-providers/cloudflared/provider.ts for one tunnel row: the entry  *)
(* of its process cache, and the requests that start, stop and restart the *)
(* tunnel (routes/tunnels.ts, force-sync included, tunnel-manager.ts and   *)
(* tunnel-teardown.ts).  Every await is a step boundary, so two requests   *)
(* interleave between a lookup and the assignment that follows it.         *)
(***************************************************************************)
EXTENDS CloudflaredProcess, Naturals

CONSTANT Ops  \* the operations requests ask for, of {"start", "stop", "restart"}

ASSUME ProviderAssumption == Ops \subseteq {"start", "stop", "restart"}

VARIABLES slot,   \* processes.get(tunnelDbId)
          built,  \* the objects constructed so far (bound: Procs)
          call,   \* what each request is doing
          raced   \* history: two lifecycle calls have overlapped

vars == <<procVars, slot, built, call, raced>>

Idle == [op |-> "none", at |-> "idle"]

Places == {"toStop", "stopping", "toStart", "constructing"}

TypeOK ==
  /\ sup \in [Procs -> Supervisor]
  /\ kids \in [Kids -> Kid]
  /\ slot \in built \cup {None}
  /\ built \subseteq Procs
  /\ call \in [Callers -> {Idle} \cup [op : Ops, at : Places]]
  /\ raced \in BOOLEAN

Init ==
  /\ ProcInit
  /\ slot = None
  /\ built = {}
  /\ call = [c \in Callers |-> Idle]
  /\ raced = FALSE

Active == {c \in Callers : call[c].at # "idle"}

FallbackPending == \E k \in Kids : "fallback" \in kids[k].waiters

\* A stop is over: a plain stop answers, a restart goes on to start.
AfterStop(r) == IF r.op = "restart" THEN [r EXCEPT !.at = "toStart"] ELSE Idle

\* Bound: a request that may construct an object is taken only if one is left.
Begin(c, op) ==
  /\ call[c] = Idle
  /\ op = "stop" \/
       Cardinality(Procs \ built) > Cardinality({d \in Active : call[d].op # "stop"})
  /\ call' = [call EXCEPT ![c] = [op |-> op, at |-> IF op = "start" THEN "toStart" ELSE "toStop"]]
  /\ raced' = (raced \/ Active # {} \/ FallbackPending)
  /\ UNCHANGED <<procVars, slot, built>>

StopAbsent(c) ==
  /\ call[c].at = "toStop"
  /\ slot = None
  /\ call' = [call EXCEPT ![c] = AfterStop(call[c])]
  /\ UNCHANGED <<procVars, slot, built, raced>>

StopChildless(c) ==
  /\ call[c].at = "toStop"
  /\ slot # None
  /\ sup[slot].child = None
  /\ sup' = [sup EXCEPT ![slot] = StopFields(sup[slot])]
  /\ slot' = None
  /\ call' = [call EXCEPT ![c] = AfterStop(call[c])]
  /\ UNCHANGED <<kids, built, raced>>

StopForgets(c) ==  \* mutant: the cache entry is dropped without awaiting the exit
  /\ call[c].at = "toStop"
  /\ slot # None
  /\ sup[slot].child # None
  /\ sup' = [sup EXCEPT ![slot] = StopFields(sup[slot])]
  /\ kids' = StopKid(kids, sup[slot].child, c)
  /\ slot' = None
  /\ call' = [call EXCEPT ![c] = AfterStop(call[c])]
  /\ UNCHANGED <<built, raced>>

StopChild(c) ==
  /\ call[c].at = "toStop"
  /\ slot # None
  /\ sup[slot].child # None
  /\ sup' = [sup EXCEPT ![slot] = StopFields(sup[slot])]
  /\ kids' = StopKid(kids, sup[slot].child, c)
  /\ call' = [call EXCEPT ![c].at = "stopping"]
  /\ UNCHANGED <<slot, built, raced>>

\* Missing credentials or a config that does not render: the row is marked
\* for re-linking and start() returns.
StartRefused(c) ==
  /\ call[c].at = "toStart"
  /\ call' = [call EXCEPT ![c] = Idle]
  /\ UNCHANGED <<procVars, slot, built, raced>>

StartCached(c) ==
  /\ call[c].at = "toStart"
  /\ slot # None
  /\ Start(slot, sup[slot], kids)
  /\ call' = [call EXCEPT ![c] = Idle]
  /\ UNCHANGED <<slot, built, raced>>

\* No cached object: its options are awaited before it is constructed.
StartMissing(c) ==
  /\ call[c].at = "toStart"
  /\ slot = None
  /\ call' = [call EXCEPT ![c].at = "constructing"]
  /\ UNCHANGED <<procVars, slot, built, raced>>

Construct(c) ==
  /\ call[c].at = "constructing"
  /\ \E p \in AnyOf(Procs \ built) :
       /\ built' = built \cup {p}
       /\ slot' = p
       /\ Start(p, NewSupervisor, kids)
  /\ call' = [call EXCEPT ![c] = Idle]
  /\ UNCHANGED raced

\* The exit of k resolves the stop() of every request waiting for it; each
\* then deletes the cache entry, whatever it holds.
Exited(k) ==
  LET resumed == kids[k].waiters \cap Callers
  IN  /\ ExitSeen(k)
      /\ slot' = IF resumed # {} THEN None ELSE slot
      /\ call' = [c \in Callers |-> IF c \in resumed THEN AfterStop(call[c]) ELSE call[c]]
      /\ UNCHANGED <<built, raced>>

Quietly(A) == A /\ UNCHANGED <<slot, built, call, raced>>

FallsBack(p) ==
  /\ FallBack(p)
  /\ raced' = (raced \/ Active # {})
  /\ UNCHANGED <<slot, built, call>>

Request(c) ==
  \/ StopAbsent(c) \/ StopChildless(c) \/ StopChild(c)
  \/ StartCached(c) \/ StartMissing(c) \/ Construct(c)

Timers(p) ==
  Quietly(RespawnDue(p) \/ GraceOver(p) \/ Poll(p) \/ Answer(p) \/ Judge(p))

Next ==
  \/ \E c \in Callers, op \in Ops : Begin(c, op)
  \/ \E c \in Callers : Request(c) \/ StartRefused(c)
  \/ \E k \in Kids : Exited(k) \/ Quietly(Exits(k) \/ ForceKill(k) \/ SweepKill(k))
  \/ \E p \in Procs : Timers(p) \/ FallsBack(p)

\* Timers fire, a killed process ends, its event is handled and a request goes
\* on once what it awaits has come; nothing makes a healthy child exit, an
\* ignored SIGTERM work, a fallback necessary or a request arrive.
Fairness ==
  /\ \A c \in Callers : WF_vars(Request(c))
  /\ \A k \in Kids :
       /\ WF_vars(Exited(k))
       /\ WF_vars(Quietly(ForceKill(k)))
       /\ WF_vars(kids[k].st = "killed" /\ Quietly(Exits(k)))
  /\ \A p \in Procs : WF_vars(Quietly(RespawnDue(p)))

Spec == Init /\ [][Next]_vars /\ Fairness

-----------------------------------------------------------------------------
(* Properties *)

\* A supervisor never loses sight of a child: a process it spawned whose exit
\* has not been handled is the one its child field names, whatever the order
\* of queued respawns, starts, stops and fallbacks (managed-process.ts:81-88).
NoLeak ==
  \A k \in Kids : kids[k].st \notin {"free"} => sup[kids[k].of].child = k

\* A tunnel that is meant to run and has a child is never reported stopped,
\* although the stop() listeners of the previous child write that status.
LiveNotStopped ==
  \A p \in Procs : sup[p].child # None /\ ~sup[p].intentional => sup[p].status # "stopped"

\* Only the supervisor the cache names has a child or a queued respawn.
OnlyCached == \A p \in Procs : sup[p].child # None \/ sup[p].respawn => slot = p

\* What the lifecycle promises to callers that serialise their calls, as
\* managed-process.ts:16-17 asks: as long as no two calls (nor a call and a
\* fallback) have overlapped, an answered request leaves no process behind
\* that the next one could not find and stop.
OneSupervisorUnlessRaced == ~raced /\ Active = {} => OnlyCached

\* So the supervisors, their children and the cache agree, and every variable has its type.
SupervisorsAgree == TypeOK /\ LiveNotStopped /\ OneSupervisorUnlessRaced

\* "One child per tunnel DB row" (cloudflared/process.ts:4-5), with force-sync
\* "safe to spam" (routes/tunnels.ts:404): when every request has been answered
\* and every signal has had its effect, a single supervisor is left.
OneSupervisor ==
  /\ Active = {}
  /\ \A k \in Kids : kids[k].st \in {"free", "up"} /\ ~kids[k].swept
  => OnlyCached

\* A stop() on a child that was really spawned resolves, even if the child
\* ignores SIGTERM (managed-process.ts:132-141): for requests and fallbacks.
StopReturns ==
  \A k \in Kids :
    (kids[k].waiters # {} /\ kids[k].st # "failed") ~> (kids[k].waiters = {})

\* A child that ended without a stop() is followed by another, unless a stop()
\* comes first (managed-process.ts:230-254).
Respawns ==
  \A p \in Procs :
    (p \in built /\ sup[p].child = None /\ ~sup[p].intentional)
      ~> (sup[p].child # None \/ sup[p].intentional)

StopsAndRespawns == StopReturns /\ Respawns

=============================================================================
