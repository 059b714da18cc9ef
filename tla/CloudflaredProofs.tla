-------------------------- MODULE CloudflaredProofs --------------------------
(***************************************************************************)
(* For any number of supervisors, children and requests: a supervisor      *)
(* never loses sight of a child it spawned.  The invariant is inductive    *)
(* only together with its converse (a child field names a process of that  *)
(* supervisor) and with the fact that a respawn is queued only while there *)
(* is no child, which is what start() cancelling the timer maintains. From *)
(* it: the cache agrees with the supervisors as long as calls come one at  *)
(* a time.                                                                 *)
(***************************************************************************)
EXTENDS CloudflaredProvider, TLAPS

Shape ==
  /\ sup \in [Procs -> Supervisor]
  /\ kids \in [Kids -> Kid]
  /\ slot \in built \cup {None}
  /\ built \subseteq Procs

\* Every child in use is held by its supervisor ...
Held(sp, kd) ==
  \A k \in Kids : kd[k].st # "free" => kd[k].of \in Procs /\ sp[kd[k].of].child = k

\* ... and every child field names a child in use of that supervisor.
Holds(sp, kd) ==
  \A p \in Procs : sp[p].child # None =>
    sp[p].child \in Kids /\ kd[sp[p].child].st # "free" /\ kd[sp[p].child].of = p

PendingMeansDown(sp) == \A p \in Procs : sp[p].respawn => sp[p].child = None

Unbuilt == \A p \in Procs \ built : sup[p].child = None /\ ~sup[p].respawn

Linked(sp, kd) == Held(sp, kd) /\ Holds(sp, kd) /\ PendingMeansDown(sp)

IInv == Shape /\ Linked(sup, kids) /\ Unbuilt

-----------------------------------------------------------------------------
(* What the operators of the supervisor return. *)

\* A step that changes no child field and frees or takes no child, and queues
\* no respawn, keeps supervisors and children linked.
LEMMA KeptLinks ==
  ASSUME NEW sp, NEW kd, NEW sq, NEW ke, Linked(sp, kd),
         \A p \in Procs : sq[p].child = sp[p].child /\ (sq[p].respawn => sp[p].respawn),
         \A k \in Kids : (ke[k].st = "free" <=> kd[k].st = "free") /\ ke[k].of = kd[k].of
  PROVE  Linked(sq, ke)
<1>1. Held(sq, ke)
  BY DEF Linked, Held
<1>2. Holds(sq, ke)
  BY DEF Linked, Holds
<1>3. PendingMeansDown(sq)
  BY DEF Linked, PendingMeansDown
<1> QED BY <1>1, <1>2, <1>3 DEF Linked

\* The fields a supervisor has after each operation are well formed.
LEMMA FieldTypes ==
  ASSUME NEW s \in Supervisor
  PROVE  /\ StopFields(s) \in Supervisor
         /\ \A k \in Kids, ok \in BOOLEAN : SpawnedOn(s, k, ok) \in Supervisor
         /\ \A k \in Kids, w \in BOOLEAN : AfterExit(s, k, w) \in Supervisor
         /\ \A b \in BOOLEAN : Judged(s, b) \in Supervisor
<1>1. StopFields(s) \in Supervisor
  BY DEF StopFields, Supervisor, Status
<1>2. \A k \in Kids, ok \in BOOLEAN : SpawnedOn(s, k, ok) \in Supervisor
  BY DEF SpawnedOn, Supervisor, Status
<1>3. \A k \in Kids, w \in BOOLEAN : AfterExit(s, k, w) \in Supervisor
  BY DEF AfterExit, Supervisor, Status
<1>4. \A b \in BOOLEAN : Judged(s, b) \in Supervisor
  BY DEF Judged, Supervisor, Status
<1> QED BY <1>1, <1>2, <1>3, <1>4

\* Signals and sweeps change only how a child will end.
LEMMA SignalTypes ==
  ASSUME NEW kd \in [Kids -> Kid], NEW k \in Kids
  PROVE  /\ Kill(kd, k) \in [Kids -> Kid]
         /\ \A w \in Callers \cup {"fallback"} : StopKid(kd, k, w) \in [Kids -> Kid]
         /\ \A s \in Supervisor : Swept(s, kd) \in [Kids -> Kid]
<1>1. Kill(kd, k) \in [Kids -> Kid]
  BY DEF Kill, Alive, Kid, KidState
<1>2. \A w \in Callers \cup {"fallback"} : StopKid(kd, k, w) \in [Kids -> Kid]
  <2> TAKE w \in Callers \cup {"fallback"}
  <2> DEFINE r == [kd[k] EXCEPT !.waiters = @ \cup {w}, !.killDue = TRUE,
                                !.st = IF @ = "up" THEN "term" ELSE @]
  <2>1. kd[k] \in Kid
    OBVIOUS
  <2>2. kd[k].waiters \cup {w} \in SUBSET (Callers \cup {"fallback"})
    BY <2>1 DEF Kid
  <2>3. r \in Kid
    BY <2>1, <2>2 DEF Kid, KidState
  <2>4. StopKid(kd, k, w) = [kd EXCEPT ![k] = r]
    BY DEF StopKid
  <2> HIDE DEF r
  <2> QED BY <2>3, <2>4
<1>3. \A s \in Supervisor : Swept(s, kd) \in [Kids -> Kid]
  BY DEF Swept, Alive, Kid, KidState
<1> QED BY <1>1, <1>2, <1>3

\* Spawning for a supervisor that has neither child nor queued respawn keeps
\* every child linked to its supervisor.
LEMMA SpawnLinks ==
  ASSUME NEW p \in Procs, NEW s \in Supervisor, NEW kd \in [Kids -> Kid],
         sup \in [Procs -> Supervisor], s.child = None, ~s.respawn,
         Linked([sup EXCEPT ![p] = s], kd), Spawn(p, s, kd)
  PROVE  /\ sup' \in [Procs -> Supervisor]
         /\ kids' \in [Kids -> Kid]
         /\ Linked(sup', kids')
         /\ \A q \in Procs : q # p => sup'[q] = sup[q]
<1> DEFINE base == [sup EXCEPT ![p] = s]
<1>1. PICK k \in AnyOf(Fresh(kd)), ok \in BOOLEAN :
        /\ sup' = [sup EXCEPT ![p] = SpawnedOn(s, k, ok)]
        /\ kids' = [j \in Kids |->
             IF j = k THEN [FreeKid EXCEPT !.st = IF ok THEN "up" ELSE "failed", !.of = p]
             ELSE IF j \in ChildOf(s) THEN Kill(kd, j)[j] ELSE kd[j]]
  BY DEF Spawn
<1>2. k \in Kids /\ kd[k].st = "free"
  BY <1>1 DEF AnyOf, Fresh
<1>3. SpawnedOn(s, k, ok) \in Supervisor
  BY <1>2, FieldTypes
<1>4. sup' \in [Procs -> Supervisor]
  BY <1>1, <1>3
<1>5. ChildOf(s) = {}
  BY DEF ChildOf
<1>6. kids' = [j \in Kids |->
         IF j = k THEN [FreeKid EXCEPT !.st = IF ok THEN "up" ELSE "failed", !.of = p]
         ELSE kd[j]]
  BY <1>1, <1>5
<1>7. [FreeKid EXCEPT !.st = IF ok THEN "up" ELSE "failed", !.of = p] \in Kid
  BY DEF FreeKid, Kid, KidState
<1>8. kids' \in [Kids -> Kid]
  BY <1>6, <1>7
<1>9. kids'[k].st # "free" /\ kids'[k].of = p
  BY <1>2, <1>6 DEF FreeKid
<1>10. \A j \in Kids \ {k} : kids'[j] = kd[j]
  BY <1>6
<1>11. sup'[p].child = k /\ ~sup'[p].respawn
  BY <1>1, <1>2 DEF SpawnedOn, Supervisor
<1>12. \A q \in Procs : q # p => sup'[q] = sup[q] /\ base[q] = sup[q]
  BY <1>1
<1>13. base[p] = s
  OBVIOUS
<1>14. Held(base, kd) /\ Holds(base, kd) /\ PendingMeansDown(base)
  BY DEF Linked
<1>15. Held(sup', kids')
  BY <1>9, <1>10, <1>11, <1>12, <1>13, <1>14, ProcessAssumption DEF Held
<1>16. Holds(sup', kids')
  BY <1>2, <1>9, <1>10, <1>11, <1>12, <1>14 DEF Holds
<1>17. PendingMeansDown(sup')
  BY <1>11, <1>12, <1>14 DEF PendingMeansDown
<1> QED BY <1>4, <1>8, <1>12, <1>15, <1>16, <1>17 DEF Linked

\* So does start(), because it cancels the queued respawn before it spawns.
LEMMA StartLinks ==
  ASSUME NEW p \in Procs, NEW s \in Supervisor, NEW kd \in [Kids -> Kid],
         sup \in [Procs -> Supervisor],
         Linked([sup EXCEPT ![p] = s], kd), Start(p, s, kd)
  PROVE  /\ sup' \in [Procs -> Supervisor]
         /\ kids' \in [Kids -> Kid]
         /\ Linked(sup', kids')
         /\ \A q \in Procs : q # p => sup'[q] = sup[q]
<1> DEFINE swept == Swept(s, kd)
           t == [s EXCEPT !.intentional = FALSE, !.respawn = FALSE]
<1>1. swept \in [Kids -> Kid]
  <2>1. CASE Kids = {}
    BY <2>1 DEF Swept
  <2>2. CASE Kids # {}
    BY <2>2, SignalTypes
  <2> QED BY <2>1, <2>2
<1>2. \A k \in Kids : swept[k].st = kd[k].st /\ swept[k].of = kd[k].of
  BY DEF Swept, Kid
<1>3. CASE s.child # None
  <2>1. sup' = [sup EXCEPT ![p] = s] /\ kids' = swept
    BY <1>3 DEF Start
  <2>2. Linked([sup EXCEPT ![p] = s], swept)
    <3> DEFINE base == [sup EXCEPT ![p] = s]
    <3>1. Linked(base, kd)
      OBVIOUS
    <3> HIDE DEF base, swept
    <3> QED BY <1>2, <3>1, KeptLinks
  <2> QED BY <1>1, <2>1, <2>2
<1>4. CASE s.child = None
  <2>1. Spawn(p, t, swept)
    BY <1>4 DEF Start
  <2>2. t \in Supervisor /\ t.child = None /\ ~t.respawn
    BY <1>4 DEF Supervisor
  <2>3. Linked([sup EXCEPT ![p] = t], swept)
    <3> DEFINE base == [sup EXCEPT ![p] = s]
               next == [sup EXCEPT ![p] = t]
    <3>1. Linked(base, kd)
      OBVIOUS
    <3>2. \A q \in Procs : next[q].child = base[q].child /\ (next[q].respawn => base[q].respawn)
      BY DEF Supervisor
    <3> HIDE DEF base, next, swept
    <3>3. Linked(next, swept)
      BY <1>2, <3>1, <3>2, KeptLinks
    <3> QED BY <3>3 DEF next
  <2> HIDE DEF swept, t
  <2> QED BY <1>1, <2>1, <2>2, <2>3, SpawnLinks
<1> QED BY <1>3, <1>4

-----------------------------------------------------------------------------
(* The invariant. *)

LEMMA InitLinks == Init => IInv
<1> SUFFICES ASSUME Init PROVE IInv
  OBVIOUS
<1> USE ProcessAssumption DEF Init, ProcInit
<1>1. Shape
  BY DEF Shape, Supervisor, Status, Kid, KidState, NewSupervisor, FreeKid
<1>2. Linked(sup, kids)
  BY DEF Linked, Held, Holds, PendingMeansDown, NewSupervisor, FreeKid
<1>3. Unbuilt
  BY DEF Unbuilt, NewSupervisor
<1> QED BY <1>1, <1>2, <1>3 DEF IInv

\* A step that changes neither child fields nor who is in use, and builds
\* nothing, keeps the invariant.
LEMMA QuietStep ==
  ASSUME IInv, built' = built, slot' \in built \cup {None},
         sup' \in [Procs -> Supervisor], kids' \in [Kids -> Kid],
         \A p \in Procs : sup'[p].child = sup[p].child /\ (sup'[p].respawn => sup[p].respawn),
         \A k \in Kids : (kids'[k].st = "free" <=> kids[k].st = "free") /\ kids'[k].of = kids[k].of
  PROVE  IInv'
<1>1. Shape'
  BY DEF IInv, Shape
<1>2. Linked(sup', kids')
  BY KeptLinks DEF IInv
<1>3. Unbuilt'
  BY DEF IInv, Unbuilt
<1> QED BY <1>1, <1>2, <1>3 DEF IInv, Linked, Held, Holds, PendingMeansDown

\* A supervisor with a child or a queued respawn is not touched by a start of
\* another one.
LEMMA StartStep ==
  ASSUME IInv, NEW p \in Procs, NEW s \in Supervisor, NEW kd \in [Kids -> Kid],
         Linked([sup EXCEPT ![p] = s], kd),
         Start(p, s, kd) \/ (s.child = None /\ ~s.respawn /\ Spawn(p, s, kd)),
         built' \in SUBSET Procs, built \cup {p} \subseteq built',
         slot' \in built' \cup {None}
  PROVE  IInv'
<1>1. sup \in [Procs -> Supervisor] /\ Unbuilt
  BY DEF IInv, Shape
<1>2. /\ sup' \in [Procs -> Supervisor]
      /\ kids' \in [Kids -> Kid]
      /\ Linked(sup', kids')
      /\ \A q \in Procs : q # p => sup'[q] = sup[q]
  <2>1. CASE Start(p, s, kd)
    BY <1>1, <2>1, StartLinks
  <2>2. CASE s.child = None /\ ~s.respawn /\ Spawn(p, s, kd)
    BY <1>1, <2>2, SpawnLinks
  <2> QED BY <2>1, <2>2
<1>3. Shape'
  BY <1>2 DEF Shape
<1>4. Unbuilt'
  BY <1>1, <1>2 DEF Unbuilt
<1>5. Linked(sup, kids)'
  BY <1>2 DEF Linked, Held, Holds, PendingMeansDown
<1> QED BY <1>3, <1>4, <1>5 DEF IInv

LEMMA StepLinks == IInv /\ [Next]_vars => IInv'
<1> SUFFICES ASSUME IInv, [Next]_vars PROVE IInv'
  OBVIOUS
<1> USE DEF IInv
<1>0. /\ sup \in [Procs -> Supervisor] /\ kids \in [Kids -> Kid]
      /\ slot \in built \cup {None} /\ built \subseteq Procs
      /\ Linked(sup, kids) /\ Unbuilt
  BY DEF Shape
<1>1. ASSUME NEW c \in Callers, NEW op \in Ops, Begin(c, op) PROVE IInv'
  BY <1>0, <1>1, QuietStep DEF Begin, procVars
<1>2. ASSUME NEW c \in Callers, Request(c) PROVE IInv'
  <2>1. CASE StopAbsent(c)
    BY <1>0, <2>1, QuietStep DEF StopAbsent, procVars
  <2>2. CASE StopChildless(c)
    <3>1. slot \in Procs
      BY <1>0, <2>2 DEF StopChildless
    <3>2. sup' = [sup EXCEPT ![slot] = StopFields(sup[slot])] /\ kids' = kids
          /\ built' = built /\ slot' = None
      BY <2>2 DEF StopChildless
    <3>3. sup' \in [Procs -> Supervisor]
      BY <1>0, <3>1, <3>2, FieldTypes
    <3>4. \A p \in Procs : sup'[p].child = sup[p].child /\ (sup'[p].respawn => sup[p].respawn)
      BY <1>0, <3>2 DEF StopFields, Supervisor
    <3> QED BY <1>0, <3>2, <3>3, <3>4, QuietStep
  <2>3. CASE StopChild(c)
    <3>1. slot \in Procs /\ sup[slot].child \in Kids
      BY <1>0, <2>3 DEF StopChild, Supervisor
    <3>2. /\ sup' = [sup EXCEPT ![slot] = StopFields(sup[slot])]
          /\ kids' = StopKid(kids, sup[slot].child, c)
          /\ built' = built /\ slot' = slot
      BY <2>3 DEF StopChild
    <3>3. sup' \in [Procs -> Supervisor] /\ kids' \in [Kids -> Kid]
      BY <1>0, <3>1, <3>2, FieldTypes, SignalTypes
    <3>4. \A p \in Procs : sup'[p].child = sup[p].child /\ (sup'[p].respawn => sup[p].respawn)
      BY <1>0, <3>2 DEF StopFields, Supervisor
    <3>5. \A k \in Kids : (kids'[k].st = "free" <=> kids[k].st = "free") /\ kids'[k].of = kids[k].of
      BY <1>0, <3>2 DEF StopKid, Kid
    <3> QED BY <1>0, <3>2, <3>3, <3>4, <3>5, QuietStep
  <2>4. CASE StartCached(c)
    <3>1. slot \in built /\ slot \in Procs /\ built' = built /\ slot' = slot
      BY <1>0, <2>4 DEF StartCached
    <3>2. Start(slot, sup[slot], kids)
      BY <2>4 DEF StartCached
    <3>3. sup[slot] \in Supervisor /\ [sup EXCEPT ![slot] = sup[slot]] = sup
      BY <1>0, <3>1
    <3> QED BY <1>0, <3>1, <3>2, <3>3, StartStep
  <2>5. CASE StartMissing(c)
    BY <1>0, <2>5, QuietStep DEF StartMissing, procVars
  <2>6. CASE Construct(c)
    <3>1. PICK p \in AnyOf(Procs \ built) :
            built' = built \cup {p} /\ slot' = p /\ Start(p, NewSupervisor, kids)
      BY <2>6 DEF Construct
    <3>2. p \in Procs \ built
      BY <3>1 DEF AnyOf
    <3>3. NewSupervisor \in Supervisor /\ NewSupervisor.child = None /\ ~NewSupervisor.respawn
      BY ProcessAssumption DEF NewSupervisor, Supervisor, Status
    <3>4. sup[p].child = None
      BY <1>0, <3>2 DEF Unbuilt
    <3>5. Linked([sup EXCEPT ![p] = NewSupervisor], kids)
      <4> DEFINE next == [sup EXCEPT ![p] = NewSupervisor]
      <4>1. \A q \in Procs : next[q].child = sup[q].child /\ (next[q].respawn => sup[q].respawn)
        BY <1>0, <3>2, <3>3, <3>4
      <4> HIDE DEF next
      <4>2. Linked(next, kids)
        BY <1>0, <4>1, KeptLinks
      <4> QED BY <4>2 DEF next
    <3> QED BY <1>0, <3>1, <3>2, <3>3, <3>5, StartStep
  <2> QED BY <1>2, <2>1, <2>2, <2>3, <2>4, <2>5, <2>6 DEF Request
<1>3. ASSUME NEW c \in Callers, StartRefused(c) PROVE IInv'
  BY <1>0, <1>3, QuietStep DEF StartRefused, procVars
<1>4. ASSUME NEW k \in Kids, Exited(k) PROVE IInv'
  <2> DEFINE p == kids[k].of
             s == AfterExit(sup[p], k, kids[k].waiters # {})
             freed == [kids EXCEPT ![k] = FreeKid]
  <2>1. p \in Procs /\ sup[p].child = k /\ k # None
    BY <1>0, <1>4, ProcessAssumption DEF Exited, ExitSeen, Linked, Held
  <2>2. s \in Supervisor
    BY <1>0, <2>1, FieldTypes
  <2>3. freed \in [Kids -> Kid]
    BY <1>0, ProcessAssumption DEF FreeKid, Kid, KidState
  <2>4. s.child = None
    BY <1>0, <2>1 DEF AfterExit, Supervisor
  <2>5. p \in built
    BY <1>0, <2>1 DEF Unbuilt
  <2>6. Linked([sup EXCEPT ![p] = s], freed)
    <3> DEFINE base == [sup EXCEPT ![p] = s]
    <3>1. base[p].child = None /\ \A q \in Procs : q # p => base[q] = sup[q]
      BY <1>0, <2>1, <2>4
    <3>2. freed[k].st = "free" /\ \A j \in Kids : j # k => freed[j] = kids[j]
      BY <1>0 DEF FreeKid
    <3> HIDE DEF base, freed, s
    <3>3. Held(base, freed)
      BY <1>0, <2>1, <3>1, <3>2 DEF Linked, Held
    <3>4. Holds(base, freed)
      BY <1>0, <2>1, <3>1, <3>2 DEF Linked, Holds, Held
    <3>5. PendingMeansDown(base)
      BY <1>0, <3>1 DEF Linked, PendingMeansDown
    <3> QED BY <3>3, <3>4, <3>5 DEF Linked, base
  <2>7. built' = built /\ slot' \in built' \cup {None}
    BY <1>0, <1>4 DEF Exited
  <2>8. CASE "fallback" \in kids[k].waiters
    <3>1. Start(p, s, freed)
      BY <1>4, <2>8 DEF Exited, ExitSeen
    <3>2. p \in Procs /\ built' \in SUBSET Procs /\ built \cup {p} \subseteq built'
      BY <1>0, <2>1, <2>5, <2>7
    <3> HIDE DEF p, s, freed, IInv
    <3>3. IInv
      BY DEF IInv
    <3> QED BY <2>2, <2>3, <2>6, <2>7, <3>1, <3>2, <3>3, StartStep
  <2>9. CASE "fallback" \notin kids[k].waiters
    <3>1. sup' = [sup EXCEPT ![p] = s] /\ kids' = freed
      BY <1>4, <2>9 DEF Exited, ExitSeen
    <3>2. Shape'
      BY <1>0, <2>1, <2>2, <2>3, <2>7, <3>1 DEF Shape
    <3>3. Unbuilt'
      BY <1>0, <2>4, <2>5, <2>7, <3>1 DEF Unbuilt
    <3>4. Linked(sup', kids')
      BY <2>6, <3>1
    <3> QED BY <3>2, <3>3, <3>4 DEF Linked, Held, Holds, PendingMeansDown
  <2> QED BY <2>8, <2>9
<1>5. ASSUME NEW k \in Kids, Quietly(Exits(k) \/ ForceKill(k) \/ SweepKill(k)) PROVE IInv'
  <2>0. built' = built /\ slot' = slot /\ sup' = sup
    BY <1>5 DEF Quietly, Exits, ForceKill, SweepKill
  <2>1. kids' \in [Kids -> Kid]
    BY <1>0, <1>5 DEF Quietly, Exits, ForceKill, SweepKill, Kill, Alive, Kid, KidState
  <2>2. \A j \in Kids : (kids'[j].st = "free" <=> kids[j].st = "free") /\ kids'[j].of = kids[j].of
    BY <1>0, <1>5 DEF Quietly, Exits, ForceKill, SweepKill, Kill, Alive, Kid
  <2> QED BY <1>0, <2>0, <2>1, <2>2, QuietStep
<1>6. ASSUME NEW p \in Procs, Timers(p) PROVE IInv'
  <2>0. built' = built /\ slot' = slot
    BY <1>6 DEF Timers, Quietly
  <2>1. CASE RespawnDue(p)
    <3> DEFINE s == [sup[p] EXCEPT !.respawn = FALSE]
    <3>1. s \in Supervisor /\ ~s.respawn /\ s.child = sup[p].child
      BY <1>0 DEF Supervisor
    <3>2. sup[p].respawn /\ sup[p].child = None
      BY <1>0, <2>1 DEF RespawnDue, Linked, PendingMeansDown
    <3>3. CASE sup[p].intentional
      <4>1. sup' = [sup EXCEPT ![p] = s] /\ kids' = kids
        BY <2>1, <3>3 DEF RespawnDue
      <4>2. \A q \in Procs : sup'[q].child = sup[q].child /\ (sup'[q].respawn => sup[q].respawn)
        BY <1>0, <3>1, <4>1
      <4> QED BY <1>0, <2>0, <3>1, <4>1, <4>2, QuietStep
    <3>4. CASE ~sup[p].intentional
      <4>1. Spawn(p, s, kids)
        BY <2>1, <3>4 DEF RespawnDue
      <4>2. Linked([sup EXCEPT ![p] = s], kids)
        <5> DEFINE next == [sup EXCEPT ![p] = s]
        <5>1. \A q \in Procs : next[q].child = sup[q].child /\ (next[q].respawn => sup[q].respawn)
          BY <1>0, <3>1
        <5> HIDE DEF next
        <5>2. Linked(next, kids)
          BY <1>0, <5>1, KeptLinks
        <5> QED BY <5>2 DEF next
      <4>3. p \in built
        BY <1>0, <3>2 DEF Unbuilt
      <4>4. s \in Supervisor /\ s.child = None /\ ~s.respawn
        BY <3>1, <3>2
      <4>5. /\ kids \in [Kids -> Kid]
            /\ built' \in SUBSET Procs /\ built \cup {p} \subseteq built'
            /\ slot' \in built' \cup {None}
        BY <1>0, <2>0, <4>3
      <4>6. IInv
        OBVIOUS
      <4> HIDE DEF s, IInv
      <4> QED BY ONLY <4>1, <4>2, <4>4, <4>5, <4>6, p \in Procs, StartStep
    <3> QED BY <3>3, <3>4
  <2>2. CASE GraceOver(p) \/ Poll(p) \/ Answer(p)
    <3>1. kids' = kids
      BY <2>2 DEF GraceOver, Poll, Answer
    <3>2. sup' \in [Procs -> Supervisor]
      <4>1. CASE GraceOver(p)
        <5> DEFINE r == [sup[p] EXCEPT !.grace = FALSE, !.ticking = TRUE]
        <5>1. r \in Supervisor
          BY <1>0 DEF Supervisor
        <5>2. sup' = [sup EXCEPT ![p] = r]
          BY <1>0, <4>1 DEF GraceOver
        <5> HIDE DEF r
        <5> QED BY <1>0, <5>1, <5>2
      <4>3. CASE Poll(p)
        <5> DEFINE r == [sup[p] EXCEPT !.probe = "asked"]
        <5>1. r \in Supervisor
          BY <1>0 DEF Supervisor
        <5>2. sup' = [sup EXCEPT ![p] = r]
          BY <1>0, <4>3 DEF Poll
        <5> HIDE DEF r
        <5> QED BY <1>0, <5>1, <5>2
      <4>2. CASE Answer(p)
        <5>1. PICK r \in {"bad", "ok"} : sup' = [sup EXCEPT ![p].probe = r]
          BY <4>2 DEF Answer
        <5> QED BY <1>0, <5>1 DEF Supervisor
      <4> QED BY <2>2, <4>1, <4>2, <4>3
    <3>3. \A q \in Procs : sup'[q].child = sup[q].child /\ (sup'[q].respawn => sup[q].respawn)
      BY <1>0, <2>2 DEF GraceOver, Poll, Answer, Supervisor
    <3> QED BY <1>0, <2>0, <3>1, <3>2, <3>3, QuietStep
  <2>3. CASE Judge(p)
    <3>1. PICK b \in BOOLEAN : sup' = [sup EXCEPT ![p] = Judged(sup[p], b)]
      BY <2>3 DEF Judge
    <3>2. kids' = kids
      BY <2>3 DEF Judge
    <3>3. sup' \in [Procs -> Supervisor]
      BY <1>0, <3>1, FieldTypes
    <3>4. \A q \in Procs : sup'[q].child = sup[q].child /\ (sup'[q].respawn => sup[q].respawn)
      BY <1>0, <3>1 DEF Judged, Supervisor
    <3> QED BY <1>0, <2>0, <3>2, <3>3, <3>4, QuietStep
  <2> QED BY <1>6, <2>1, <2>2, <2>3 DEF Timers, Quietly
<1>7. ASSUME NEW p \in Procs, FallsBack(p) PROVE IInv'
  <2> DEFINE s == [StopFields(sup[p]) EXCEPT !.forced = TRUE]
  <2>0. built' = built /\ slot' = slot /\ kids' = StopKid(kids, sup[p].child, "fallback")
    BY <1>7 DEF FallsBack, FallBack
  <2>1. PICK b \in BOOLEAN : sup' = [sup EXCEPT ![p] = Judged(s, b)]
    BY <1>7 DEF FallsBack, FallBack
  <2>2. s \in Supervisor
    <3> DEFINE t == StopFields(sup[p])
    <3>1. t \in Supervisor
      BY <1>0, FieldTypes
    <3> HIDE DEF t
    <3>2. [t EXCEPT !.forced = TRUE] \in Supervisor
      BY <3>1 DEF Supervisor
    <3> QED BY <3>2 DEF t
  <2>3. s.child = sup[p].child /\ (s.respawn => sup[p].respawn)
    BY <1>0 DEF StopFields, Supervisor
  <2>4. Judged(s, b).child = s.child /\ Judged(s, b).respawn = s.respawn
    BY <2>2 DEF Judged, Supervisor
  <2>5. sup' \in [Procs -> Supervisor]
    BY <1>0, <2>1, <2>2, FieldTypes
  <2>6. \A q \in Procs : sup'[q].child = sup[q].child /\ (sup'[q].respawn => sup[q].respawn)
    <3> HIDE DEF s
    <3> QED BY <1>0, <2>1, <2>3, <2>4
  <2>7. kids' \in [Kids -> Kid]
    <3>1. CASE sup[p].child \in Kids
      BY <1>0, <2>0, <3>1, SignalTypes
    <3>2. CASE sup[p].child \notin Kids
      BY <1>0, <2>0, <3>2 DEF StopKid
    <3> QED BY <3>1, <3>2
  <2>8. \A k \in Kids : (kids'[k].st = "free" <=> kids[k].st = "free") /\ kids'[k].of = kids[k].of
    BY <1>0, <2>0 DEF StopKid, Kid
  <2> QED BY <1>0, <2>0, <2>5, <2>6, <2>7, <2>8, QuietStep
<1>8. CASE UNCHANGED vars
  BY <1>0, <1>8, QuietStep DEF vars, procVars
<1> QED BY <1>1, <1>2, <1>3, <1>4, <1>5, <1>6, <1>7, <1>8 DEF Next

-----------------------------------------------------------------------------
\* Whatever the order of starts, stops, crashes, queued respawns, sweeps and
\* fallbacks, a child whose exit has not been handled is the one its
\* supervisor refers to, so that the next stop() or start() will find it.
THEOREM NoChildLost == Spec => []NoLeak
<1>1. Init => IInv
  BY InitLinks
<1>2. IInv /\ [Next]_vars => IInv'
  BY StepLinks
<1>3. IInv => NoLeak
  BY DEF IInv, Linked, Held, NoLeak
<1> QED BY <1>1, <1>2, <1>3, PTL DEF Spec

-----------------------------------------------------------------------------
(* What the cache agrees with. *)

CallTypes ==
  /\ call \in [Callers -> {Idle} \cup [op : Ops, at : Places]]
  /\ raced \in BOOLEAN

LiveShown == \A p \in Procs : sup[p].child # None => sup[p].status # "stopped"

\* A child whose exit somebody awaits is one its supervisor means to end ...
Stopping ==
  \A k \in Kids : kids[k].waiters # {} => kids[k].st # "free" /\ sup[kids[k].of].intentional

\* ... and a request awaits the exit of one child only.
Waiters ==
  /\ \A k \in Kids, c \in Callers : c \in kids[k].waiters => call[c].at = "stopping"
  /\ \A j, k \in Kids, c \in Callers :
       c \in kids[j].waiters /\ c \in kids[k].waiters => j = k

\* While calls come one at a time, the object under construction finds the
\* cache empty, and only the cached supervisor has a child at any step.
Serial ==
  ~raced => /\ \A c, d \in Active : c = d
            /\ Active # {} => ~FallbackPending
            /\ OnlyCached
            /\ \A c \in Callers : call[c].at = "constructing" => slot = None

AInv == IInv /\ CallTypes /\ LiveShown /\ Stopping /\ Waiters /\ Serial

\* What a signal, a sweep or a timer leaves as it was
SupSame ==
  \A p \in Procs : /\ sup'[p].child = sup[p].child
                   /\ sup[p].intentional => sup'[p].intentional
                   /\ sup'[p].respawn => sup[p].respawn
                   /\ sup'[p].status = "stopped" => sup[p].status = "stopped" \/ sup[p].child = None

SameKid(k, kd) ==
  /\ kids'[k].waiters = kd[k].waiters
  /\ kids'[k].waiters # {} =>
       kids'[k].of = kd[k].of /\ (kids'[k].st # "free" <=> kd[k].st # "free")

\* A spawned child has no listener of a stop() yet
LEMMA SpawnEffect ==
  ASSUME NEW p \in Procs, NEW s \in Supervisor, NEW kd \in [Kids -> Kid],
         sup \in [Procs -> Supervisor], s.child = None, Spawn(p, s, kd),
         \A k \in Kids : kd[k].st = "free" => kd[k].waiters = {}
  PROVE  /\ \A q \in Procs : q # p => sup'[q] = sup[q]
         /\ sup'[p].child \in Kids /\ sup'[p].status # "stopped"
         /\ kids'[sup'[p].child].waiters = {}
         /\ \A k \in Kids : SameKid(k, kd)
<1>1. PICK k \in AnyOf(Fresh(kd)), ok \in BOOLEAN :
        /\ sup' = [sup EXCEPT ![p] = SpawnedOn(s, k, ok)]
        /\ kids' = [j \in Kids |->
             IF j = k THEN [FreeKid EXCEPT !.st = IF ok THEN "up" ELSE "failed", !.of = p]
             ELSE IF j \in ChildOf(s) THEN Kill(kd, j)[j] ELSE kd[j]]
  BY DEF Spawn
<1>2. k \in Kids /\ kd[k].st = "free" /\ ChildOf(s) = {}
  BY <1>1 DEF AnyOf, Fresh, ChildOf
<1>3. SpawnedOn(s, k, ok).child = k /\ SpawnedOn(s, k, ok).status # "stopped"
  BY DEF SpawnedOn, Supervisor
<1>4. kids'[k].waiters = {} /\ \A j \in Kids : j # k => kids'[j] = kd[j]
  BY <1>1, <1>2 DEF FreeKid
<1>5. \A j \in Kids : SameKid(j, kd)
  BY <1>2, <1>4 DEF SameKid
<1> QED BY <1>1, <1>2, <1>3, <1>4, <1>5

LEMMA StartEffect ==
  ASSUME NEW p \in Procs, NEW s \in Supervisor, NEW kd \in [Kids -> Kid],
         sup \in [Procs -> Supervisor], Start(p, s, kd),
         \A k \in Kids : kd[k].st = "free" => kd[k].waiters = {}
  PROVE  /\ \A q \in Procs : q # p => sup'[q] = sup[q]
         /\ s.child # None => sup'[p] = s
         /\ s.child = None => /\ sup'[p].child \in Kids /\ sup'[p].status # "stopped"
                              /\ kids'[sup'[p].child].waiters = {}
         /\ \A k \in Kids : SameKid(k, kd)
<1> DEFINE swept == Swept(s, kd)
           t == [s EXCEPT !.intentional = FALSE, !.respawn = FALSE]
<1>1. swept \in [Kids -> Kid]
  <2>1. CASE Kids = {}
    BY <2>1 DEF Swept
  <2>2. CASE Kids # {}
    BY <2>2, SignalTypes
  <2> QED BY <2>1, <2>2
<1>2. \A k \in Kids : swept[k].st = kd[k].st /\ swept[k].of = kd[k].of
                      /\ swept[k].waiters = kd[k].waiters
  BY DEF Swept, Kid
<1>3. t \in Supervisor /\ t.child = s.child
  BY DEF Supervisor
<1>4. CASE s.child # None
  <2>1. sup' = [sup EXCEPT ![p] = s] /\ kids' = swept
    BY <1>4 DEF Start
  <2>2. \A k \in Kids : SameKid(k, kd)
    BY <1>2, <2>1 DEF SameKid
  <2> QED BY <1>4, <2>1, <2>2
<1>5. CASE s.child = None
  <2>1. Spawn(p, t, swept)
    BY <1>5 DEF Start
  <2>2. \A k \in Kids : swept[k].st = "free" => swept[k].waiters = {}
    BY <1>2
  <2> HIDE DEF swept, t
  <2>3. /\ \A q \in Procs : q # p => sup'[q] = sup[q]
        /\ sup'[p].child \in Kids /\ sup'[p].status # "stopped"
        /\ kids'[sup'[p].child].waiters = {}
        /\ \A k \in Kids : SameKid(k, swept)
    BY <1>1, <1>3, <1>5, <2>1, <2>2, SpawnEffect
  <2>4. \A k \in Kids : SameKid(k, kd)
    BY <1>2, <2>3 DEF SameKid
  <2> QED BY <1>5, <2>3, <2>4
<1> QED BY <1>4, <1>5

\* Steps that leave the children and their listeners alone
LEMMA SupKept ==
  ASSUME AInv, IInv', SupSame, \A k \in Kids : SameKid(k, kids)
  PROVE  /\ LiveShown' /\ Stopping'
         /\ (FallbackPending' => FallbackPending)
         /\ (slot' = slot /\ OnlyCached => OnlyCached')
<1>1. LiveShown'
  BY DEF AInv, LiveShown, SupSame
<1>2. Stopping'
  BY DEF AInv, Stopping, SupSame, SameKid, IInv, Linked, Held
<1>3. FallbackPending' => FallbackPending
  BY DEF FallbackPending, SameKid
<1>4. slot' = slot /\ OnlyCached => OnlyCached'
  BY DEF OnlyCached, SupSame
<1> QED BY <1>1, <1>2, <1>3, <1>4

\* ... and whose calls are untouched
LEMMA QuietAgree ==
  ASSUME AInv, IInv', SupSame, \A k \in Kids : SameKid(k, kids), UNCHANGED <<slot, call>>,
         raced' \in BOOLEAN, raced => raced'
  PROVE  AInv'
<1>1. LiveShown' /\ Stopping'
  BY SupKept
<1>2. CallTypes' /\ Waiters'
  BY DEF AInv, CallTypes, Waiters, SameKid
<1>3. Active' = Active
  BY DEF Active
<1>4. Serial'
  <2> SUFFICES ASSUME ~raced' PROVE Serial'
    BY DEF Serial
  <2>1. (FallbackPending' => FallbackPending) /\ OnlyCached'
    BY SupKept DEF AInv, Serial
  <2> QED BY <1>3, <2>1 DEF AInv, Serial
<1> QED BY <1>1, <1>2, <1>4 DEF AInv

\* A start for a cached or a new supervisor, with what its caller does
LEMMA StartAgree ==
  ASSUME IInv', NEW p \in Procs, NEW s, NEW kd,
         /\ \A q \in Procs : q # p => sup'[q] = sup[q]
         /\ s.child # None => sup'[p] = s
         /\ s.child = None => /\ sup'[p].child \in Kids /\ sup'[p].status # "stopped"
                              /\ kids'[sup'[p].child].waiters = {}
         /\ \A k \in Kids : SameKid(k, kd),
         LiveShown, s.child # None => s.status # "stopped",
         \A k \in Kids : kd[k].waiters # {} =>
            kd[k].st # "free" /\ kd[k].of \in Procs /\ sup[kd[k].of].intentional
            /\ (kd[k].of = p => s.intentional)
  PROVE  LiveShown' /\ Stopping'
<1>1. LiveShown'
  BY DEF LiveShown
<1>2. ASSUME NEW k \in Kids, kids'[k].waiters # {}
      PROVE  kids'[k].st # "free" /\ sup'[kids'[k].of].intentional
  <2>1. kids'[k].st # "free" /\ kids'[k].of = kd[k].of /\ kd[k].waiters # {}
    BY <1>2 DEF SameKid
  <2>2. kids'[k].of \in Procs /\ sup'[kids'[k].of].child = k
    BY <2>1 DEF IInv, Linked, Held
  <2>3. CASE kids'[k].of = p
    BY <1>2, <2>1, <2>2, <2>3
  <2>4. CASE kids'[k].of # p
    BY <2>1, <2>2, <2>4
  <2> QED BY <2>1, <2>3, <2>4
<1> QED BY <1>1, <1>2 DEF Stopping

\* A waiter is a request or the fallback, and a free child has none
LEMMA WaiterTypes ==
  ASSUME AInv
  PROVE  /\ \A k \in Kids : kids[k].waiters \subseteq Callers \cup {"fallback"}
         /\ \A k \in Kids : kids[k].st = "free" => kids[k].waiters = {}
         /\ \A k \in Kids : kids[k].st # "free" => kids[k].of \in Procs /\ sup[kids[k].of].child = k
         /\ sup \in [Procs -> Supervisor] /\ kids \in [Kids -> Kid]
         /\ slot \in built \cup {None} /\ built \subseteq Procs
<1>1. \A r \in Kid : r.waiters \subseteq Callers \cup {"fallback"}
  BY DEF Kid
<1> QED BY <1>1 DEF AInv, IInv, Shape, Stopping, Linked, Held

LEMMA CallRecords ==
  ASSUME NEW r \in {Idle} \cup [op : Ops, at : Places]
  PROVE  /\ r.at \in Places \cup {"idle"}
         /\ r.at # "idle" => r \in [op : Ops, at : Places]
         /\ \A x \in Places : r.at # "idle" => [r EXCEPT !.at = x] \in [op : Ops, at : Places]
         /\ \A x \in Places : r.at # "idle" => [r EXCEPT !.at = x].at = x
         /\ r.at # "idle" => AfterStop(r) \in {Idle} \cup [op : Ops, at : Places]
         /\ AfterStop(r).at \in {"idle", "toStart"}
         /\ Idle.at = "idle"
BY DEF Idle, Places, AfterStop

LEMMA StepAgree == AInv /\ IInv' /\ [Next]_vars => AInv'
<1> SUFFICES ASSUME AInv, IInv', [Next]_vars PROVE AInv'
  OBVIOUS
<1>0. /\ sup \in [Procs -> Supervisor] /\ kids \in [Kids -> Kid]
      /\ slot \in built \cup {None} /\ built \subseteq Procs
      /\ \A k \in Kids : kids[k].waiters \subseteq Callers \cup {"fallback"}
      /\ \A k \in Kids : kids[k].st = "free" => kids[k].waiters = {}
      /\ \A k \in Kids : kids[k].st # "free" => kids[k].of \in Procs /\ sup[kids[k].of].child = k
  BY WaiterTypes
<1>c. CallTypes /\ LiveShown /\ Stopping /\ Waiters /\ Serial
  BY DEF AInv
<1>r. \A c \in Callers : call[c] \in {Idle} \cup [op : Ops, at : Places]
  BY <1>c DEF CallTypes
<1>s. UNCHANGED procVars => SupSame /\ \A k \in Kids : SameKid(k, kids)
  BY DEF procVars, SupSame, SameKid
\* one request moves on, nothing else
<1>m. ASSUME NEW c \in Callers, NEW r \in {Idle} \cup [op : Ops, at : Places],
             call' = [call EXCEPT ![c] = r], call[c].at # "stopping", r.at # "stopping",
             \A k \in Kids : SameKid(k, kids), LiveShown', Stopping', raced' \in BOOLEAN
      PROVE  /\ CallTypes' /\ Waiters'
             /\ \A d \in Callers : d # c => call'[d] = call[d]
             /\ call'[c] = r
  <2>1. CallTypes'
    BY <1>c, <1>m DEF CallTypes
  <2>2. call'[c] = r /\ \A d \in Callers : d # c => call'[d] = call[d]
    BY <1>c, <1>m DEF CallTypes
  <2>3. \A k \in Kids : c \notin kids[k].waiters
    BY <1>c, <1>m DEF Waiters
  <2>4. Waiters'
    BY <1>c, <1>m, <2>2, <2>3 DEF Waiters, SameKid
  <2> QED BY <2>1, <2>2, <2>4
<1>1. ASSUME NEW c \in Callers, NEW op \in Ops, Begin(c, op) PROVE AInv'
  <2> DEFINE r == [op |-> op, at |-> IF op = "start" THEN "toStart" ELSE "toStop"]
  <2>1. r \in [op : Ops, at : Places] /\ r.at \in {"toStart", "toStop"}
    BY DEF Places
  <2>2. call' = [call EXCEPT ![c] = r] /\ call[c].at = "idle" /\ UNCHANGED <<procVars, slot>>
        /\ raced' = (raced \/ Active # {} \/ FallbackPending)
    BY <1>1 DEF Begin, Idle
  <2>3. LiveShown' /\ Stopping' /\ SupSame /\ \A k \in Kids : SameKid(k, kids)
    BY <1>s, <2>2, SupKept
  <2>4. raced' \in BOOLEAN
    BY <2>2
  <2> HIDE DEF r
  <2>5. /\ CallTypes' /\ Waiters' /\ call'[c] = r
        /\ \A d \in Callers : d # c => call'[d] = call[d]
    BY <1>m, <2>1, <2>2, <2>3, <2>4
  <2>6. Serial'
    <3> SUFFICES ASSUME ~raced' PROVE Serial'
      BY DEF Serial
    <3>1. ~raced /\ Active = {} /\ ~FallbackPending
      BY <2>2
    <3>2. ~FallbackPending' /\ OnlyCached'
      BY <1>c, <2>2, <2>3, <3>1, SupKept DEF Serial
    <3>3. Active' \subseteq {c}
      BY <2>5, <3>1 DEF Active
    <3>4. \A d \in Callers : call'[d].at # "constructing"
      BY <2>1, <2>5, <3>1 DEF Active
    <3> QED BY <3>2, <3>3, <3>4 DEF Serial
  <2> QED BY <2>3, <2>5, <2>6 DEF AInv
\* a request moves on without touching a process
<1>n. ASSUME NEW c \in Callers, NEW r \in {Idle} \cup [op : Ops, at : Places],
             call' = [call EXCEPT ![c] = r], call[c].at \notin {"idle", "stopping"},
             r.at # "stopping", r.at = "constructing" => slot' = None,
             \A k \in Kids : SameKid(k, kids), LiveShown', Stopping', UNCHANGED raced,
             ~raced /\ OnlyCached => OnlyCached',
             slot' = slot \/ slot' = None \/ r = Idle
      PROVE  AInv'
  <2>1. raced' \in BOOLEAN
    BY <1>c, <1>n DEF CallTypes
  <2>2. /\ CallTypes' /\ Waiters' /\ call'[c] = r
        /\ \A d \in Callers : d # c => call'[d] = call[d]
    BY <1>m, <1>n, <2>1
  <2>3. Serial'
    <3> SUFFICES ASSUME ~raced' PROVE Serial'
      BY DEF Serial
    <3>1. ~raced /\ c \in Active /\ Active = {c} /\ ~FallbackPending /\ OnlyCached
      BY <1>c, <1>n DEF Serial, Active
    <3>2. OnlyCached' /\ ~FallbackPending'
      BY <1>n, <3>1 DEF FallbackPending, SameKid
    <3>3. Active' \subseteq {c} /\ \A d \in Callers : d # c => call'[d].at = "idle"
      BY <2>2, <3>1 DEF Active
    <3>4. \A d \in Callers : call'[d].at = "constructing" => slot' = None
      BY <1>n, <2>2, <3>3
    <3> QED BY <3>2, <3>3, <3>4 DEF Serial
  <2> QED BY <1>n, <2>2, <2>3 DEF AInv
<1>2. ASSUME NEW c \in Callers, Request(c) PROVE AInv'
  <2>1. CASE StopAbsent(c)
    <3> DEFINE r == AfterStop(call[c])
    <3>1. r \in {Idle} \cup [op : Ops, at : Places] /\ r.at \in {"idle", "toStart"}
      BY <1>r, <2>1, CallRecords DEF StopAbsent
    <3>2. call' = [call EXCEPT ![c] = r] /\ call[c].at = "toStop" /\ UNCHANGED <<procVars, slot, raced>>
      BY <2>1 DEF StopAbsent
    <3>3. LiveShown' /\ Stopping' /\ (OnlyCached => OnlyCached') /\ \A k \in Kids : SameKid(k, kids)
      BY <1>s, <3>2, SupKept
    <3> HIDE DEF r
    <3> QED BY <1>n, <3>1, <3>2, <3>3
  <2>2. CASE StopChildless(c)
    <3> DEFINE r == AfterStop(call[c])
    <3>1. r \in {Idle} \cup [op : Ops, at : Places] /\ r.at \in {"idle", "toStart"}
      BY <1>r, <2>2, CallRecords DEF StopChildless
    <3>2. /\ call' = [call EXCEPT ![c] = r] /\ call[c].at = "toStop" /\ UNCHANGED raced
          /\ slot \in Procs /\ sup[slot].child = None
          /\ sup' = [sup EXCEPT ![slot] = StopFields(sup[slot])] /\ kids' = kids /\ slot' = None
      BY <1>0, <2>2 DEF StopChildless
    <3>3. SupSame /\ \A k \in Kids : SameKid(k, kids)
      BY <1>0, <3>2 DEF SupSame, SameKid, StopFields, Supervisor
    <3>4. LiveShown' /\ Stopping'
      BY <3>3, SupKept
    <3>5. sup'[slot].child = None /\ ~sup'[slot].respawn
      BY <1>0, <3>2 DEF StopFields, Supervisor
    <3>6. \A q \in Procs : q # slot => sup'[q] = sup[q]
      BY <1>0, <3>2
    <3>7. OnlyCached => OnlyCached'
      BY <3>5, <3>6 DEF OnlyCached
    <3> HIDE DEF r
    <3> QED BY <1>n, <3>1, <3>2, <3>3, <3>4, <3>7
  <2>3. CASE StopChild(c)
    <3>1. /\ call' = [call EXCEPT ![c].at = "stopping"] /\ call[c].at = "toStop" /\ UNCHANGED <<slot, raced>>
          /\ slot \in Procs /\ sup[slot].child \in Kids
          /\ sup' = [sup EXCEPT ![slot] = StopFields(sup[slot])]
          /\ kids' = StopKid(kids, sup[slot].child, c)
      BY <1>0, <2>3 DEF StopChild, Supervisor
    <3> DEFINE x == sup[slot].child
    <3>2. kids[x].st # "free" /\ kids[x].of = slot
      BY <3>1, ProcessAssumption DEF AInv, IInv, Linked, Holds
    <3>3. /\ \A k \in Kids : kids'[k].of = kids[k].of /\ (kids'[k].st = "free" <=> kids[k].st = "free")
          /\ \A k \in Kids : k # x => kids'[k].waiters = kids[k].waiters
          /\ kids'[x].waiters = kids[x].waiters \cup {c}
      BY <1>0, <3>1 DEF StopKid, Kid
    <3>4. SupSame /\ sup'[slot].intentional
      BY <1>0, <3>1 DEF SupSame, StopFields, Supervisor
    <3> HIDE DEF x
    <3>5. LiveShown' /\ (OnlyCached => OnlyCached')
      BY <1>c, <3>1, <3>4 DEF LiveShown, OnlyCached, SupSame
    <3>6. Stopping'
      <4> SUFFICES ASSUME NEW k \in Kids, kids'[k].waiters # {}
                   PROVE  kids'[k].st # "free" /\ sup'[kids'[k].of].intentional
        BY DEF Stopping
      <4>1. CASE k = x
        BY <3>2, <3>3, <3>4, <4>1
      <4>2. CASE k # x
        <5>1. kids[k].st # "free" /\ kids[k].of \in Procs /\ sup[kids[k].of].intentional
          BY <1>0, <1>c, <3>3, <4>2 DEF Stopping
        <5> QED BY <3>3, <3>4, <4>2, <5>1 DEF SupSame
      <4> QED BY <4>1, <4>2
    <3>7. [call[c] EXCEPT !.at = "stopping"] \in [op : Ops, at : Places]
      BY <1>r, <3>1, CallRecords DEF Places
    <3>8. call'[c].at = "stopping" /\ \A d \in Callers : d # c => call'[d] = call[d]
      <4>1. [call[c] EXCEPT !.at = "stopping"].at = "stopping"
        BY <1>r, <3>1, CallRecords DEF Places
      <4> QED BY <1>c, <3>1, <4>1 DEF CallTypes
    <3>9. CallTypes'
      BY <1>c, <3>1, <3>7 DEF CallTypes
    <3>10. Waiters'
      <4>1. \A k \in Kids : c \notin kids[k].waiters
        BY <1>c, <3>1 DEF Waiters
      <4> QED BY <1>c, <3>3, <3>8, <4>1 DEF Waiters
    <3>11. Serial'
      <4> SUFFICES ASSUME ~raced' PROVE Serial'
        BY DEF Serial
      <4>1. ~raced /\ Active = {c} /\ ~FallbackPending /\ OnlyCached
        BY <1>c, <3>1 DEF Serial, Active
      <4>2. ~FallbackPending'
        BY <3>3, <4>1, ProcessAssumption DEF FallbackPending
      <4>3. Active' \subseteq {c} /\ \A d \in Callers : call'[d].at # "constructing"
        BY <3>8, <4>1 DEF Active
      <4> QED BY <3>5, <4>1, <4>2, <4>3 DEF Serial
    <3> QED BY <3>5, <3>6, <3>9, <3>10, <3>11 DEF AInv
  <2>4. CASE StartCached(c)
    <3>1. /\ call' = [call EXCEPT ![c] = Idle] /\ call[c].at = "toStart" /\ UNCHANGED <<slot, raced>>
          /\ slot \in Procs /\ Start(slot, sup[slot], kids) /\ sup[slot] \in Supervisor
      BY <1>0, <2>4 DEF StartCached
    <3>2. /\ \A q \in Procs : q # slot => sup'[q] = sup[q]
          /\ sup[slot].child # None => sup'[slot] = sup[slot]
          /\ sup[slot].child = None => /\ sup'[slot].child \in Kids /\ sup'[slot].status # "stopped"
                                       /\ kids'[sup'[slot].child].waiters = {}
          /\ \A k \in Kids : SameKid(k, kids)
      BY <1>0, <3>1, StartEffect
    <3>3. LiveShown' /\ Stopping'
      <4>1. \A k \in Kids : kids[k].waiters # {} =>
              kids[k].st # "free" /\ kids[k].of \in Procs /\ sup[kids[k].of].intentional
              /\ (kids[k].of = slot => sup[slot].intentional)
        BY <1>0, <1>c DEF Stopping
      <4>2. sup[slot].child # None => sup[slot].status # "stopped"
        BY <1>c, <3>1 DEF LiveShown
      <4> QED BY <1>c, <3>1, <3>2, <4>1, <4>2, StartAgree
    <3>4. OnlyCached => OnlyCached'
      BY <3>1, <3>2 DEF OnlyCached
    <3>5. Idle \in {Idle} \cup [op : Ops, at : Places] /\ Idle.at = "idle"
      BY DEF Idle
    <3> QED BY <1>n, <3>1, <3>2, <3>3, <3>4, <3>5
  <2>5. CASE StartMissing(c)
    <3> DEFINE r == [call[c] EXCEPT !.at = "constructing"]
    <3>1. r \in [op : Ops, at : Places] /\ r.at = "constructing"
      BY <1>r, <2>5, CallRecords DEF StartMissing, Places
    <3>2. call' = [call EXCEPT ![c] = r] /\ call[c].at = "toStart" /\ UNCHANGED <<procVars, slot, raced>>
          /\ slot = None
      BY <2>5 DEF StartMissing
    <3>3. LiveShown' /\ Stopping' /\ (OnlyCached => OnlyCached') /\ \A k \in Kids : SameKid(k, kids)
      BY <1>s, <3>2, SupKept
    <3> HIDE DEF r
    <3> QED BY <1>n, <3>1, <3>2, <3>3
  <2>6. CASE Construct(c)
    <3>1. PICK p \in AnyOf(Procs \ built) :
            built' = built \cup {p} /\ slot' = p /\ Start(p, NewSupervisor, kids)
      BY <2>6 DEF Construct
    <3>2. p \in Procs /\ call' = [call EXCEPT ![c] = Idle] /\ call[c].at = "constructing" /\ UNCHANGED raced
      BY <2>6, <3>1 DEF Construct, AnyOf
    <3>3. NewSupervisor \in Supervisor /\ NewSupervisor.child = None
      BY ProcessAssumption DEF NewSupervisor, Supervisor, Status
    <3>4. /\ \A q \in Procs : q # p => sup'[q] = sup[q]
          /\ sup'[p].child \in Kids /\ sup'[p].status # "stopped" /\ kids'[sup'[p].child].waiters = {}
          /\ \A k \in Kids : SameKid(k, kids)
      <4>1. /\ sup \in [Procs -> Supervisor] /\ kids \in [Kids -> Kid]
            /\ \A k \in Kids : kids[k].st = "free" => kids[k].waiters = {}
        BY <1>0
      <4>2. Start(p, NewSupervisor, kids) /\ p \in Procs
        BY <3>1, <3>2
      <4> DEFINE n == NewSupervisor
      <4>3. n \in Supervisor /\ n.child = None /\ Start(p, n, kids)
        BY <3>3, <4>2
      <4> HIDE DEF n
      <4> QED BY ONLY <4>1, <4>2, <4>3, StartEffect
    <3>5. LiveShown' /\ Stopping'
      <4>1. \A k \in Kids : kids[k].st # "free" => kids[k].of # p
        BY <1>0, <3>1, ProcessAssumption DEF AInv, IInv, Unbuilt, AnyOf
      <4>2. \A k \in Kids : kids[k].waiters # {} =>
              kids[k].st # "free" /\ kids[k].of \in Procs /\ sup[kids[k].of].intentional
              /\ (kids[k].of = p => NewSupervisor.intentional)
        BY <1>0, <1>c, <4>1 DEF Stopping
      <4> HIDE DEF NewSupervisor
      <4> QED BY <1>c, <3>2, <3>3, <3>4, <4>2, StartAgree
    <3>6. ~raced /\ OnlyCached => OnlyCached'
      BY <1>c, <3>1, <3>2, <3>4, ProcessAssumption DEF Serial, OnlyCached
    <3>7. Idle \in {Idle} \cup [op : Ops, at : Places] /\ Idle.at = "idle"
      BY DEF Idle
    <3> QED BY <1>n, <3>2, <3>4, <3>5, <3>6, <3>7
  <2> QED BY <1>2, <2>1, <2>2, <2>3, <2>4, <2>5, <2>6 DEF Request
<1>3. ASSUME NEW c \in Callers, StartRefused(c) PROVE AInv'
  <2>1. call' = [call EXCEPT ![c] = Idle] /\ call[c].at = "toStart" /\ UNCHANGED <<procVars, slot, raced>>
    BY <1>3 DEF StartRefused
  <2>2. LiveShown' /\ Stopping' /\ (OnlyCached => OnlyCached') /\ \A k \in Kids : SameKid(k, kids)
    BY <1>s, <2>1, SupKept
  <2>3. Idle \in {Idle} \cup [op : Ops, at : Places] /\ Idle.at = "idle"
    BY DEF Idle
  <2> QED BY <1>n, <2>1, <2>2, <2>3
<1>4. ASSUME NEW k \in Kids, Exited(k) PROVE AInv'
  <2> DEFINE p == kids[k].of
             s == AfterExit(sup[p], k, kids[k].waiters # {})
             freed == [kids EXCEPT ![k] = FreeKid]
             resumed == kids[k].waiters \cap Callers
  <2>1. p \in Procs /\ sup[p].child = k /\ k # None
    BY <1>0, <1>4, ProcessAssumption DEF Exited, ExitSeen
  <2>2. /\ s \in Supervisor /\ s.child = None
        /\ s.respawn => sup[p].respawn \/ ~sup[p].intentional
    <3>1. sup[p] \in Supervisor
      BY <1>0, <2>1
    <3>2. s \in Supervisor
      BY <2>1, <3>1, FieldTypes
    <3>3. s.child = None
      BY <2>1, <3>1 DEF AfterExit, Supervisor
    <3>4. s.respawn => sup[p].respawn \/ ~sup[p].intentional
      BY <3>1 DEF AfterExit, Supervisor
    <3> QED BY <3>2, <3>3, <3>4
  <2>3. /\ freed \in [Kids -> Kid] /\ freed[k].waiters = {} /\ freed[k].st = "free"
        /\ \A j \in Kids : j # k => freed[j] = kids[j]
    BY <1>0, ProcessAssumption DEF FreeKid, Kid, KidState
  <2>4. /\ \A q \in Procs : q # p => sup'[q] = sup[q]
        /\ \A j \in Kids : SameKid(j, freed)
        /\ "fallback" \notin kids[k].waiters => sup'[p] = s
        /\ "fallback" \in kids[k].waiters =>
             /\ sup'[p].child \in Kids /\ sup'[p].status # "stopped"
             /\ kids'[sup'[p].child].waiters = {}
    <3>1. CASE "fallback" \in kids[k].waiters
      <4>1. Start(p, s, freed)
        BY <1>4, <3>1 DEF Exited, ExitSeen
      <4>2. \A j \in Kids : freed[j].st = "free" => freed[j].waiters = {}
        BY <1>0, <2>3
      <4>3. sup \in [Procs -> Supervisor]
        BY <1>0
      <4> HIDE DEF p, s, freed
      <4> QED BY ONLY <2>1, <2>2, <2>3, <3>1, <4>1, <4>2, <4>3, StartEffect
    <3>2. CASE "fallback" \notin kids[k].waiters
      <4>1. sup' = [sup EXCEPT ![p] = s] /\ kids' = freed
        BY <1>4, <3>2 DEF Exited, ExitSeen
      <4> HIDE DEF s, freed
      <4> QED BY <1>0, <2>1, <3>2, <4>1 DEF SameKid
    <3> QED BY <3>1, <3>2
  <2>5. /\ slot' = IF resumed # {} THEN None ELSE slot
        /\ call' = [c \in Callers |-> IF c \in resumed THEN AfterStop(call[c]) ELSE call[c]]
        /\ UNCHANGED <<built, raced>>
    BY <1>4 DEF Exited
  <2> HIDE DEF s, freed
  <2>6. \A j \in Kids : kids'[j].waiters # {} => /\ j # k /\ kids'[j].waiters = kids[j].waiters
                                                /\ kids'[j].of = kids[j].of /\ kids'[j].st # "free"
    BY <1>0, <2>3, <2>4 DEF SameKid
  <2>7. LiveShown'
    BY <1>c, <2>1, <2>2, <2>4 DEF LiveShown
  <2>8. Stopping'
    <3> SUFFICES ASSUME NEW j \in Kids, kids'[j].waiters # {}
                 PROVE  kids'[j].st # "free" /\ sup'[kids'[j].of].intentional
      BY DEF Stopping
    <3>1. kids[j].st # "free" /\ sup[kids[j].of].intentional
      BY <1>c, <2>6 DEF Stopping
    <3>2. kids[j].of \in Procs /\ kids[j].of # p
      BY <1>0, <2>1, <2>6, <3>1
    <3> QED BY <2>4, <2>6, <3>1, <3>2
  <2>9. \A c \in resumed : call[c].at = "stopping" /\ AfterStop(call[c]).at \in {"idle", "toStart"}
                           /\ AfterStop(call[c]) \in {Idle} \cup [op : Ops, at : Places]
    BY <1>c, <1>r, CallRecords DEF Waiters
  <2>10. CallTypes'
    BY <1>c, <2>5, <2>9 DEF CallTypes
  <2>11. Waiters'
    <3>1. \A j \in Kids : kids'[j].waiters \subseteq kids[j].waiters
      BY <2>6
    <3>2. \A j \in Kids, c \in Callers : c \in kids'[j].waiters => c \notin resumed
      BY <1>c, <2>6 DEF Waiters
    <3>3. \A c \in Callers : c \notin resumed => call'[c] = call[c]
      BY <2>5
    <3> QED BY <1>c, <3>1, <3>2, <3>3 DEF Waiters
  <2>12. Serial'
    <3> SUFFICES ASSUME ~raced' PROVE Serial'
      BY DEF Serial
    <3>1. ~raced /\ OnlyCached /\ slot = p
      BY <1>c, <2>1, <2>5, ProcessAssumption DEF Serial, OnlyCached
    <3>2. \A c \in Callers : call'[c] = call[c] \/ c \in resumed
      BY <2>5
    <3>3. Active' \subseteq Active
      BY <2>9, <3>2 DEF Active
    <3>4. FallbackPending' => FallbackPending
      BY <2>6 DEF FallbackPending
    <3>5. \A c \in Callers : call'[c].at = "constructing" => slot' = None
      BY <1>c, <2>5, <2>9, <3>1, <3>2 DEF Serial
    <3>6. OnlyCached'
      <4>1. \A q \in Procs : q # p => sup'[q].child = None /\ ~sup'[q].respawn
        BY <2>4, <3>1 DEF OnlyCached
      <4>2. CASE resumed = {}
        BY <2>5, <3>1, <4>1, <4>2 DEF OnlyCached
      <4>3. CASE resumed # {}
        <5>1. "fallback" \notin kids[k].waiters
          BY <1>c, <2>9, <3>1, <4>3 DEF Serial, Active, FallbackPending
        <5>2. sup[p].intentional /\ ~sup[p].respawn
          BY <1>c, <2>1, <4>3, ProcessAssumption
          DEF Stopping, AInv, IInv, Linked, PendingMeansDown
        <5>3. sup'[p].child = None /\ ~sup'[p].respawn
          BY <2>2, <2>4, <5>1, <5>2
        <5> QED BY <4>1, <5>3 DEF OnlyCached
      <4> QED BY <4>2, <4>3
    <3> QED BY <1>c, <3>1, <3>3, <3>4, <3>5, <3>6 DEF Serial
  <2> QED BY <2>7, <2>8, <2>10, <2>11, <2>12 DEF AInv
<1>5. ASSUME NEW k \in Kids, Quietly(Exits(k) \/ ForceKill(k) \/ SweepKill(k)) PROVE AInv'
  <2>1. UNCHANGED <<slot, call, raced>> /\ sup' = sup
    BY <1>5 DEF Quietly, Exits, ForceKill, SweepKill
  <2>2. \A j \in Kids : SameKid(j, kids)
    BY <1>0, <1>5 DEF Quietly, Exits, ForceKill, SweepKill, Kill, Alive, Kid, SameKid
  <2>3. SupSame /\ raced' \in BOOLEAN
    BY <1>c, <2>1 DEF SupSame, CallTypes
  <2> QED BY <2>1, <2>2, <2>3, QuietAgree
<1>6. ASSUME NEW p \in Procs, Timers(p) PROVE AInv'
  <2>0. UNCHANGED <<slot, call, raced>> /\ raced' \in BOOLEAN
    BY <1>6, <1>c DEF Timers, Quietly, CallTypes
  <2>1. CASE RespawnDue(p) /\ ~sup[p].intentional
    <3> DEFINE s == [sup[p] EXCEPT !.respawn = FALSE]
    <3>0. sup[p].respawn
      BY <2>1 DEF RespawnDue
    <3>1. s \in Supervisor /\ s.child = None
      <4>1. sup[p] \in Supervisor /\ sup[p].child = None
        BY <1>0, <2>1 DEF RespawnDue, AInv, IInv, Linked, PendingMeansDown
      <4> QED BY <4>1 DEF Supervisor
    <3>2. Spawn(p, s, kids)
      BY <2>1 DEF RespawnDue
    <3> HIDE DEF s
    <3>3. /\ \A q \in Procs : q # p => sup'[q] = sup[q]
          /\ sup'[p].child \in Kids /\ sup'[p].status # "stopped" /\ kids'[sup'[p].child].waiters = {}
          /\ \A k \in Kids : SameKid(k, kids)
      BY <1>0, <3>1, <3>2, SpawnEffect
    <3>4. LiveShown' /\ Stopping'
      <4>1. \A k \in Kids : kids[k].waiters # {} =>
              kids[k].st # "free" /\ kids[k].of \in Procs /\ sup[kids[k].of].intentional
              /\ (kids[k].of = p => s.intentional)
        BY <1>0, <1>c, <2>1 DEF Stopping
      <4> QED BY <1>c, <3>1, <3>3, <4>1, StartAgree
    <3>5. OnlyCached => OnlyCached'
      BY <2>0, <3>0, <3>3 DEF OnlyCached
    <3>6. CallTypes' /\ Waiters'
      BY <1>c, <2>0, <3>3 DEF CallTypes, Waiters, SameKid
    <3>7. Serial'
      BY <1>c, <2>0, <3>3, <3>5 DEF Serial, Active, FallbackPending, SameKid
    <3> QED BY <3>4, <3>6, <3>7 DEF AInv
  <2>2. CASE RespawnDue(p) /\ sup[p].intentional
    <3>1. SupSame /\ \A k \in Kids : SameKid(k, kids)
      BY <1>0, <2>2 DEF RespawnDue, SupSame, SameKid, Supervisor
    <3> QED BY <2>0, <3>1, QuietAgree
  <2>3. CASE GraceOver(p) \/ Poll(p) \/ Answer(p) \/ Judge(p)
    <3>1. kids' = kids
      BY <2>3 DEF GraceOver, Poll, Answer, Judge
    <3>2. SupSame
      <4>1. CASE GraceOver(p) \/ Poll(p)
        BY <1>0, <4>1 DEF GraceOver, Poll, SupSame, Supervisor
      <4>2. CASE Answer(p)
        BY <1>0, <4>2 DEF Answer, SupSame, Supervisor
      <4>3. CASE Judge(p)
        BY <1>0, <4>3 DEF Judge, Judged, SupSame, Supervisor
      <4> QED BY <2>3, <4>1, <4>2, <4>3
    <3>3. \A k \in Kids : SameKid(k, kids)
      BY <3>1 DEF SameKid
    <3> QED BY <2>0, <3>2, <3>3, QuietAgree
  <2> QED BY <1>6, <2>1, <2>2, <2>3 DEF Timers, Quietly
<1>7. ASSUME NEW p \in Procs, FallsBack(p) PROVE AInv'
  <2> DEFINE x == sup[p].child
  <2>0. /\ UNCHANGED <<slot, call>> /\ raced' = (raced \/ Active # {})
        /\ kids' = StopKid(kids, x, "fallback")
    BY <1>7 DEF FallsBack, FallBack
  <2>1. PICK b \in BOOLEAN :
          sup' = [sup EXCEPT ![p] = Judged([StopFields(sup[p]) EXCEPT !.forced = TRUE], b)]
    BY <1>7 DEF FallsBack, FallBack
  <2>2. SupSame /\ sup'[p].intentional
    BY <1>0, <2>1 DEF SupSame, Judged, StopFields, Supervisor
  <2>3. /\ \A k \in Kids : kids'[k].of = kids[k].of /\ (kids'[k].st = "free" <=> kids[k].st = "free")
        /\ \A k \in Kids : k # x => kids'[k].waiters = kids[k].waiters
        /\ \A k \in Kids : k = x => kids'[k].waiters = kids[k].waiters \cup {"fallback"}
    BY <1>0, <2>0 DEF StopKid, Kid
  <2>4. x \in Kids => kids[x].st # "free" /\ kids[x].of = p
    BY ProcessAssumption DEF AInv, IInv, Linked, Holds
  <2> HIDE DEF x
  <2>5. LiveShown' /\ (OnlyCached => OnlyCached')
    BY <1>c, <2>0, <2>2 DEF LiveShown, OnlyCached, SupSame
  <2>6. Stopping'
    <3> SUFFICES ASSUME NEW k \in Kids, kids'[k].waiters # {}
                 PROVE  kids'[k].st # "free" /\ sup'[kids'[k].of].intentional
      BY DEF Stopping
    <3>1. CASE k = x
      BY <2>2, <2>3, <2>4, <3>1
    <3>2. CASE k # x
      <4>1. kids[k].st # "free" /\ kids[k].of \in Procs /\ sup[kids[k].of].intentional
        BY <1>0, <1>c, <2>3, <3>2 DEF Stopping
      <4> QED BY <2>2, <2>3, <3>2, <4>1 DEF SupSame
    <3> QED BY <3>1, <3>2
  <2>7. CallTypes'
    BY <1>c, <2>0 DEF CallTypes
  <2>8. Waiters'
    BY <1>c, <2>0, <2>3, ProcessAssumption DEF Waiters
  <2>9. Serial'
    BY <1>c, <2>0, <2>5 DEF Serial, Active
  <2> QED BY <2>5, <2>6, <2>7, <2>8, <2>9 DEF AInv
<1>8. CASE UNCHANGED vars
  <2>1. UNCHANGED <<procVars, slot, call, raced>>
    BY <1>8 DEF vars
  <2>2. raced' \in BOOLEAN
    BY <1>c, <2>1 DEF CallTypes
  <2> QED BY <1>s, <2>1, <2>2, QuietAgree
<1> QED BY <1>1, <1>2, <1>3, <1>4, <1>5, <1>6, <1>7, <1>8 DEF Next

\* A tunnel that is meant to run is not reported stopped while its child lives,
\* and as long as calls come one at a time - a restart's stop and start, a
\* fallback and the respawns in between included - an answered request leaves
\* no child and no queued respawn with any supervisor but the cached one.
THEOREM CacheAgrees == Spec => []SupervisorsAgree
<1>1. Init => AInv
  <2> SUFFICES ASSUME Init PROVE AInv
    OBVIOUS
  <2>1. IInv
    BY InitLinks
  <2>2. CallTypes /\ LiveShown /\ Stopping
    BY DEF Init, ProcInit, CallTypes, LiveShown, Stopping, NewSupervisor, FreeKid
  <2>3. Waiters
    BY DEF Init, ProcInit, Waiters, FreeKid
  <2>4. Serial
    BY DEF Init, ProcInit, Serial, Active, Idle, OnlyCached, NewSupervisor
  <2> QED BY <2>1, <2>2, <2>3, <2>4 DEF AInv
<1>2. AInv /\ [Next]_vars => AInv'
  BY StepLinks, StepAgree DEF AInv
<1>3. AInv => SupervisorsAgree
  BY DEF AInv, IInv, Shape, CallTypes, LiveShown, Serial, SupervisorsAgree, TypeOK, LiveNotStopped,
     OneSupervisorUnlessRaced
<1> QED BY <1>1, <1>2, <1>3, PTL DEF Spec
=============================================================================
