------------------------- MODULE ApplyUpdateProofs -------------------------
(***************************************************************************)
(* Proofs about ApplyUpdate, for every number of releases, every tarball,  *)
(* every set of failing commands and crash points, and any number of       *)
(* container deaths and writes.                                            *)
(***************************************************************************)
EXTENDS ApplyUpdate, TLAPS

-----------------------------------------------------------------------------
(* Directories and databases *)

LEMMA TreeTypes ==
    /\ NoTree \in Tree
    /\ \A v \in Version : Fresh(v) \in Tree
    /\ \A t \in Tree : Partial(t) \in Tree
    /\ \A t \in Tree : [t EXCEPT !.inner = TRUE] \in Tree
<1>1. NoTree \in Tree
  BY ConstantsAssumption DEF ConstantsAssumption, NoTree, Tree
<1>2. \A v \in Version : Fresh(v) \in Tree
  BY ConstantsAssumption DEF ConstantsAssumption, Fresh, Tree, Version
<1>3. \A t \in Tree : Partial(t) \in Tree
  BY DEF Partial, Tree
<1>4. \A t \in Tree : [t EXCEPT !.inner = TRUE] \in Tree
  BY DEF Tree
<1>. QED  BY <1>1, <1>2, <1>3, <1>4

LEMMA DatabaseTypes ==
    \A d \in Database :
           /\ \A v \in 0..MaxVersion : Migrated(d, v) \in Database
           /\ \A v \in 0..MaxVersion : [Migrated(d, v) EXCEPT !.locked = TRUE] \in Database
           /\ \A b \in BOOLEAN : [d EXCEPT !.torn = b] \in Database
           /\ d.writes < MaxWrites => [d EXCEPT !.writes = @ + 1] \in Database
           /\ d.schema \in 0..MaxVersion /\ d.writes \in 0..MaxWrites /\ d.torn \in BOOLEAN
<1>. TAKE d \in Database
<1>1. \A v \in 0..MaxVersion : Migrated(d, v) \in Database
  BY DEF Database, Migrated
<1>2. \A v \in 0..MaxVersion : [Migrated(d, v) EXCEPT !.locked = TRUE] \in Database
  BY DEF Database, Migrated
<1>3. \A b \in BOOLEAN : [d EXCEPT !.torn = b] \in Database
  BY DEF Database
<1>4. d.writes < MaxWrites => [d EXCEPT !.writes = @ + 1] \in Database
  <2>. SUFFICES ASSUME d.writes < MaxWrites
                PROVE  [d EXCEPT !.writes = @ + 1] \in Database
    OBVIOUS
  <2>1. d.writes + 1 \in 0..MaxWrites
    BY ConstantsAssumption DEF ConstantsAssumption, Database
  <2>. QED  BY <2>1 DEF Database
<1>5. d.schema \in 0..MaxVersion /\ d.writes \in 0..MaxWrites /\ d.torn \in BOOLEAN
  BY DEF Database
<1>. QED  BY <1>1, <1>2, <1>3, <1>4, <1>5

\* What a migration, a tear, a write or a lock leaves of the other fields
LEMMA DatabaseFields ==
    \A d \in Database :
        /\ d.writes \in Nat
        /\ \A v \in 0..MaxVersion :
              /\ Migrated(d, v).schema = v /\ Migrated(d, v).writes = d.writes
              /\ [Migrated(d, v) EXCEPT !.locked = TRUE].writes = d.writes
        /\ \A b \in BOOLEAN :
              LET e == [d EXCEPT !.torn = b]
              IN  e.schema = d.schema /\ e.writes = d.writes
        /\ LET e == [d EXCEPT !.writes = @ + 1]
           IN  e.schema = d.schema /\ e.writes = d.writes + 1
BY DEF Database, Migrated

LEMMA VersionTypes ==
    /\ \A v \in Version : v \in 0..MaxVersion
    /\ \A t \in Tree : t.ver \in 0..MaxVersion /\ (Exists(t) => t.ver \in Version)
    /\ \A v, w \in 0..MaxVersion : v..w \subseteq 0..MaxVersion
BY ConstantsAssumption DEF ConstantsAssumption, Version, Tree, Exists

-----------------------------------------------------------------------------
(* Types *)

LEMMA InitTypeOK == Init => TypeOK
<1>. SUFFICES ASSUME Init PROVE TypeOK
  OBVIOUS
<1>1. 1 \in Version /\ 1 \in 0..MaxVersion
  BY ConstantsAssumption DEF ConstantsAssumption, Version
<1>2. Fresh(1) \in Tree /\ NoTree \in Tree
  BY <1>1, TreeTypes
<1>3. [schema |-> 1, writes |-> 0, torn |-> FALSE, locked |-> FALSE] \in Database
  BY <1>1, ConstantsAssumption DEF ConstantsAssumption, Database
<1>4. app \in [Sub -> Tree] /\ old \in [Sub -> Tree] /\ snapApp \in [Sub -> Tree]
  BY <1>2 DEF Init
<1>5. db \in Database /\ snapDb \in Database
  BY <1>3 DEF Init
<1>6. /\ version \in Version /\ snapVersion \in Version /\ target \in Version /\ running \in Version
      /\ pc \in Steps /\ killedAt \in Steps /\ i \in Sub /\ acked \in 0..MaxWrites
  BY <1>1, ConstantsAssumption DEF ConstantsAssumption, Init, Steps, Sub
<1>. QED  BY <1>4, <1>5, <1>6 DEF Init, TypeOK

LEMMA NextTypeOK == TypeOK /\ [Next]_vars => TypeOK'
<1>. SUFFICES ASSUME TypeOK, [Next]_vars PROVE TypeOK'
  OBVIOUS
<1>. USE DEF TypeOK
<1>0. UNCHANGED vars => TypeOK'
  BY DEF vars, disk, script, process, history
<1>d. ASSUME NEW v \in Version, Dispatch(v) PROVE TypeOK'
  <2>1. acked' \in 0..MaxWrites
    BY <1>d, DatabaseTypes DEF Dispatch
  <2>. QED  BY <1>d, <2>1 DEF Dispatch, process, Steps, ForwardSteps, Sub
<1>1. CASE Bail
  <2>1. pc' \in Steps /\ i' \in Sub
    BY <1>1 DEF Bail, Steps, Sub
  <2>2. marker' = "failed" /\ lock' \in BOOLEAN
    BY <1>1 DEF Bail
  <2>. QED  BY <1>1, <2>1, <2>2 DEF Bail, process, history
<1>2. CASE Snapshot
  <2>1. \A omitted \in SUBSET Sub :
           [s \in Sub |-> IF s \in omitted THEN NoTree ELSE app[s]] \in [Sub -> Tree]
    BY TreeTypes
  <2>2. snapApp' \in [Sub -> Tree]
    BY <1>2, <2>1 DEF Snapshot
  <2>. QED  BY <1>2, <2>2 DEF Snapshot, process, history, Steps, ForwardSteps, Sub
<1>3. CASE Extract
  BY <1>3 DEF Extract, disk, process, history, Steps, ForwardSteps
<1>4. CASE StopBackend
  <2>1. pc' \in Steps /\ i' \in Sub
    BY <1>4 DEF StopBackend, Steps, ForwardSteps, Sub
  <2>2. wanted' \in BOOLEAN /\ backend' \in {"down", "up", "asked", "stopping"} /\ missed' \in BOOLEAN
    BY <1>4 DEF StopBackend, Terminate
  <2>. QED  BY <1>4, <2>1, <2>2 DEF StopBackend, disk, history
<1>4a. CASE PortClosed
  BY <1>4a DEF PortClosed, disk, process, history, Steps, ForwardSteps, Sub
<1>4b. CASE PortStaysOpen
  BY <1>4b DEF PortStaysOpen, disk, process, history, Steps, ForwardSteps, Sub
<1>5. CASE MoveAside
  <2>1. app' \in [Sub -> Tree] /\ old' \in [Sub -> Tree]
    BY <1>5, TreeTypes DEF MoveAside
  <2>. QED  BY <1>5, <2>1 DEF MoveAside, Advance, process, history, Steps, ForwardSteps, Sub
<1>6. CASE MoveAsideFails
  BY <1>6 DEF MoveAsideFails, RollBackFrom, disk, process, history, Steps, RollbackSteps, Sub
<1>7. CASE Land
  <2>1. app' \in [Sub -> Tree] /\ incoming' \subseteq Sub
    BY <1>7, TreeTypes DEF Land
  <2>. QED  BY <1>7, <2>1 DEF Land, Advance, process, history, Steps, ForwardSteps, Sub
<1>8. CASE LandFails
  BY <1>8 DEF LandFails, process, history, Steps, RollbackSteps, Sub
<1>9. CASE CopyVersion
  BY <1>9 DEF CopyVersion, process, history, Steps, ForwardSteps
<1>10. CASE Migrate
  <2>1. target \in 0..MaxVersion /\ db \in Database
    BY VersionTypes
  <2>2. db' \in Database
    BY <1>10, <2>1, DatabaseTypes DEF Migrate
  <2>. QED  BY <1>10, <2>2 DEF Migrate, process, history, Steps, ForwardSteps
<1>11. CASE MigrateFails
  <2>1. target \in 0..MaxVersion /\ db \in Database
    BY VersionTypes
  <2>2. db.schema \in 0..MaxVersion
    BY <2>1, DatabaseTypes
  <2>3. db.schema..target \cup {db.schema} \subseteq 0..MaxVersion
    BY <2>1, <2>2, VersionTypes
  <2>4. db' \in Database
    BY <1>11, <2>1, <2>3, DatabaseTypes DEF MigrateFails
  <2>. QED  BY <1>11, <2>4 DEF MigrateFails, process, history, Steps, RollbackSteps, Sub
<1>12. CASE StartBackend
  <2>1. wanted' \in BOOLEAN
    BY <1>12 DEF StartBackend, StartAgain
  <2>. QED  BY <1>12, <2>1 DEF StartBackend, disk, history, Steps, ForwardSteps
<1>13. CASE Healthy
  BY <1>13 DEF Healthy, disk, process, history, Steps, SuccessSteps, Sub
<1>14. CASE HealthTimeout
  BY <1>14 DEF HealthTimeout, RollBackFrom, disk, process, history, Steps, RollbackSteps, Sub
<1>15. CASE Cleanup
  <2>1. old' \in [Sub -> Tree]
    BY <1>15, TreeTypes DEF Cleanup
  <2>. QED  BY <1>15, <2>1 DEF Cleanup, Advance, process, history, Steps, SuccessSteps, Sub
<1>16. CASE Finish
  BY <1>16 DEF Finish, process, history, Steps
<1>17. CASE RbStop
  <2>1. pc' \in Steps /\ i' \in Sub
    BY <1>17 DEF RbStop, Steps, RollbackSteps, Sub
  <2>2. wanted' \in BOOLEAN /\ backend' \in {"down", "up", "asked", "stopping"} /\ missed' \in BOOLEAN
    BY <1>17 DEF RbStop, Terminate
  <2>. QED  BY <1>17, <2>1, <2>2 DEF RbStop, disk, history
<1>18. CASE RbTree
  <2>1. app' \in [Sub -> Tree] /\ old' \in [Sub -> Tree]
    BY <1>18, TreeTypes DEF RbTree
  <2>. QED  BY <1>18, <2>1 DEF RbTree, Advance, process, history, Steps, RollbackSteps, Sub
<1>19. CASE RbTreeFails
  <2>1. app' \in [Sub -> Tree]
    BY <1>19, TreeTypes DEF RbTreeFails
  <2>. QED  BY <1>19, <2>1 DEF RbTreeFails, Advance, process, history, Steps, RollbackSteps, Sub
<1>20. CASE RbVersion
  BY <1>20 DEF RbVersion, process, history, Steps, RollbackSteps
<1>21. CASE RbDb
  <2>1. db' \in Database
    BY <1>21, DatabaseTypes DEF RbDb
  <2>2. stale' \in BOOLEAN
    BY <1>21 DEF RbDb
  <2>. QED  BY <1>21, <2>1, <2>2 DEF RbDb, history, Steps, RollbackSteps
<1>22. CASE RbWal
  BY <1>22 DEF RbWal, disk, process, history, Steps, RollbackSteps
<1>23. CASE RbUp
  <2>1. wanted' \in BOOLEAN
    BY <1>23 DEF RbUp, StartAgain
  <2>. QED  BY <1>23, <2>1 DEF RbUp, disk, history, Steps, RollbackSteps
<1>24. CASE RbMark
  BY <1>24 DEF RbMark, process, history, Steps
<1>25. CASE BackendStart
  <2>0. app[Backend] \in Tree /\ db \in Database
    BY DEF Backend, Sub
  <2>1. app[Backend].ver \in Version
    BY <1>25, <2>0, VersionTypes DEF BackendStart, Startable
  <2>2. db' \in Database
    BY <1>25, <2>0, <2>1, VersionTypes, DatabaseTypes DEF BackendStart
  <2>. QED  BY <1>25, <2>1, <2>2 DEF BackendStart, script, history
<1>26. CASE BackendExit
  <2>1. db' \in Database
    BY <1>26, DatabaseTypes DEF BackendExit
  <2>. QED  BY <1>26, <2>1 DEF BackendExit, script, history
<1>26a. CASE ShutDown
  BY <1>26a DEF ShutDown, disk, script, process, history, Steps, ForwardSteps
<1>27. CASE UserWrite
  <2>1. db' \in Database
    BY <1>27, DatabaseTypes DEF UserWrite
  <2>2. acked' \in 0..MaxWrites
    BY <1>27, ConstantsAssumption DEF ConstantsAssumption, UserWrite
  <2>. QED  BY <1>27, <2>1, <2>2 DEF UserWrite, script, process
<1>28. CASE LockExpires
  BY <1>28 DEF LockExpires, script, process, history
<1>29. CASE Crash
  <2>1. app' \in [Sub -> Tree] /\ old' \in [Sub -> Tree]
    BY <1>29, TreeTypes DEF Crash, CrashApp, CrashOld
  <2>2. incoming' \subseteq Sub
    BY <1>29 DEF Crash, CrashIncoming
  <2>3. db' \in Database
    <3>1. app[Backend] \in Tree /\ db \in Database /\ target \in Version
      BY DEF Backend, Sub
    <3>2. app[Backend].ver \in 0..MaxVersion /\ target \in 0..MaxVersion
      BY <3>1, VersionTypes
    <3>3. db.schema \in 0..MaxVersion
      BY <3>1, DatabaseTypes
    <3>4. /\ db.schema..target \subseteq 0..MaxVersion
          /\ db.schema..app[Backend].ver \subseteq 0..MaxVersion
      BY <3>2, <3>3, VersionTypes
    <3>5. [db EXCEPT !.torn = TRUE] \in Database
      BY <3>1, DatabaseTypes
    <3>6. \A v \in db.schema..target :
             [Migrated(db, v) EXCEPT !.locked = TRUE] \in Database
      BY <3>1, <3>4, DatabaseTypes
    <3>7. \A v \in db.schema..app[Backend].ver :
             [Migrated(db, v) EXCEPT !.locked = TRUE] \in Database
      BY <3>1, <3>4, DatabaseTypes
    <3>8. CrashDb \subseteq Database
      BY ONLY <3>1, <3>5, <3>6, <3>7 DEF CrashDb
    <3>. QED  BY <1>29, <3>8 DEF Crash
  <2>4. crashes' \in Nat /\ killedAt' \in Steps /\ pc' \in Steps /\ i' \in Sub
    BY <1>29 DEF Crash, Steps, Sub
  <2>. QED  BY <1>29, <2>1, <2>2, <2>3, <2>4 DEF Crash
<1>30. CASE Restart
  BY <1>30 DEF Restart, disk, process, history, Sub
<1>31. CASE Heal
  <2>1. app' \in [Sub -> Tree] /\ old' \in [Sub -> Tree] /\ incoming' \subseteq Sub
    BY <1>31, TreeTypes DEF Heal
  <2>. QED  BY <1>31, <2>1 DEF Heal, process, history, Sub
<1>32. CASE NodeBootstrapOk
  <2>0. app[Backend] \in Tree /\ db \in Database
    BY DEF Backend, Sub
  <2>1. db' \in Database
    BY <1>32, <2>0, VersionTypes, DatabaseTypes DEF NodeBootstrapOk
  <2>. QED  BY <1>32, <2>1 DEF NodeBootstrapOk, script, history
<1>33. CASE NodeBootstrapFails
  BY <1>33 DEF NodeBootstrapFails, script, history
<1>34. ASSUME NEW v \in Images, Recreate(v) PROVE TypeOK'
  <2>1. v \in Version
    BY ConstantsAssumption DEF ConstantsAssumption
  <2>2. app' \in [Sub -> Tree] /\ old' \in [Sub -> Tree]
    BY <1>34, <2>1, TreeTypes DEF Recreate
  <2>. QED  BY <1>34, <2>1, <2>2 DEF Recreate, process, history, Sub
<1>. QED
  BY <1>0, <1>d, <1>4a, <1>4b, <1>26a, <1>1, <1>2, <1>3, <1>4, <1>5, <1>6, <1>7, <1>8, <1>9, <1>10, <1>11, <1>12,
     <1>13, <1>14, <1>15, <1>16, <1>17, <1>18, <1>19, <1>20, <1>21, <1>22, <1>23, <1>24,
     <1>25, <1>26, <1>27, <1>28, <1>29, <1>30, <1>31, <1>32, <1>33, <1>34
  DEF Next, Forward, Rollback, Boot

(* Every reachable state has the types TypeOK gives. *)
THEOREM TypeCorrect == Spec => []TypeOK
<1>. QED  BY InitTypeOK, NextTypeOK, PTL DEF Spec

-----------------------------------------------------------------------------
(* Unless a stop missed it, the backend is away while the tree and the     *)
(* database change                                                         *)

\* The steps between s6-svc -d and s6-svc -u, forward and in rollback()
Closed == {"aside", "land", "version", "migrate", "start"}
Exclusive == {"wait", "rbTree", "rbVersion", "rbDb", "rbWal", "rbUp"} \cup Closed

BackendAway ==
    ~missed => /\ pc \in Exclusive => ~wanted /\ backend # "up"
               /\ pc \in Closed => ~Serving
               /\ pc = "health" => backend # "asked"

\* Only a process that a stop missed holds a replaced database open
LeftBehind == stale => missed /\ backend # "down"

\* A container that is not through bootstrap.sh runs neither script nor backend
BootsAlone == boot # "done" => backend = "down" /\ pc = "idle"

\* The directories the tarball carries, as far as the swap has come
Swapped == {"version", "migrate", "start", "health", "cleanup", "finish"}
Landed ==
    /\ pc = "land" => \A s \in Bundled : s < i => app[s] = Fresh(target)
    /\ pc \in Swapped => \A s \in Bundled : app[s] = Fresh(target)

Cleaned ==
    /\ pc = "cleanup" => \A s \in Sub : s < i => ~Exists(old[s])
    /\ pc = "finish" => \A s \in Sub : ~Exists(old[s])

Answering ==
    ~missed => /\ pc = "health" /\ backend = "up" => running = target
               /\ pc \in SuccessSteps => backend = "up" /\ running = target

\* What is migrated stays so until rollback() restores the snapshot
SchemaReached == pc \in {"start", "health"} \cup SuccessSteps => db.schema = target

\* What users were told is in the database, as long as the update goes forward
NoneLost == ~missed => (pc \in ForwardSteps \cup SuccessSteps => db.writes = acked)

WritesSurvive ==
    pc \in (ForwardSteps \ {"snapshot"}) \cup SuccessSteps => db.writes >= snapDb.writes

IInv ==
    /\ TypeOK /\ BackendAway /\ LeftBehind /\ BootsAlone /\ ServesOwnSchema
    /\ Landed /\ Cleaned /\ Answering /\ SchemaReached /\ NoneLost /\ WritesSurvive

LEMMA InitIInv == Init => IInv
<1>. SUFFICES ASSUME Init PROVE IInv
  OBVIOUS
<1>. QED
  BY InitTypeOK DEF Init, IInv, BackendAway, Exclusive, Closed, LeftBehind, BootsAlone, ServesOwnSchema,
     Landed, Swapped, Cleaned, Answering, SchemaReached, NoneLost, SuccessSteps, WritesSurvive, ForwardSteps

LEMMA NextBackendAway == IInv /\ [Next]_vars => (BackendAway' /\ LeftBehind' /\ BootsAlone')
<1>. SUFFICES ASSUME IInv, [Next]_vars PROVE (BackendAway' /\ LeftBehind' /\ BootsAlone')
  OBVIOUS
<1>. USE DEF IInv, BackendAway, LeftBehind, BootsAlone, Exclusive, Closed, Serving
<1>0. CASE UNCHANGED vars
  BY <1>0 DEF vars, disk, script, process, history
<1>d. ASSUME NEW v \in Version, Dispatch(v) PROVE (BackendAway' /\ LeftBehind' /\ BootsAlone')
  BY <1>d DEF Dispatch, process
<1>1. CASE Bail
  BY <1>1 DEF Bail, process, history
<1>2. CASE Snapshot
  BY <1>2 DEF Snapshot, process, history
<1>3. CASE Extract
  BY <1>3 DEF Extract, disk, process, history
<1>4. CASE StopBackend
  BY <1>4 DEF StopBackend, Terminate, disk, history
<1>4a. CASE PortClosed
  BY <1>4a DEF PortClosed, disk, process, history
<1>4b. CASE PortStaysOpen
  BY <1>4b DEF PortStaysOpen, disk, process, history
<1>5. CASE MoveAside
  BY <1>5 DEF MoveAside, Advance, process, history
<1>6. CASE MoveAsideFails
  BY <1>6 DEF MoveAsideFails, RollBackFrom, disk, process, history
<1>7. CASE Land
  BY <1>7 DEF Land, Advance, process, history
<1>8. CASE LandFails
  BY <1>8 DEF LandFails, process, history
<1>9. CASE CopyVersion
  BY <1>9 DEF CopyVersion, process, history
<1>10. CASE Migrate
  BY <1>10 DEF Migrate, process, history
<1>11. CASE MigrateFails
  BY <1>11 DEF MigrateFails, process, history
<1>12. CASE StartBackend
  BY <1>12 DEF StartBackend, StartAgain, disk, history
<1>13. CASE Healthy
  BY <1>13 DEF Healthy, disk, process, history
<1>14. CASE HealthTimeout
  BY <1>14 DEF HealthTimeout, RollBackFrom, disk, process, history
<1>15. CASE Cleanup
  BY <1>15 DEF Cleanup, Advance, process, history
<1>16. CASE Finish
  BY <1>16 DEF Finish, process, history
<1>17. CASE RbStop
  BY <1>17 DEF RbStop, Terminate, disk, history
<1>18. CASE RbTree
  BY <1>18 DEF RbTree, Advance, process, history
<1>19. CASE RbTreeFails
  BY <1>19 DEF RbTreeFails, Advance, process, history
<1>20. CASE RbVersion
  BY <1>20 DEF RbVersion, process, history
<1>21. CASE RbDb
  <2>1. /\ pc = "rbDb" /\ pc' = "rbWal" /\ wanted' = wanted /\ backend' = backend /\ boot' = boot
        /\ missed => missed'
    BY <1>21 DEF RbDb
  <2>2. ~missed => backend # "up"
    BY <2>1
  <2>3. \/ stale' = stale /\ missed' = missed
        \/ /\ stale' = (backend # "down")
           /\ missed' = (missed \/ backend \in {"asked", "stopping"})
    BY <1>21 DEF RbDb
  <2>4. backend \in {"down", "up", "asked", "stopping"}
    BY DEF TypeOK
  <2>5. LeftBehind'
    BY <2>1, <2>2, <2>3, <2>4
  <2>. QED  BY <2>1, <2>2, <2>5
<1>22. CASE RbWal
  BY <1>22 DEF RbWal, disk, process, history
<1>23. CASE RbUp
  BY <1>23 DEF RbUp, StartAgain, disk, history
<1>24. CASE RbMark
  BY <1>24 DEF RbMark, process, history
<1>25. CASE BackendStart
  BY <1>25 DEF BackendStart, script, history
<1>26. CASE BackendExit
  BY <1>26 DEF BackendExit, script, history
<1>26a. CASE ShutDown
  BY <1>26a DEF ShutDown, disk, script, process, history
<1>27. CASE UserWrite
  BY <1>27 DEF UserWrite, script, process, history
<1>28. CASE LockExpires
  BY <1>28 DEF LockExpires, script, process, history
<1>29. CASE Crash
  BY <1>29 DEF Crash
<1>30. CASE Restart
  BY <1>30 DEF Restart, disk, process, history
<1>31. CASE Heal
  BY <1>31 DEF Heal, process, history
<1>32. CASE NodeBootstrapOk
  BY <1>32 DEF NodeBootstrapOk, script, history
<1>33. CASE NodeBootstrapFails
  BY <1>33 DEF NodeBootstrapFails, script, history
<1>34. ASSUME NEW v \in Images, Recreate(v) PROVE (BackendAway' /\ LeftBehind' /\ BootsAlone')
  BY <1>34 DEF Recreate, process, history
<1>. QED
  BY <1>0, <1>d, <1>4a, <1>4b, <1>26a, <1>1, <1>2, <1>3, <1>4, <1>5, <1>6, <1>7, <1>8, <1>9, <1>10, <1>11,
     <1>12, <1>13, <1>14, <1>15, <1>16, <1>17, <1>18, <1>19, <1>20, <1>21, <1>22,
     <1>23, <1>24, <1>25, <1>26, <1>27, <1>28, <1>29, <1>30, <1>31, <1>32, <1>33,
     <1>34
  DEF Next, Forward, Rollback, Boot

LEMMA NextServesOwnSchema == IInv /\ [Next]_vars => ServesOwnSchema'
<1>. SUFFICES ASSUME IInv, [Next]_vars PROVE ServesOwnSchema'
  OBVIOUS
<1>. USE DEF IInv, BackendAway, LeftBehind, BootsAlone, ServesOwnSchema, Exclusive, Closed, Serving
<1>0. CASE UNCHANGED vars
  BY <1>0 DEF vars, disk, script, process, history
<1>d. ASSUME NEW v \in Version, Dispatch(v) PROVE ServesOwnSchema'
  BY <1>d DEF Dispatch, process
<1>1. CASE Bail
  BY <1>1 DEF Bail, process, history
<1>2. CASE Snapshot
  BY <1>2 DEF Snapshot, process, history
<1>3. CASE Extract
  BY <1>3 DEF Extract, disk, process, history
<1>4. CASE StopBackend
  BY <1>4 DEF StopBackend, Terminate, disk, history
<1>4a. CASE PortClosed
  BY <1>4a DEF PortClosed, disk, process, history
<1>4b. CASE PortStaysOpen
  BY <1>4b DEF PortStaysOpen, disk, process, history
<1>5. CASE MoveAside
  BY <1>5 DEF MoveAside, Advance, process, history
<1>6. CASE MoveAsideFails
  BY <1>6 DEF MoveAsideFails, RollBackFrom, disk, process, history
<1>7. CASE Land
  BY <1>7 DEF Land, Advance, process, history
<1>8. CASE LandFails
  BY <1>8 DEF LandFails, process, history
<1>9. CASE CopyVersion
  BY <1>9 DEF CopyVersion, process, history
<1>10. CASE Migrate
  BY <1>10 DEF Migrate, process, history
<1>11. CASE MigrateFails
  BY <1>11 DEF MigrateFails, process, history
<1>12. CASE StartBackend
  BY <1>12 DEF StartBackend, StartAgain, disk, history
<1>13. CASE Healthy
  BY <1>13 DEF Healthy, disk, process, history
<1>14. CASE HealthTimeout
  BY <1>14 DEF HealthTimeout, RollBackFrom, disk, process, history
<1>15. CASE Cleanup
  BY <1>15 DEF Cleanup, Advance, process, history
<1>16. CASE Finish
  BY <1>16 DEF Finish, process, history
<1>17. CASE RbStop
  BY <1>17 DEF RbStop, Terminate, disk, history
<1>18. CASE RbTree
  BY <1>18 DEF RbTree, Advance, process, history
<1>19. CASE RbTreeFails
  BY <1>19 DEF RbTreeFails, Advance, process, history
<1>20. CASE RbVersion
  BY <1>20 DEF RbVersion, process, history
<1>21. CASE RbDb
  <2>1. /\ pc = "rbDb" /\ pc' = "rbWal" /\ backend' = backend /\ running' = running
        /\ missed => missed'
        /\ db'.schema = db.schema \/ (~missed' => backend \notin {"asked", "stopping"})
    BY <1>21, DatabaseFields, DatabaseTypes DEF RbDb, TypeOK
  <2>2. ~missed' => ~Serving' \/ db'.schema = db.schema
    BY <2>1
  <2>. QED  BY <2>1, <2>2
<1>22. CASE RbWal
  BY <1>22 DEF RbWal, disk, process, history
<1>23. CASE RbUp
  BY <1>23 DEF RbUp, StartAgain, disk, history
<1>24. CASE RbMark
  BY <1>24 DEF RbMark, process, history
<1>25. CASE BackendStart
  <2>1. app[Backend] \in Tree /\ db \in Database
    BY DEF TypeOK, Backend, Sub
  <2>2. app[Backend].ver \in 0..MaxVersion
    BY <2>1, VersionTypes
  <2>3. db'.schema = app[Backend].ver
    BY <1>25, <2>1, <2>2, DatabaseFields DEF BackendStart
  <2>. QED  BY <1>25, <2>3 DEF BackendStart, script, history
<1>26. CASE BackendExit
  BY <1>26 DEF BackendExit, script, history
<1>26a. CASE ShutDown
  BY <1>26a DEF ShutDown, disk, script, process, history
<1>27. CASE UserWrite
  <2>1. db'.schema = db.schema
    BY <1>27, DatabaseFields DEF UserWrite, TypeOK
  <2>. QED  BY <1>27, <2>1 DEF UserWrite, script, process
<1>28. CASE LockExpires
  BY <1>28 DEF LockExpires, script, process, history
<1>29. CASE Crash
  BY <1>29 DEF Crash
<1>30. CASE Restart
  BY <1>30 DEF Restart, disk, process, history
<1>31. CASE Heal
  BY <1>31 DEF Heal, process, history
<1>32. CASE NodeBootstrapOk
  BY <1>32 DEF NodeBootstrapOk, script, history
<1>33. CASE NodeBootstrapFails
  BY <1>33 DEF NodeBootstrapFails, script, history
<1>34. ASSUME NEW v \in Images, Recreate(v) PROVE ServesOwnSchema'
  BY <1>34 DEF Recreate, process, history
<1>. QED
  BY <1>0, <1>d, <1>4a, <1>4b, <1>26a, <1>1, <1>2, <1>3, <1>4, <1>5, <1>6, <1>7, <1>8, <1>9, <1>10, <1>11,
     <1>12, <1>13, <1>14, <1>15, <1>16, <1>17, <1>18, <1>19, <1>20, <1>21, <1>22,
     <1>23, <1>24, <1>25, <1>26, <1>27, <1>28, <1>29, <1>30, <1>31, <1>32, <1>33,
     <1>34
  DEF Next, Forward, Rollback, Boot

LEMMA NextLanded == IInv /\ [Next]_vars => Landed'
<1>. SUFFICES ASSUME IInv, [Next]_vars PROVE Landed'
  OBVIOUS
<1>. USE DEF IInv, TypeOK, BootsAlone, Landed, Swapped
<1>0. CASE UNCHANGED vars
  BY <1>0 DEF vars, disk, script, process, history
<1>d. ASSUME NEW v \in Version, Dispatch(v) PROVE Landed'
  BY <1>d DEF Dispatch, process
<1>1. CASE Bail
  BY <1>1 DEF Bail, process, history
<1>2. CASE Snapshot
  BY <1>2 DEF Snapshot, process, history
<1>3. CASE Extract
  BY <1>3 DEF Extract, disk, process, history
<1>4. CASE StopBackend
  BY <1>4 DEF StopBackend, Terminate, disk, history
<1>4a. CASE PortClosed
  BY <1>4a DEF PortClosed, disk, process, history
<1>4b. CASE PortStaysOpen
  BY <1>4b DEF PortStaysOpen, disk, process, history
<1>5. CASE MoveAside
  <2>1. pc' = "land" => i' = 1
    BY <1>5 DEF MoveAside, Advance
  <2>2. pc' \notin Swapped
    BY <1>5 DEF MoveAside, Advance
  <2>3. \A s \in Bundled : ~(s < 1)
    BY ConstantsAssumption DEF ConstantsAssumption, Sub
  <2>. QED  BY <2>1, <2>2, <2>3
<1>6. CASE MoveAsideFails
  BY <1>6 DEF MoveAsideFails, RollBackFrom, disk, process, history
<1>7. CASE Land
  <2>1. i \in 1..3 /\ \A s \in Bundled : s \in 1..3
    BY ConstantsAssumption DEF ConstantsAssumption, Sub
  <2>2. \A s \in Bundled : s < i => app[s] = Fresh(target)
    BY <1>7 DEF Land
  <2>3. \A s \in Bundled : s <= i => app'[s] = Fresh(target')
    BY <1>7, <2>1, <2>2 DEF Land, Sub
  <2>4. \/ i < 3 /\ pc' = "land" /\ i' = i + 1
        \/ i = 3 /\ pc' = "version" /\ i' = 1
    BY <1>7, <2>1 DEF Land, Advance
  <2>5. CASE i < 3 /\ pc' = "land" /\ i' = i + 1
    BY <2>1, <2>3, <2>5
  <2>6. CASE i = 3 /\ pc' = "version" /\ i' = 1
    BY <2>1, <2>3, <2>6
  <2>. QED  BY <2>4, <2>5, <2>6
<1>8. CASE LandFails
  BY <1>8 DEF LandFails, process, history
<1>9. CASE CopyVersion
  BY <1>9 DEF CopyVersion, process, history
<1>10. CASE Migrate
  BY <1>10 DEF Migrate, process, history
<1>11. CASE MigrateFails
  BY <1>11 DEF MigrateFails, process, history
<1>12. CASE StartBackend
  BY <1>12 DEF StartBackend, StartAgain, disk, history
<1>13. CASE Healthy
  BY <1>13 DEF Healthy, disk, process, history
<1>14. CASE HealthTimeout
  BY <1>14 DEF HealthTimeout, RollBackFrom, disk, process, history
<1>15. CASE Cleanup
  BY <1>15 DEF Cleanup, Advance, process, history
<1>16. CASE Finish
  BY <1>16 DEF Finish, process, history
<1>17. CASE RbStop
  BY <1>17 DEF RbStop, Terminate, disk, history
<1>18. CASE RbTree
  BY <1>18 DEF RbTree, Advance, process, history
<1>19. CASE RbTreeFails
  BY <1>19 DEF RbTreeFails, Advance, process, history
<1>20. CASE RbVersion
  BY <1>20 DEF RbVersion, process, history
<1>21. CASE RbDb
  BY <1>21 DEF RbDb, history
<1>22. CASE RbWal
  BY <1>22 DEF RbWal, disk, process, history
<1>23. CASE RbUp
  BY <1>23 DEF RbUp, StartAgain, disk, history
<1>24. CASE RbMark
  BY <1>24 DEF RbMark, process, history
<1>25. CASE BackendStart
  BY <1>25 DEF BackendStart, script, history
<1>26. CASE BackendExit
  BY <1>26 DEF BackendExit, script, history
<1>26a. CASE ShutDown
  BY <1>26a DEF ShutDown, disk, script, process, history
<1>27. CASE UserWrite
  BY <1>27 DEF UserWrite, script, process, history
<1>28. CASE LockExpires
  BY <1>28 DEF LockExpires, script, process, history
<1>29. CASE Crash
  BY <1>29 DEF Crash
<1>30. CASE Restart
  BY <1>30 DEF Restart, disk, process, history
<1>31. CASE Heal
  BY <1>31 DEF Heal, process, history
<1>32. CASE NodeBootstrapOk
  BY <1>32 DEF NodeBootstrapOk, script, history
<1>33. CASE NodeBootstrapFails
  BY <1>33 DEF NodeBootstrapFails, script, history
<1>34. ASSUME NEW v \in Images, Recreate(v) PROVE Landed'
  BY <1>34 DEF Recreate, process, history
<1>. QED
  BY <1>0, <1>d, <1>4a, <1>4b, <1>26a, <1>1, <1>2, <1>3, <1>4, <1>5, <1>6, <1>7, <1>8, <1>9, <1>10, <1>11,
     <1>12, <1>13, <1>14, <1>15, <1>16, <1>17, <1>18, <1>19, <1>20, <1>21, <1>22,
     <1>23, <1>24, <1>25, <1>26, <1>27, <1>28, <1>29, <1>30, <1>31, <1>32, <1>33,
     <1>34
  DEF Next, Forward, Rollback, Boot

LEMMA NextCleaned == IInv /\ [Next]_vars => Cleaned'
<1>. SUFFICES ASSUME IInv, [Next]_vars PROVE Cleaned'
  OBVIOUS
<1>. USE DEF IInv, TypeOK, BootsAlone, Cleaned
<1>0. CASE UNCHANGED vars
  BY <1>0 DEF vars, disk, script, process, history
<1>d. ASSUME NEW v \in Version, Dispatch(v) PROVE Cleaned'
  BY <1>d DEF Dispatch, process
<1>1. CASE Bail
  BY <1>1 DEF Bail, process, history
<1>2. CASE Snapshot
  BY <1>2 DEF Snapshot, process, history
<1>3. CASE Extract
  BY <1>3 DEF Extract, disk, process, history
<1>4. CASE StopBackend
  BY <1>4 DEF StopBackend, Terminate, disk, history
<1>4a. CASE PortClosed
  BY <1>4a DEF PortClosed, disk, process, history
<1>4b. CASE PortStaysOpen
  BY <1>4b DEF PortStaysOpen, disk, process, history
<1>5. CASE MoveAside
  BY <1>5 DEF MoveAside, Advance, process, history
<1>6. CASE MoveAsideFails
  BY <1>6 DEF MoveAsideFails, RollBackFrom, disk, process, history
<1>7. CASE Land
  BY <1>7 DEF Land, Advance, process, history
<1>8. CASE LandFails
  BY <1>8 DEF LandFails, process, history
<1>9. CASE CopyVersion
  BY <1>9 DEF CopyVersion, process, history
<1>10. CASE Migrate
  BY <1>10 DEF Migrate, process, history
<1>11. CASE MigrateFails
  BY <1>11 DEF MigrateFails, process, history
<1>12. CASE StartBackend
  BY <1>12 DEF StartBackend, StartAgain, disk, history
<1>13. CASE Healthy
  <2>1. \A s \in Sub : ~(s < 1)
    BY DEF Sub
  <2>. QED  BY <1>13, <2>1 DEF Healthy
<1>14. CASE HealthTimeout
  BY <1>14 DEF HealthTimeout, RollBackFrom, disk, process, history
<1>15. CASE Cleanup
  <2>1. i \in 1..3
    BY DEF Sub
  <2>2. \A s \in Sub : s < i => ~Exists(old[s])
    BY <1>15 DEF Cleanup
  <2>3. \A s \in Sub : s <= i => old'[s] = IF s = i THEN NoTree ELSE old[s]
    BY <1>15 DEF Cleanup
  <2>4. \A s \in Sub : s <= i => ~Exists(old'[s])
    BY <2>1, <2>2, <2>3 DEF Exists, NoTree, Sub
  <2>5. \/ i < 3 /\ pc' = "cleanup" /\ i' = i + 1
        \/ i = 3 /\ pc' = "finish" /\ i' = 1
    BY <1>15, <2>1 DEF Cleanup, Advance
  <2>6. CASE i < 3 /\ pc' = "cleanup" /\ i' = i + 1
    BY <2>1, <2>4, <2>6 DEF Sub, Exists
  <2>7. CASE i = 3 /\ pc' = "finish" /\ i' = 1
    BY <2>4, <2>7 DEF Sub, Exists
  <2>. QED  BY <2>5, <2>6, <2>7
<1>16. CASE Finish
  BY <1>16 DEF Finish, process, history
<1>17. CASE RbStop
  BY <1>17 DEF RbStop, Terminate, disk, history
<1>18. CASE RbTree
  BY <1>18 DEF RbTree, Advance, process, history
<1>19. CASE RbTreeFails
  BY <1>19 DEF RbTreeFails, Advance, process, history
<1>20. CASE RbVersion
  BY <1>20 DEF RbVersion, process, history
<1>21. CASE RbDb
  BY <1>21 DEF RbDb, history
<1>22. CASE RbWal
  BY <1>22 DEF RbWal, disk, process, history
<1>23. CASE RbUp
  BY <1>23 DEF RbUp, StartAgain, disk, history
<1>24. CASE RbMark
  BY <1>24 DEF RbMark, process, history
<1>25. CASE BackendStart
  BY <1>25 DEF BackendStart, script, history
<1>26. CASE BackendExit
  BY <1>26 DEF BackendExit, script, history
<1>26a. CASE ShutDown
  BY <1>26a DEF ShutDown, disk, script, process, history
<1>27. CASE UserWrite
  BY <1>27 DEF UserWrite, script, process, history
<1>28. CASE LockExpires
  BY <1>28 DEF LockExpires, script, process, history
<1>29. CASE Crash
  BY <1>29 DEF Crash
<1>30. CASE Restart
  BY <1>30 DEF Restart, disk, process, history
<1>31. CASE Heal
  BY <1>31 DEF Heal, process, history
<1>32. CASE NodeBootstrapOk
  BY <1>32 DEF NodeBootstrapOk, script, history
<1>33. CASE NodeBootstrapFails
  BY <1>33 DEF NodeBootstrapFails, script, history
<1>34. ASSUME NEW v \in Images, Recreate(v) PROVE Cleaned'
  BY <1>34 DEF Recreate, process, history
<1>. QED
  BY <1>0, <1>d, <1>4a, <1>4b, <1>26a, <1>1, <1>2, <1>3, <1>4, <1>5, <1>6, <1>7, <1>8, <1>9, <1>10, <1>11,
     <1>12, <1>13, <1>14, <1>15, <1>16, <1>17, <1>18, <1>19, <1>20, <1>21, <1>22,
     <1>23, <1>24, <1>25, <1>26, <1>27, <1>28, <1>29, <1>30, <1>31, <1>32, <1>33,
     <1>34
  DEF Next, Forward, Rollback, Boot

LEMMA NextAnswering == IInv /\ [Next]_vars => Answering'
<1>. SUFFICES ASSUME IInv, [Next]_vars PROVE Answering'
  OBVIOUS
<1>. USE DEF IInv, TypeOK, BackendAway, BootsAlone, Landed, Answering, Exclusive, Closed, Swapped, SuccessSteps, Serving
<1>0. CASE UNCHANGED vars
  BY <1>0 DEF vars, disk, script, process, history
<1>d. ASSUME NEW v \in Version, Dispatch(v) PROVE Answering'
  BY <1>d DEF Dispatch, process
<1>1. CASE Bail
  BY <1>1 DEF Bail, process, history
<1>2. CASE Snapshot
  BY <1>2 DEF Snapshot, process, history
<1>3. CASE Extract
  BY <1>3 DEF Extract, disk, process, history
<1>4. CASE StopBackend
  BY <1>4 DEF StopBackend, Terminate, disk, history
<1>4a. CASE PortClosed
  BY <1>4a DEF PortClosed, disk, process, history
<1>4b. CASE PortStaysOpen
  BY <1>4b DEF PortStaysOpen, disk, process, history
<1>5. CASE MoveAside
  BY <1>5 DEF MoveAside, Advance, process, history
<1>6. CASE MoveAsideFails
  BY <1>6 DEF MoveAsideFails, RollBackFrom, disk, process, history
<1>7. CASE Land
  BY <1>7 DEF Land, Advance, process, history
<1>8. CASE LandFails
  BY <1>8 DEF LandFails, process, history
<1>9. CASE CopyVersion
  BY <1>9 DEF CopyVersion, process, history
<1>10. CASE Migrate
  BY <1>10 DEF Migrate, process, history
<1>11. CASE MigrateFails
  BY <1>11 DEF MigrateFails, process, history
<1>12. CASE StartBackend
  BY <1>12 DEF StartBackend, StartAgain, disk, history
<1>13. CASE Healthy
  BY <1>13 DEF Healthy, disk, process, history
<1>14. CASE HealthTimeout
  BY <1>14 DEF HealthTimeout, RollBackFrom, disk, process, history
<1>15. CASE Cleanup
  BY <1>15 DEF Cleanup, Advance, process, history
<1>16. CASE Finish
  BY <1>16 DEF Finish, process, history
<1>17. CASE RbStop
  BY <1>17 DEF RbStop, Terminate, disk, history
<1>18. CASE RbTree
  BY <1>18 DEF RbTree, Advance, process, history
<1>19. CASE RbTreeFails
  BY <1>19 DEF RbTreeFails, Advance, process, history
<1>20. CASE RbVersion
  BY <1>20 DEF RbVersion, process, history
<1>21. CASE RbDb
  BY <1>21 DEF RbDb, history
<1>22. CASE RbWal
  BY <1>22 DEF RbWal, disk, process, history
<1>23. CASE RbUp
  BY <1>23 DEF RbUp, StartAgain, disk, history
<1>24. CASE RbMark
  BY <1>24 DEF RbMark, process, history
<1>25. CASE BackendStart
  <2>1. pc = "health" => app[Backend] = Fresh(target)
    BY ConstantsAssumption DEF ConstantsAssumption
  <2>2. pc = "health" => running' = target'
    BY <1>25, <2>1 DEF BackendStart, Fresh, script
  <2>3. pc' = pc /\ backend = "down" /\ missed' = missed
    BY <1>25 DEF BackendStart, script, history
  <2>. QED  BY <2>2, <2>3
<1>26. CASE BackendExit
  BY <1>26 DEF BackendExit, script, RollbackSteps
<1>26a. CASE ShutDown
  BY <1>26a DEF ShutDown, disk, script, process, history
<1>27. CASE UserWrite
  BY <1>27 DEF UserWrite, script, process, history
<1>28. CASE LockExpires
  BY <1>28 DEF LockExpires, script, process, history
<1>29. CASE Crash
  BY <1>29 DEF Crash
<1>30. CASE Restart
  BY <1>30 DEF Restart, disk, process, history
<1>31. CASE Heal
  BY <1>31 DEF Heal, process, history
<1>32. CASE NodeBootstrapOk
  BY <1>32 DEF NodeBootstrapOk, script, history
<1>33. CASE NodeBootstrapFails
  BY <1>33 DEF NodeBootstrapFails, script, history
<1>34. ASSUME NEW v \in Images, Recreate(v) PROVE Answering'
  BY <1>34 DEF Recreate, process, history
<1>. QED
  BY <1>0, <1>d, <1>4a, <1>4b, <1>26a, <1>1, <1>2, <1>3, <1>4, <1>5, <1>6, <1>7, <1>8, <1>9, <1>10, <1>11,
     <1>12, <1>13, <1>14, <1>15, <1>16, <1>17, <1>18, <1>19, <1>20, <1>21, <1>22,
     <1>23, <1>24, <1>25, <1>26, <1>27, <1>28, <1>29, <1>30, <1>31, <1>32, <1>33,
     <1>34
  DEF Next, Forward, Rollback, Boot

LEMMA NextSchemaReached == IInv /\ [Next]_vars => SchemaReached'
<1>. SUFFICES ASSUME IInv, [Next]_vars PROVE SchemaReached'
  OBVIOUS
<1>. USE DEF IInv, TypeOK, BootsAlone, SchemaReached, SuccessSteps
<1>0. CASE UNCHANGED vars
  BY <1>0 DEF vars, disk, script, process, history
<1>d. ASSUME NEW v \in Version, Dispatch(v) PROVE SchemaReached'
  BY <1>d DEF Dispatch, process
<1>1. CASE Bail
  BY <1>1 DEF Bail, process, history
<1>2. CASE Snapshot
  BY <1>2 DEF Snapshot, process, history
<1>3. CASE Extract
  BY <1>3 DEF Extract, disk, process, history
<1>4. CASE StopBackend
  BY <1>4 DEF StopBackend, Terminate, disk, history
<1>4a. CASE PortClosed
  BY <1>4a DEF PortClosed, disk, process, history
<1>4b. CASE PortStaysOpen
  BY <1>4b DEF PortStaysOpen, disk, process, history
<1>5. CASE MoveAside
  BY <1>5 DEF MoveAside, Advance, process, history
<1>6. CASE MoveAsideFails
  BY <1>6 DEF MoveAsideFails, RollBackFrom, disk, process, history
<1>7. CASE Land
  BY <1>7 DEF Land, Advance, process, history
<1>8. CASE LandFails
  BY <1>8 DEF LandFails, process, history
<1>9. CASE CopyVersion
  BY <1>9 DEF CopyVersion, process, history
<1>10. CASE Migrate
  <2>1. db \in Database /\ target \in 0..MaxVersion
    BY VersionTypes
  <2>2. db'.schema = target /\ target' = target
    BY <1>10, <2>1, DatabaseFields DEF Migrate
  <2>. QED  BY <2>2
<1>11. CASE MigrateFails
  BY <1>11 DEF MigrateFails, process, history
<1>12. CASE StartBackend
  BY <1>12 DEF StartBackend, StartAgain, disk, history
<1>13. CASE Healthy
  BY <1>13 DEF Healthy, disk, process, history
<1>14. CASE HealthTimeout
  BY <1>14 DEF HealthTimeout, RollBackFrom, disk, process, history
<1>15. CASE Cleanup
  BY <1>15 DEF Cleanup, Advance, process, history
<1>16. CASE Finish
  BY <1>16 DEF Finish, process, history
<1>17. CASE RbStop
  BY <1>17 DEF RbStop, Terminate, disk, history
<1>18. CASE RbTree
  BY <1>18 DEF RbTree, Advance, process, history
<1>19. CASE RbTreeFails
  BY <1>19 DEF RbTreeFails, Advance, process, history
<1>20. CASE RbVersion
  BY <1>20 DEF RbVersion, process, history
<1>21. CASE RbDb
  BY <1>21 DEF RbDb, history
<1>22. CASE RbWal
  BY <1>22 DEF RbWal, disk, process, history
<1>23. CASE RbUp
  BY <1>23 DEF RbUp, StartAgain, disk, history
<1>24. CASE RbMark
  BY <1>24 DEF RbMark, process, history
<1>25. CASE BackendStart
  <2>1. app[Backend] \in Tree /\ db \in Database /\ app[Backend].ver \in 0..MaxVersion
    BY VersionTypes DEF Backend, Sub
  <2>2. db'.schema = app[Backend].ver /\ pc' = pc /\ target' = target
    BY <1>25, <2>1, DatabaseFields DEF BackendStart, script
  <2>3. pc \in {"start", "health"} \cup SuccessSteps => app[Backend] = Fresh(target)
    BY ConstantsAssumption DEF ConstantsAssumption, Landed, Swapped
  <2>. QED  BY <2>2, <2>3 DEF Fresh
<1>26. CASE BackendExit
  <2>1. db'.schema = db.schema /\ pc' = pc /\ target' = target
    BY <1>26, DatabaseFields DEF BackendExit, script
  <2>. QED  BY <2>1
<1>26a. CASE ShutDown
  BY <1>26a DEF ShutDown, disk, script, process, history
<1>27. CASE UserWrite
  <2>1. db'.schema = db.schema /\ pc' = pc /\ target' = target
    BY <1>27, DatabaseFields DEF UserWrite, script
  <2>. QED  BY <2>1
<1>28. CASE LockExpires
  BY <1>28 DEF LockExpires, script, process, history
<1>29. CASE Crash
  BY <1>29 DEF Crash
<1>30. CASE Restart
  BY <1>30 DEF Restart, disk, process, history
<1>31. CASE Heal
  BY <1>31 DEF Heal, process, history
<1>32. CASE NodeBootstrapOk
  BY <1>32 DEF NodeBootstrapOk, script, history
<1>33. CASE NodeBootstrapFails
  BY <1>33 DEF NodeBootstrapFails, script, history
<1>34. ASSUME NEW v \in Images, Recreate(v) PROVE SchemaReached'
  BY <1>34 DEF Recreate, process, history
<1>. QED
  BY <1>0, <1>d, <1>4a, <1>4b, <1>26a, <1>1, <1>2, <1>3, <1>4, <1>5, <1>6, <1>7, <1>8, <1>9, <1>10, <1>11,
     <1>12, <1>13, <1>14, <1>15, <1>16, <1>17, <1>18, <1>19, <1>20, <1>21, <1>22,
     <1>23, <1>24, <1>25, <1>26, <1>27, <1>28, <1>29, <1>30, <1>31, <1>32, <1>33,
     <1>34
  DEF Next, Forward, Rollback, Boot

LEMMA NextNoneLost == IInv /\ [Next]_vars => NoneLost'
<1>. SUFFICES ASSUME IInv, [Next]_vars PROVE NoneLost'
  OBVIOUS
<1>. USE DEF IInv, TypeOK, BootsAlone, LeftBehind, NoneLost, ForwardSteps, SuccessSteps
<1>0. CASE UNCHANGED vars
  BY <1>0 DEF vars, disk, script, process, history
<1>d. ASSUME NEW v \in Version, Dispatch(v) PROVE NoneLost'
  BY <1>d DEF Dispatch, process
<1>1. CASE Bail
  BY <1>1 DEF Bail, process, history
<1>2. CASE Snapshot
  BY <1>2 DEF Snapshot, process, history
<1>3. CASE Extract
  BY <1>3 DEF Extract, disk, process, history
<1>4. CASE StopBackend
  BY <1>4 DEF StopBackend, Terminate, disk, history
<1>4a. CASE PortClosed
  BY <1>4a DEF PortClosed, disk, process, history
<1>4b. CASE PortStaysOpen
  BY <1>4b DEF PortStaysOpen, disk, process, history
<1>5. CASE MoveAside
  BY <1>5 DEF MoveAside, Advance, process, history
<1>6. CASE MoveAsideFails
  BY <1>6 DEF MoveAsideFails, RollBackFrom, disk, process, history
<1>7. CASE Land
  BY <1>7 DEF Land, Advance, process, history
<1>8. CASE LandFails
  BY <1>8 DEF LandFails, process, history
<1>9. CASE CopyVersion
  BY <1>9 DEF CopyVersion, process, history
<1>10. CASE Migrate
  <2>1. db \in Database /\ target \in 0..MaxVersion
    BY VersionTypes
  <2>2. db'.writes = db.writes
    BY <1>10, <2>1, DatabaseFields DEF Migrate
  <2>. QED  BY <1>10, <2>2 DEF Migrate, process, history
<1>11. CASE MigrateFails
  BY <1>11 DEF MigrateFails
<1>12. CASE StartBackend
  BY <1>12 DEF StartBackend, StartAgain, disk, history
<1>13. CASE Healthy
  BY <1>13 DEF Healthy, disk, process, history
<1>14. CASE HealthTimeout
  BY <1>14 DEF HealthTimeout, RollBackFrom, disk, process, history
<1>15. CASE Cleanup
  BY <1>15 DEF Cleanup, Advance, process, history
<1>16. CASE Finish
  BY <1>16 DEF Finish, process, history
<1>17. CASE RbStop
  BY <1>17 DEF RbStop, Terminate, disk, history
<1>18. CASE RbTree
  BY <1>18 DEF RbTree, Advance, process, history
<1>19. CASE RbTreeFails
  BY <1>19 DEF RbTreeFails, Advance, process, history
<1>20. CASE RbVersion
  BY <1>20 DEF RbVersion, process, history
<1>21. CASE RbDb
  BY <1>21 DEF RbDb, history
<1>22. CASE RbWal
  BY <1>22 DEF RbWal, disk, process, history
<1>23. CASE RbUp
  BY <1>23 DEF RbUp, StartAgain, disk, history
<1>24. CASE RbMark
  BY <1>24 DEF RbMark, process, history
<1>25. CASE BackendStart
  <2>1. app[Backend] \in Tree /\ db \in Database
    BY DEF Backend, Sub
  <2>2. db'.writes = db.writes
    BY <1>25, <2>1, VersionTypes, DatabaseFields DEF BackendStart
  <2>. QED  BY <1>25, <2>2 DEF BackendStart, script, history
<1>26. CASE BackendExit
  <2>1. db'.writes = db.writes
    BY <1>26, DatabaseFields DEF BackendExit
  <2>. QED  BY <1>26, <2>1 DEF BackendExit, script, RollbackSteps
<1>26a. CASE ShutDown
  BY <1>26a DEF ShutDown, disk, script, process, history
<1>27. CASE UserWrite
  <2>1. ~stale => db'.writes = db.writes + 1
    BY <1>27, DatabaseFields DEF UserWrite
  <2>. QED  BY <1>27, <2>1 DEF UserWrite, script, process
<1>28. CASE LockExpires
  BY <1>28 DEF LockExpires, script, process, history
<1>29. CASE Crash
  BY <1>29 DEF Crash
<1>30. CASE Restart
  BY <1>30 DEF Restart, disk, process, history
<1>31. CASE Heal
  BY <1>31 DEF Heal, process, history
<1>32. CASE NodeBootstrapOk
  BY <1>32 DEF NodeBootstrapOk, script, history
<1>33. CASE NodeBootstrapFails
  BY <1>33 DEF NodeBootstrapFails, script, history
<1>34. ASSUME NEW v \in Images, Recreate(v) PROVE NoneLost'
  BY <1>34 DEF Recreate, process, history
<1>. QED
  BY <1>0, <1>d, <1>4a, <1>4b, <1>26a, <1>1, <1>2, <1>3, <1>4, <1>5, <1>6, <1>7, <1>8, <1>9, <1>10, <1>11,
     <1>12, <1>13, <1>14, <1>15, <1>16, <1>17, <1>18, <1>19, <1>20, <1>21, <1>22,
     <1>23, <1>24, <1>25, <1>26, <1>27, <1>28, <1>29, <1>30, <1>31, <1>32, <1>33,
     <1>34
  DEF Next, Forward, Rollback, Boot

LEMMA NextWritesSurvive == IInv /\ [Next]_vars => WritesSurvive'
<1>. SUFFICES ASSUME IInv, [Next]_vars PROVE WritesSurvive'
  OBVIOUS
<1>. USE DEF IInv, TypeOK, BootsAlone, WritesSurvive, ForwardSteps, SuccessSteps
<1>0. CASE UNCHANGED vars
  BY <1>0 DEF vars, disk, script, process, history
<1>d. ASSUME NEW v \in Version, Dispatch(v) PROVE WritesSurvive'
  BY <1>d DEF Dispatch, process
<1>1. CASE Bail
  BY <1>1 DEF Bail, process, history
<1>2. CASE Snapshot
  <2>1. pc' = "extract" /\ db' = db /\ snapDb' = db
    BY <1>2 DEF Snapshot
  <2>. QED  BY <2>1, DatabaseFields
<1>3. CASE Extract
  BY <1>3 DEF Extract, disk, process, history
<1>4. CASE StopBackend
  BY <1>4 DEF StopBackend, Terminate, disk, history
<1>4a. CASE PortClosed
  BY <1>4a DEF PortClosed, disk, process, history
<1>4b. CASE PortStaysOpen
  BY <1>4b DEF PortStaysOpen, disk, process, history
<1>5. CASE MoveAside
  BY <1>5 DEF MoveAside, Advance, process, history
<1>6. CASE MoveAsideFails
  BY <1>6 DEF MoveAsideFails, RollBackFrom, disk, process, history
<1>7. CASE Land
  BY <1>7 DEF Land, Advance, process, history
<1>8. CASE LandFails
  BY <1>8 DEF LandFails, process, history
<1>9. CASE CopyVersion
  BY <1>9 DEF CopyVersion, process, history
<1>10. CASE Migrate
  <2>1. db \in Database /\ target \in 0..MaxVersion
    BY VersionTypes
  <2>2. db'.writes = db.writes /\ snapDb' = snapDb
    BY <1>10, <2>1, DatabaseFields DEF Migrate
  <2>. QED  BY <1>10, <2>2 DEF Migrate
<1>11. CASE MigrateFails
  BY <1>11 DEF MigrateFails, process, history
<1>12. CASE StartBackend
  BY <1>12 DEF StartBackend, StartAgain, disk, history
<1>13. CASE Healthy
  BY <1>13 DEF Healthy, disk, process, history
<1>14. CASE HealthTimeout
  BY <1>14 DEF HealthTimeout, RollBackFrom, disk, process, history
<1>15. CASE Cleanup
  BY <1>15 DEF Cleanup, Advance, process, history
<1>16. CASE Finish
  BY <1>16 DEF Finish, process, history
<1>17. CASE RbStop
  BY <1>17 DEF RbStop, Terminate, disk, history
<1>18. CASE RbTree
  BY <1>18 DEF RbTree, Advance, process, history
<1>19. CASE RbTreeFails
  BY <1>19 DEF RbTreeFails, Advance, process, history
<1>20. CASE RbVersion
  BY <1>20 DEF RbVersion, process, history
<1>21. CASE RbDb
  BY <1>21 DEF RbDb, history
<1>22. CASE RbWal
  BY <1>22 DEF RbWal, disk, process, history
<1>23. CASE RbUp
  BY <1>23 DEF RbUp, StartAgain, disk, history
<1>24. CASE RbMark
  BY <1>24 DEF RbMark, process, history
<1>25. CASE BackendStart
  <2>1. app[Backend] \in Tree /\ db \in Database
    BY DEF Backend, Sub
  <2>2. db'.writes = db.writes /\ snapDb' = snapDb /\ pc' = pc
    BY <1>25, <2>1, VersionTypes, DatabaseFields DEF BackendStart, script
  <2>. QED  BY <2>2
<1>26. CASE BackendExit
  BY <1>26 DEF BackendExit, script, history
<1>26a. CASE ShutDown
  BY <1>26a DEF ShutDown, disk, script, process, history
<1>27. CASE UserWrite
  <2>1. snapDb' = snapDb /\ pc' = pc
    BY <1>27 DEF UserWrite, script
  <2>2. db'.writes \in {db.writes, db.writes + 1}
    BY <1>27, DatabaseFields DEF UserWrite
  <2>3. db.writes \in Nat /\ snapDb.writes \in Nat
    BY DatabaseFields
  <2>. QED  BY <2>1, <2>2, <2>3
<1>28. CASE LockExpires
  BY <1>28 DEF LockExpires, script, process, history
<1>29. CASE Crash
  BY <1>29 DEF Crash
<1>30. CASE Restart
  BY <1>30 DEF Restart, disk, process, history
<1>31. CASE Heal
  BY <1>31 DEF Heal, process, history
<1>32. CASE NodeBootstrapOk
  BY <1>32 DEF NodeBootstrapOk, script, history
<1>33. CASE NodeBootstrapFails
  BY <1>33 DEF NodeBootstrapFails, script, history
<1>34. ASSUME NEW v \in Images, Recreate(v) PROVE WritesSurvive'
  BY <1>34 DEF Recreate, process, history
<1>. QED
  BY <1>0, <1>d, <1>4a, <1>4b, <1>26a, <1>1, <1>2, <1>3, <1>4, <1>5, <1>6, <1>7, <1>8, <1>9, <1>10, <1>11,
     <1>12, <1>13, <1>14, <1>15, <1>16, <1>17, <1>18, <1>19, <1>20, <1>21, <1>22,
     <1>23, <1>24, <1>25, <1>26, <1>27, <1>28, <1>29, <1>30, <1>31, <1>32, <1>33,
     <1>34
  DEF Next, Forward, Rollback, Boot


LEMMA NextIInv == IInv /\ [Next]_vars => IInv'
<1>. SUFFICES ASSUME IInv, [Next]_vars PROVE IInv'
  OBVIOUS
<1>1. TypeOK'
  BY NextTypeOK DEF IInv
<1>2. BackendAway' /\ LeftBehind' /\ BootsAlone' /\ ServesOwnSchema'
  BY NextBackendAway, NextServesOwnSchema
<1>3. Landed' /\ Cleaned' /\ Answering' /\ SchemaReached' /\ NoneLost' /\ WritesSurvive'
  BY NextLanded, NextCleaned, NextAnswering, NextSchemaReached, NextNoneLost, NextWritesSurvive
<1>. QED  BY <1>1, <1>2, <1>3 DEF IInv

LEMMA Inductive == Spec => []IInv
<1>. QED  BY InitIInv, NextIInv, PTL DEF Spec

(* Whatever dies and however often, and whichever commands fail, the       *)
(* backend serves from a database of another release's schema, and during  *)
(* the swap at all, only while it is one that a stop missed.               *)
THEOREM SchemaAgrees == Spec => []ServesOwnSchema
<1>1. IInv => ServesOwnSchema
  BY DEF IInv
<1>. QED  BY Inductive, <1>1, PTL

-----------------------------------------------------------------------------
(* What "succeeded" means *)

LEMMA OnlyFinishSucceeds ==
    ASSUME [Next]_vars, Completed("succeeded")
    PROVE  Finish
<1>. USE DEF Completed
<1>0. CASE UNCHANGED vars
  BY <1>0 DEF vars, disk
<1>d. ASSUME NEW v \in Version, Dispatch(v) PROVE FALSE
  BY <1>d DEF Dispatch
<1>r. ASSUME NEW v \in Images, Recreate(v) PROVE FALSE
  BY <1>r DEF Recreate
<1>1. CASE Bail
  BY <1>1 DEF Bail
<1>2. CASE Snapshot
  BY <1>2 DEF Snapshot
<1>3. CASE Extract
  BY <1>3 DEF Extract, disk
<1>4. CASE StopBackend
  BY <1>4 DEF StopBackend, disk
<1>4a. CASE PortClosed
  BY <1>4a DEF PortClosed, disk
<1>4b. CASE PortStaysOpen
  BY <1>4b DEF PortStaysOpen, disk
<1>5. CASE MoveAside
  BY <1>5 DEF MoveAside
<1>6. CASE MoveAsideFails
  BY <1>6 DEF MoveAsideFails, disk, RollBackFrom
<1>7. CASE Land
  BY <1>7 DEF Land
<1>8. CASE LandFails
  BY <1>8 DEF LandFails
<1>9. CASE CopyVersion
  BY <1>9 DEF CopyVersion
<1>10. CASE Migrate
  BY <1>10 DEF Migrate
<1>11. CASE MigrateFails
  BY <1>11 DEF MigrateFails
<1>12. CASE StartBackend
  BY <1>12 DEF StartBackend, StartAgain, disk
<1>13. CASE Healthy
  BY <1>13 DEF Healthy, disk
<1>14. CASE HealthTimeout
  BY <1>14 DEF HealthTimeout, disk, RollBackFrom
<1>15. CASE Cleanup
  BY <1>15 DEF Cleanup
<1>16. CASE RbStop
  BY <1>16 DEF RbStop, disk
<1>17. CASE RbTree
  BY <1>17 DEF RbTree
<1>18. CASE RbTreeFails
  BY <1>18 DEF RbTreeFails
<1>19. CASE RbVersion
  BY <1>19 DEF RbVersion
<1>20. CASE RbDb
  BY <1>20 DEF RbDb
<1>21. CASE RbWal
  BY <1>21 DEF RbWal, disk
<1>22. CASE RbUp
  BY <1>22 DEF RbUp, StartAgain, disk
<1>23. CASE RbMark
  BY <1>23 DEF RbMark
<1>24. CASE BackendStart
  BY <1>24 DEF BackendStart
<1>25. CASE BackendExit
  BY <1>25 DEF BackendExit
<1>26a. CASE ShutDown
  BY <1>26a DEF ShutDown, disk
<1>26. CASE UserWrite
  BY <1>26 DEF UserWrite
<1>27. CASE LockExpires
  BY <1>27 DEF LockExpires
<1>28. CASE Crash
  BY <1>28 DEF Crash
<1>29. CASE Restart
  BY <1>29 DEF Restart, disk
<1>30. CASE Heal
  BY <1>30 DEF Heal
<1>31. CASE NodeBootstrapOk
  BY <1>31 DEF NodeBootstrapOk
<1>32. CASE NodeBootstrapFails
  BY <1>32 DEF NodeBootstrapFails
<1>. QED
  BY <1>0, <1>d, <1>4a, <1>4b, <1>26a, <1>r, <1>1, <1>2, <1>3, <1>4, <1>5, <1>6, <1>7, <1>8, <1>9, <1>10, <1>11, <1>12, <1>13,
     <1>14, <1>15, <1>16, <1>17, <1>18, <1>19, <1>20, <1>21, <1>22, <1>23, <1>24,
     <1>25, <1>26, <1>27, <1>28, <1>29, <1>30, <1>31, <1>32
  DEF Next, Forward, Rollback, Boot

(* Whatever dies and however often, and whichever commands fail, an update *)
(* is declared succeeded only when its code and its schema are in place;   *)
(* and if no stop missed the backend, only when the new release answers    *)
(* and no write that users were told of since it began is lost.            *)
THEOREM SuccessComplete == Spec => SuccessIsComplete
<1>1. ASSUME IInv, [Next]_vars, Completed("succeeded")
      PROVE  /\ \A s \in Bundled : app[s] = Fresh(target)
             /\ \A s \in Sub : ~Exists(old[s])
             /\ db.schema = target
             /\ missed \/ (backend = "up" /\ running = target /\ db.writes = acked)
  <2>1. pc = "finish"
    BY <1>1, OnlyFinishSucceeds DEF Finish
  <2>2. /\ \A s \in Bundled : app[s] = Fresh(target)
        /\ \A s \in Sub : ~Exists(old[s])
    BY <1>1, <2>1 DEF IInv, Landed, Swapped, Cleaned
  <2>3. ~missed => backend = "up" /\ running = target
    BY <1>1, <2>1 DEF IInv, Answering, SuccessSteps
  <2>4. db.schema = target
    BY <1>1, <2>1 DEF IInv, SchemaReached, SuccessSteps
  <2>5. ~missed => db.writes = acked
    BY <1>1, <2>1 DEF IInv, NoneLost, SuccessSteps
  <2>. QED  BY <2>2, <2>3, <2>4, <2>5
<1>. QED  BY Inductive, <1>1, PTL DEF Spec, SuccessIsComplete

-----------------------------------------------------------------------------
(* What becomes of the writes *)

LEMMA NextKeepsWrites == TypeOK /\ [Next]_vars => (pc = "rbDb" \/ db'.writes >= db.writes)
<1>. SUFFICES ASSUME TypeOK, [Next]_vars PROVE (pc = "rbDb" \/ db'.writes >= db.writes)
  OBVIOUS
<1>. USE DEF TypeOK
<1>n. db.writes \in Nat
  BY DatabaseFields
<1>0. CASE UNCHANGED vars
  BY <1>0, <1>n DEF vars, disk, script, process, history
<1>d. ASSUME NEW v \in Version, Dispatch(v) PROVE (pc = "rbDb" \/ db'.writes >= db.writes)
  BY <1>d, <1>n DEF Dispatch
<1>1. CASE Bail
  BY <1>1, <1>n DEF Bail
<1>2. CASE Snapshot
  BY <1>2, <1>n DEF Snapshot
<1>3. CASE Extract
  BY <1>3, <1>n DEF Extract, disk
<1>4. CASE StopBackend
  BY <1>4, <1>n DEF StopBackend, disk
<1>4a. CASE PortClosed
  BY <1>4a, <1>n DEF PortClosed, disk
<1>4b. CASE PortStaysOpen
  BY <1>4b, <1>n DEF PortStaysOpen, disk
<1>5. CASE MoveAside
  BY <1>5, <1>n DEF MoveAside
<1>6. CASE MoveAsideFails
  BY <1>6, <1>n DEF MoveAsideFails, disk, RollBackFrom
<1>7. CASE Land
  BY <1>7, <1>n DEF Land
<1>8. CASE LandFails
  BY <1>8, <1>n DEF LandFails
<1>9. CASE CopyVersion
  BY <1>9, <1>n DEF CopyVersion
<1>10. CASE Migrate
  BY <1>10, VersionTypes, DatabaseFields DEF Migrate
<1>11. CASE MigrateFails
  <2>1. db.schema \in 0..MaxVersion /\ target \in 0..MaxVersion
    BY DatabaseTypes, VersionTypes
  <2>2. db.schema..target \cup {db.schema} \subseteq 0..MaxVersion
    BY <2>1, VersionTypes
  <2>. QED  BY <1>11, <2>2, DatabaseFields DEF MigrateFails
<1>12. CASE StartBackend
  BY <1>12, <1>n DEF StartBackend, StartAgain, disk
<1>13. CASE Healthy
  BY <1>13, <1>n DEF Healthy, disk
<1>14. CASE HealthTimeout
  BY <1>14, <1>n DEF HealthTimeout, disk, RollBackFrom
<1>15. CASE Cleanup
  BY <1>15, <1>n DEF Cleanup
<1>16. CASE Finish
  BY <1>16, <1>n DEF Finish
<1>17. CASE RbStop
  BY <1>17, <1>n DEF RbStop, disk
<1>18. CASE RbTree
  BY <1>18, <1>n DEF RbTree
<1>19. CASE RbTreeFails
  BY <1>19, <1>n DEF RbTreeFails
<1>20. CASE RbVersion
  BY <1>20, <1>n DEF RbVersion
<1>21. CASE RbDb
  BY <1>21 DEF RbDb
<1>22. CASE RbWal
  BY <1>22, <1>n DEF RbWal, disk
<1>23. CASE RbUp
  BY <1>23, <1>n DEF RbUp, StartAgain, disk
<1>24. CASE RbMark
  BY <1>24, <1>n DEF RbMark
<1>25. CASE BackendStart
  <2>1. app[Backend] \in Tree
    BY DEF Backend, Sub
  <2>. QED  BY <1>25, <2>1, VersionTypes, DatabaseFields DEF BackendStart
<1>26. CASE BackendExit
  BY <1>26, DatabaseFields, DatabaseTypes DEF BackendExit
<1>26a. CASE ShutDown
  BY <1>26a, <1>n DEF ShutDown, disk
<1>27. CASE UserWrite
  <2>1. db'.writes \in {db.writes, db.writes + 1}
    BY <1>27, DatabaseFields DEF UserWrite
  <2>. QED  BY <2>1, <1>n
<1>28. CASE LockExpires
  BY <1>28, <1>n DEF LockExpires
<1>29. CASE Crash
  <2>1. app[Backend] \in Tree
    BY DEF Backend, Sub
  <2>2. /\ db.schema \in 0..MaxVersion /\ target \in 0..MaxVersion
        /\ app[Backend].ver \in 0..MaxVersion
    BY <2>1, DatabaseTypes, VersionTypes
  <2>3. /\ db.schema..target \subseteq 0..MaxVersion
        /\ db.schema..app[Backend].ver \subseteq 0..MaxVersion
    BY <2>2, VersionTypes
  <2>4. \/ db' = db
        \/ db' = [db EXCEPT !.torn = TRUE]
        \/ \E v \in 0..MaxVersion : db' = [Migrated(db, v) EXCEPT !.locked = TRUE]
    BY <1>29, <2>3 DEF Crash, CrashDb
  <2>5. db \in Database
    OBVIOUS
  <2>6. db'.writes = db.writes
    BY <2>4, <2>5 DEF Database, Migrated
  <2>. QED  BY <2>6, <1>n
<1>30. CASE Restart
  BY <1>30, <1>n DEF Restart, disk
<1>31. CASE Heal
  BY <1>31, <1>n DEF Heal
<1>32. CASE NodeBootstrapOk
  <2>1. app[Backend] \in Tree
    BY DEF Backend, Sub
  <2>. QED  BY <1>32, <2>1, VersionTypes, DatabaseFields DEF NodeBootstrapOk
<1>33. CASE NodeBootstrapFails
  BY <1>33, <1>n DEF NodeBootstrapFails
<1>34. ASSUME NEW v \in Images, Recreate(v) PROVE (pc = "rbDb" \/ db'.writes >= db.writes)
  BY <1>34, <1>n DEF Recreate
<1>. QED
  BY <1>0, <1>d, <1>4a, <1>4b, <1>26a, <1>1, <1>2, <1>3, <1>4, <1>5, <1>6, <1>7, <1>8, <1>9, <1>10, <1>11,
     <1>12, <1>13, <1>14, <1>15, <1>16, <1>17, <1>18, <1>19, <1>20, <1>21, <1>22,
     <1>23, <1>24, <1>25, <1>26, <1>27, <1>28, <1>29, <1>30, <1>31, <1>32, <1>33,
     <1>34
  DEF Next, Forward, Rollback, Boot

-----------------------------------------------------------------------------
(* Where the two releases are, step by step *)

\* Copying the snapshot and the commands of rollback() do their work
RollbackWorks == Faults \cap {"snapshot", "restore"} = {}

\* Where the release the update found is, directory by directory
Kept(s) == app[s] = snapApp[s] /\ old[s] = NoTree
MovedAside(s) == old[s] = IF Exists(snapApp[s]) THEN snapApp[s] ELSE NoTree
Aside(s) == ~Exists(app[s]) /\ MovedAside(s)
Arrived(s) == IF s \in Bundled THEN app[s] = Fresh(target) ELSE ~Exists(app[s])
Replaced(s) == Arrived(s) /\ MovedAside(s)
Reversible(s) == Kept(s) \/ Aside(s) \/ Replaced(s)

\* The swap and its reversal, as far as they have come in a container that has
\* not died
SwapPhaseOf(s) ==
    /\ pc \in {"idle", "snapshot"} => old[s] = NoTree
    /\ pc \in {"extract", "stop", "wait"} => Kept(s)
    /\ pc = "aside" => IF s < i THEN Aside(s) ELSE Kept(s)
    /\ pc = "land" => IF s < i THEN Replaced(s) ELSE Aside(s)
    /\ pc \in {"version", "migrate", "start", "health"} => Replaced(s)
    /\ pc = "cleanup" => Arrived(s) /\ IF s < i THEN old[s] = NoTree ELSE MovedAside(s)
    /\ pc = "finish" => Arrived(s) /\ old[s] = NoTree
    /\ pc = "rbStop" => Reversible(s)
    /\ pc = "rbTree" => IF s < i THEN Kept(s) ELSE Reversible(s)
    /\ pc \in {"rbVersion", "rbDb", "rbWal", "rbUp", "rbMark"} => Kept(s)

SwapPhase == crashes = 0 => \A s \in Sub : SwapPhaseOf(s)

OneLife == crashes = 0 => boot = "done"

\* An update finds the schema of the code in place; so its snapshots belong
\* together, and rollback() puts them back one by one
SnapshotsAgree ==
    /\ crashes = 0 /\ pc \in {"idle", "snapshot", "extract"} => db.schema = app[Backend].ver
    /\ crashes = 0 /\ pc \notin {"idle", "snapshot"} => snapDb.schema = snapApp[Backend].ver
    /\ pc \in {"rbDb", "rbWal", "rbUp", "rbMark"} => version = snapVersion
    /\ crashes = 0 /\ pc \in {"rbWal", "rbUp", "rbMark"} => db.schema = snapDb.schema

Whole(t) == Exists(t) /\ t.whole

CompleteCopyOf(s) == IF pc \in {"idle", "snapshot"} THEN Whole(app[s]) ELSE Whole(snapApp[s])
CompleteCopies == crashes = 0 => \A s \in Sub : CompleteCopyOf(s)

\* The first death came in the middle of an update's forward path
Interrupted ==
    /\ crashes = 1 /\ marker = "running"
    /\ killedAt \in (ForwardSteps \cup SuccessSteps) \ {"snapshot"}

\* What heal_interrupted_update finds then, and how far it has come
Healable(s) ==
    \/ app[s] \in {snapApp[s], Fresh(target)} /\ Exists(app[s])
    \/ /\ boot = "off" \/ (boot = "heal" /\ i <= s)
       /\ ~Exists(app[s]) /\ Exists(old[s]) /\ old[s] = snapApp[s]

\* or a container recreated from an image
FromImage == \E v \in Images : app = [s \in Sub |-> Fresh(v)]

HealedSoFar ==
    /\ (\A s \in Sub : Healable(s)) \/ (boot # "off" /\ FromImage)
    /\ boot = "heal" => \A s \in Sub : s < i => s \notin incoming
    /\ boot = "node" => incoming = {}
    /\ db.writes >= snapDb.writes
Healing == boot # "done" /\ Interrupted => HealedSoFar

Unhurt == crashes = 0 => killedAt = "idle"

JInv == IInv /\ OneLife /\ SwapPhase /\ SnapshotsAgree
HInv == JInv /\ CompleteCopies /\ Unhurt /\ Healing

LEMMA NextOneLife == IInv /\ OneLife /\ [Next]_vars => OneLife'
<1>. SUFFICES ASSUME IInv, OneLife, [Next]_vars PROVE OneLife'
  OBVIOUS
<1>t. app \in [Sub -> Tree] /\ i \in Sub /\ Backend \in Sub /\ crashes \in Nat
  BY DEF IInv, TypeOK, Backend, Sub
<1>. USE DEF OneLife, IInv, BackendAway, BootsAlone, Exclusive
<1>0. CASE UNCHANGED vars
  BY <1>0 DEF vars, disk, script, process, history
<1>d. ASSUME NEW v \in Version, Dispatch(v) PROVE OneLife'
  BY <1>d, <1>t DEF Dispatch, process
<1>1. CASE Bail
  BY <1>1 DEF Bail, process, history
<1>2. CASE Snapshot
  BY <1>2 DEF Snapshot, process, history
<1>3. CASE Extract
  BY <1>3 DEF Extract, disk, process, history
<1>4. CASE StopBackend
  BY <1>4 DEF StopBackend, Terminate, disk, history
<1>4a. CASE PortClosed
  BY <1>4a DEF PortClosed, disk, process, history
<1>4b. CASE PortStaysOpen
  BY <1>4b DEF PortStaysOpen, disk, process, history
<1>5. CASE MoveAside
  BY <1>5 DEF MoveAside, Advance, process, history
<1>6. CASE MoveAsideFails
  BY <1>6 DEF MoveAsideFails, RollBackFrom, disk, process, history
<1>7. CASE Land
  BY <1>7 DEF Land, Advance, process, history
<1>8. CASE LandFails
  BY <1>8 DEF LandFails, process, history
<1>9. CASE CopyVersion
  BY <1>9 DEF CopyVersion, process, history
<1>10. CASE Migrate
  BY <1>10 DEF Migrate, process, history
<1>11. CASE MigrateFails
  BY <1>11 DEF MigrateFails, process, history
<1>12. CASE StartBackend
  BY <1>12 DEF StartBackend, StartAgain, disk, history
<1>13. CASE Healthy
  BY <1>13 DEF Healthy, disk, process, history
<1>14. CASE HealthTimeout
  BY <1>14 DEF HealthTimeout, RollBackFrom, disk, process, history
<1>15. CASE Cleanup
  BY <1>15 DEF Cleanup, Advance, process, history
<1>16. CASE Finish
  BY <1>16 DEF Finish, process, history
<1>17. CASE RbStop
  BY <1>17 DEF RbStop, Terminate, disk, history
<1>18. CASE RbTree
  BY <1>18 DEF RbTree, Advance, process, history
<1>19. CASE RbTreeFails
  BY <1>19 DEF RbTreeFails, Advance, process, history
<1>20. CASE RbVersion
  BY <1>20 DEF RbVersion, process, history
<1>21. CASE RbDb
  BY <1>21 DEF RbDb, history
<1>22. CASE RbWal
  BY <1>22 DEF RbWal, disk, process, history
<1>23. CASE RbUp
  BY <1>23 DEF RbUp, StartAgain, disk, history
<1>24. CASE RbMark
  BY <1>24 DEF RbMark, process, history
<1>25. CASE BackendStart
  BY <1>25 DEF BackendStart, script, history
<1>26. CASE BackendExit
  BY <1>26 DEF BackendExit, script, history
<1>26a. CASE ShutDown
  BY <1>26a DEF ShutDown, disk, script, process, history
<1>27. CASE UserWrite
  BY <1>27 DEF UserWrite, script, process, history
<1>28. CASE LockExpires
  BY <1>28 DEF LockExpires, script, process, history
<1>29. CASE Crash
  BY <1>29, <1>t DEF Crash
<1>30. CASE Restart
  BY <1>30 DEF Restart, disk, process, history
<1>31. CASE Heal
  BY <1>31 DEF Heal, process, history
<1>32. CASE NodeBootstrapOk
  BY <1>32 DEF NodeBootstrapOk, script, history
<1>33. CASE NodeBootstrapFails
  BY <1>33 DEF NodeBootstrapFails, script, history
<1>34. ASSUME NEW v \in Images, Recreate(v) PROVE OneLife'
  BY <1>34 DEF Recreate, process, history
<1>. QED
  BY <1>0, <1>d, <1>4a, <1>4b, <1>26a, <1>1, <1>2, <1>3, <1>4, <1>5, <1>6, <1>7, <1>8, <1>9, <1>10, <1>11,
     <1>12, <1>13, <1>14, <1>15, <1>16, <1>17, <1>18, <1>19, <1>20, <1>21, <1>22,
     <1>23, <1>24, <1>25, <1>26, <1>27, <1>28, <1>29, <1>30, <1>31, <1>32, <1>33,
     <1>34
  DEF Next, Forward, Rollback, Boot

LEMMA NextSwapPhase == RollbackWorks /\ IInv /\ OneLife /\ SwapPhase /\ [Next]_vars => SwapPhase'
<1>. SUFFICES ASSUME RollbackWorks, IInv, OneLife, SwapPhase, [Next]_vars,
                      crashes' = 0, NEW s \in Sub
               PROVE  SwapPhaseOf(s)'
  BY DEF SwapPhase
<1>t. app \in [Sub -> Tree] /\ old \in [Sub -> Tree] /\ i \in 1..3 /\ s \in 1..3
  BY DEF IInv, TypeOK, Sub
<1>c. crashes = 0 => SwapPhaseOf(s)
  BY DEF SwapPhase
<1>e. crashes = 0 => boot = "done"
  BY DEF OneLife
<1>. USE DEF SwapPhaseOf, MovedAside, Kept, Aside, Arrived, Replaced, Reversible
<1>0. CASE UNCHANGED vars
  BY <1>0, <1>t, <1>c DEF vars, disk, script, process, history
<1>d. ASSUME NEW v \in Version, Dispatch(v) PROVE SwapPhaseOf(s)'
  BY <1>d, <1>t, <1>c DEF Dispatch, process
<1>1. CASE Bail
  BY <1>1, <1>t, <1>c DEF Bail, process, history
<1>2. CASE Snapshot
  <2>1. snapApp' = [r \in Sub |-> app[r]]
    BY <1>2 DEF Snapshot, RollbackWorks
  <2>. QED  BY <1>2, <2>1, <1>t, <1>c DEF Snapshot, process, history
<1>3. CASE Extract
  BY <1>3, <1>t, <1>c DEF Extract, disk, process, history
<1>4. CASE StopBackend
  BY <1>4, <1>t, <1>c DEF StopBackend, Terminate, disk, history
<1>4a. CASE PortClosed
  BY <1>4a, <1>t, <1>c DEF PortClosed, disk, process, history
<1>4b. CASE PortStaysOpen
  BY <1>4b, <1>t, <1>c DEF PortStaysOpen, disk, process, history
<1>5. CASE MoveAside
  <2>0. pc = "aside" /\ crashes = 0 /\ snapApp' = snapApp /\ target' = target
    BY <1>5 DEF MoveAside, history
  <2>1. ~Exists(NoTree)
    BY DEF Exists, NoTree
  <2>2. CASE s = i
    <3>1. Aside(s)'
      BY <1>5, <1>t, <1>c, <2>0, <2>1, <2>2 DEF MoveAside, Exists, NoTree
    <3>2. (pc' = "aside" /\ s < i') \/ (pc' = "land" /\ i' = 1)
      BY <1>5, <1>t, <2>0, <2>2 DEF MoveAside, Advance
    <3>. QED  BY <1>t, <3>1, <3>2
  <2>3. CASE s # i
    <3>1. app'[s] = app[s] /\ old'[s] = old[s]
      BY <1>5, <1>t, <2>3 DEF MoveAside
    <3>2. \/ pc' = "aside" /\ (s < i' <=> s < i)
          \/ pc' = "land" /\ i' = 1 /\ s < i
      BY <1>5, <1>t, <2>0, <2>3 DEF MoveAside, Advance
    <3>3. Aside(s)' <=> Aside(s)
      BY <2>0, <3>1
    <3>4. Kept(s)' <=> Kept(s)
      BY <2>0, <3>1
    <3>. QED  BY <1>t, <1>c, <2>0, <3>2, <3>3, <3>4
  <2>. QED  BY <2>2, <2>3
<1>6. CASE MoveAsideFails
  BY <1>6, <1>t, <1>c DEF MoveAsideFails, RollBackFrom, disk, process, history
<1>7. CASE Land
  BY <1>7, <1>t, <1>c DEF Land, Advance, process, history
<1>8. CASE LandFails
  BY <1>8, <1>t, <1>c DEF LandFails, process, history
<1>9. CASE CopyVersion
  BY <1>9, <1>t, <1>c DEF CopyVersion, process, history
<1>10. CASE Migrate
  BY <1>10, <1>t, <1>c DEF Migrate, process, history
<1>11. CASE MigrateFails
  BY <1>11, <1>t, <1>c DEF MigrateFails, process, history
<1>12. CASE StartBackend
  BY <1>12, <1>t, <1>c DEF StartBackend, StartAgain, disk, history
<1>13. CASE Healthy
  BY <1>13, <1>t, <1>c DEF Healthy, disk, process, history
<1>14. CASE HealthTimeout
  BY <1>14, <1>t, <1>c DEF HealthTimeout, RollBackFrom, disk, process, history
<1>15. CASE Cleanup
  BY <1>15, <1>t, <1>c DEF Cleanup, Advance, process, history
<1>16. CASE Finish
  BY <1>16, <1>t, <1>c DEF Finish, process, history
<1>17. CASE RbStop
  BY <1>17, <1>t, <1>c DEF RbStop, Terminate, disk, history
<1>18. CASE RbTree
  <2>0. pc = "rbTree" /\ crashes = 0 /\ snapApp' = snapApp /\ target' = target
    BY <1>18 DEF RbTree, history
  <2>1. ~Exists(NoTree)
    BY DEF Exists, NoTree
  <2>2. CASE s = i
    <3>1. Kept(s)'
      BY <1>18, <1>t, <1>c, <2>0, <2>1, <2>2 DEF RbTree
    <3>2. (pc' = "rbTree" /\ s < i') \/ (pc' = "rbVersion" /\ i' = 1)
      BY <1>18, <1>t, <2>0, <2>2 DEF RbTree, Advance
    <3>. QED  BY <1>t, <3>1, <3>2
  <2>3. CASE s # i
    <3>1. app'[s] = app[s] /\ old'[s] = old[s]
      BY <1>18, <1>t, <2>3 DEF RbTree
    <3>2. \/ pc' = "rbTree" /\ (s < i' <=> s < i)
          \/ pc' = "rbVersion" /\ i' = 1 /\ s < i
      BY <1>18, <1>t, <2>0, <2>3 DEF RbTree, Advance
    <3>3. Reversible(s)' <=> Reversible(s)
      BY <2>0, <3>1
    <3>4. Kept(s)' <=> Kept(s)
      BY <2>0, <3>1
    <3>. QED  BY <1>t, <1>c, <2>0, <3>2, <3>3, <3>4
  <2>. QED  BY <2>2, <2>3
<1>19. CASE RbTreeFails
  BY <1>19 DEF RbTreeFails, RollbackWorks
<1>20. CASE RbVersion
  BY <1>20, <1>t, <1>c DEF RbVersion, process, history
<1>21. CASE RbDb
  BY <1>21, <1>t, <1>c DEF RbDb, history
<1>22. CASE RbWal
  BY <1>22, <1>t, <1>c DEF RbWal, disk, process, history
<1>23. CASE RbUp
  BY <1>23, <1>t, <1>c DEF RbUp, StartAgain, disk, history
<1>24. CASE RbMark
  BY <1>24, <1>t, <1>c DEF RbMark, process, history
<1>25. CASE BackendStart
  BY <1>25, <1>t, <1>c DEF BackendStart, script, history
<1>26. CASE BackendExit
  BY <1>26, <1>t, <1>c DEF BackendExit, script, history
<1>26a. CASE ShutDown
  BY <1>26a, <1>t, <1>c DEF ShutDown, disk, script, process, history
<1>27. CASE UserWrite
  BY <1>27, <1>t, <1>c DEF UserWrite, script, process, history
<1>28. CASE LockExpires
  BY <1>28, <1>t, <1>c DEF LockExpires, script, process, history
<1>29. CASE Crash
  <2>1. crashes \in Nat
    BY DEF IInv, TypeOK
  <2>. QED  BY <1>29, <2>1 DEF Crash
<1>30. CASE Restart
  BY <1>30, <1>e DEF Restart, disk, process, history
<1>31. CASE Heal
  BY <1>31, <1>e DEF Heal, history
<1>32. CASE NodeBootstrapOk
  BY <1>32, <1>t, <1>c DEF NodeBootstrapOk, script, history
<1>33. CASE NodeBootstrapFails
  BY <1>33, <1>t, <1>c DEF NodeBootstrapFails, script, history
<1>34. ASSUME NEW v \in Images, Recreate(v) PROVE SwapPhaseOf(s)'
  BY <1>34, <1>e DEF Recreate, history
<1>. QED
  BY <1>0, <1>d, <1>4a, <1>4b, <1>26a, <1>1, <1>2, <1>3, <1>4, <1>5, <1>6, <1>7, <1>8, <1>9, <1>10, <1>11,
     <1>12, <1>13, <1>14, <1>15, <1>16, <1>17, <1>18, <1>19, <1>20, <1>21, <1>22,
     <1>23, <1>24, <1>25, <1>26, <1>27, <1>28, <1>29, <1>30, <1>31, <1>32, <1>33,
     <1>34
  DEF Next, Forward, Rollback, Boot

LEMMA NextSnapshotsAgree ==
    RollbackWorks /\ IInv /\ OneLife /\ SwapPhase /\ SnapshotsAgree /\ [Next]_vars
    => SnapshotsAgree'
<1>. SUFFICES ASSUME RollbackWorks, IInv, OneLife, SwapPhase, SnapshotsAgree, [Next]_vars
               PROVE  SnapshotsAgree'
  OBVIOUS
<1>t. /\ app[Backend] \in Tree /\ db \in Database /\ snapDb \in Database
      /\ crashes \in Nat /\ Backend \in Sub /\ target \in 0..MaxVersion
  BY VersionTypes DEF IInv, TypeOK, Backend, Sub
<1>e. crashes = 0 => boot = "done"
  BY DEF OneLife
<1>. USE DEF SnapshotsAgree
<1>0. CASE UNCHANGED vars
  BY <1>0 DEF vars, disk, script, process, history
<1>d. ASSUME NEW v \in Version, Dispatch(v) PROVE SnapshotsAgree'
  BY <1>d DEF Dispatch, process
<1>1. CASE Bail
  BY <1>1 DEF Bail, process, history
<1>2. CASE Snapshot
  <2>1. snapApp'[Backend] = app[Backend]
    BY <1>2, <1>t DEF Snapshot
  <2>. QED  BY <1>2, <2>1 DEF Snapshot, process, history
<1>3. CASE Extract
  BY <1>3 DEF Extract, disk, process, history
<1>4. CASE StopBackend
  BY <1>4 DEF StopBackend, Terminate, disk, history
<1>4a. CASE PortClosed
  BY <1>4a DEF PortClosed, disk, process, history
<1>4b. CASE PortStaysOpen
  BY <1>4b DEF PortStaysOpen, disk, process, history
<1>5. CASE MoveAside
  BY <1>5 DEF MoveAside, Advance, process, history
<1>6. CASE MoveAsideFails
  BY <1>6 DEF MoveAsideFails, RollBackFrom, disk, process, history
<1>7. CASE Land
  BY <1>7 DEF Land, Advance, process, history
<1>8. CASE LandFails
  BY <1>8 DEF LandFails, process, history
<1>9. CASE CopyVersion
  BY <1>9 DEF CopyVersion, process, history
<1>10. CASE Migrate
  BY <1>10 DEF Migrate, process, history
<1>11. CASE MigrateFails
  BY <1>11 DEF MigrateFails, process, history
<1>12. CASE StartBackend
  BY <1>12 DEF StartBackend, StartAgain, disk, history
<1>13. CASE Healthy
  BY <1>13 DEF Healthy, disk, process, history
<1>14. CASE HealthTimeout
  BY <1>14 DEF HealthTimeout, RollBackFrom, disk, process, history
<1>15. CASE Cleanup
  BY <1>15 DEF Cleanup, Advance, process, history
<1>16. CASE Finish
  <2>1. db.schema = target /\ app[Backend] = Fresh(target)
    BY <1>16, ConstantsAssumption
    DEF Finish, IInv, SchemaReached, SuccessSteps, Landed, Swapped, ConstantsAssumption
  <2>. QED  BY <1>16, <2>1 DEF Finish, process, history, Fresh
<1>17. CASE RbStop
  BY <1>17 DEF RbStop, Terminate, disk, history
<1>18. CASE RbTree
  BY <1>18 DEF RbTree, Advance, process, history
<1>19. CASE RbTreeFails
  BY <1>19 DEF RbTreeFails, RollbackWorks
<1>20. CASE RbVersion
  BY <1>20 DEF RbVersion, process, history
<1>21. CASE RbDb
  <2>1. db' = snapDb
    BY <1>21 DEF RbDb, RollbackWorks
  <2>. QED  BY <1>21, <2>1 DEF RbDb, history
<1>22. CASE RbWal
  BY <1>22 DEF RbWal, disk, process, history
<1>23. CASE RbUp
  BY <1>23 DEF RbUp, StartAgain, disk, history
<1>24. CASE RbMark
  <2>1. crashes = 0 => app[Backend] = snapApp[Backend]
    BY <1>24, <1>t DEF RbMark, SwapPhase, SwapPhaseOf, Kept
  <2>. QED  BY <1>24, <2>1 DEF RbMark, process, history
<1>25. CASE BackendStart
  <2>0. /\ pc' = pc /\ crashes' = crashes /\ snapDb' = snapDb /\ snapApp' = snapApp
        /\ version' = version /\ snapVersion' = snapVersion /\ app' = app
    BY <1>25 DEF BackendStart, script, history
  <2>1. db'.schema = app[Backend].ver
    BY <1>25, <1>t, VersionTypes, DatabaseFields DEF BackendStart
  <2>2. crashes = 0 /\ pc \in {"rbWal", "rbUp", "rbMark"} => app[Backend] = snapApp[Backend]
    BY <1>t DEF SwapPhase, SwapPhaseOf, Kept
  <2>. QED  BY <2>0, <2>1, <2>2
<1>26. CASE BackendExit
  <2>1. db'.schema = db.schema
    BY <1>26, <1>t, DatabaseTypes, DatabaseFields DEF BackendExit
  <2>. QED  BY <1>26, <2>1 DEF BackendExit, script, history
<1>26a. CASE ShutDown
  BY <1>26a DEF ShutDown, disk, script, process, history
<1>27. CASE UserWrite
  <2>1. db'.schema = db.schema
    BY <1>27, <1>t, DatabaseFields DEF UserWrite
  <2>. QED  BY <1>27, <2>1 DEF UserWrite, script, process, history
<1>28. CASE LockExpires
  BY <1>28 DEF LockExpires, script, process, history
<1>29. CASE Crash
  BY <1>29, <1>t DEF Crash
<1>30. CASE Restart
  BY <1>30 DEF Restart, disk, process, history
<1>31. CASE Heal
  BY <1>31, <1>e DEF Heal, process, history
<1>32. CASE NodeBootstrapOk
  BY <1>32, <1>e DEF NodeBootstrapOk, script, history
<1>33. CASE NodeBootstrapFails
  BY <1>33, <1>e DEF NodeBootstrapFails, script, history
<1>34. ASSUME NEW v \in Images, Recreate(v) PROVE SnapshotsAgree'
  BY <1>34, <1>e DEF IInv, BootsAlone, Recreate, process, history
<1>. QED
  BY <1>0, <1>d, <1>4a, <1>4b, <1>26a, <1>1, <1>2, <1>3, <1>4, <1>5, <1>6, <1>7, <1>8, <1>9, <1>10, <1>11,
     <1>12, <1>13, <1>14, <1>15, <1>16, <1>17, <1>18, <1>19, <1>20, <1>21, <1>22,
     <1>23, <1>24, <1>25, <1>26, <1>27, <1>28, <1>29, <1>30, <1>31, <1>32, <1>33,
     <1>34
  DEF Next, Forward, Rollback, Boot

LEMMA NextCompleteCopies ==
    RollbackWorks /\ Bundled = Sub /\ IInv /\ OneLife /\ SwapPhase /\ CompleteCopies
    /\ [Next]_vars => CompleteCopies'
<1>. SUFFICES ASSUME RollbackWorks, Bundled = Sub, IInv, OneLife, SwapPhase, CompleteCopies,
                      [Next]_vars, crashes' = 0, NEW s \in Sub
               PROVE  CompleteCopyOf(s)'
  BY DEF CompleteCopies
<1>t. /\ app \in [Sub -> Tree] /\ i \in Sub /\ crashes \in Nat
      /\ target \in Version /\ Whole(Fresh(target))
  BY ConstantsAssumption DEF IInv, TypeOK, ConstantsAssumption, Version, Whole, Exists, Fresh
<1>c. crashes = 0 => CompleteCopyOf(s) /\ SwapPhaseOf(s)
  BY DEF CompleteCopies, SwapPhase
<1>e. crashes = 0 => boot = "done"
  BY DEF OneLife
<1>. USE DEF CompleteCopyOf
<1>0. CASE UNCHANGED vars
  BY <1>0, <1>c DEF vars, disk, script, process, history
<1>d. ASSUME NEW v \in Version, Dispatch(v) PROVE CompleteCopyOf(s)'
  BY <1>d, <1>c DEF Dispatch, process
<1>1. CASE Bail
  <2>1. pc = "extract" => app[s] = snapApp[s]
    BY <1>1, <1>c DEF Bail, history, SwapPhaseOf, Kept
  <2>. QED  BY <1>1, <2>1, <1>c DEF Bail, history
<1>2. CASE Snapshot
  <2>1. snapApp' = [r \in Sub |-> app[r]]
    BY <1>2 DEF Snapshot, RollbackWorks
  <2>. QED  BY <1>2, <2>1, <1>t, <1>c DEF Snapshot, process, history
<1>3. CASE Extract
  BY <1>3, <1>c DEF Extract, disk, process, history
<1>4. CASE StopBackend
  BY <1>4, <1>c DEF StopBackend, Terminate, disk, history
<1>4a. CASE PortClosed
  BY <1>4a, <1>c DEF PortClosed, disk, process, history
<1>4b. CASE PortStaysOpen
  BY <1>4b, <1>c DEF PortStaysOpen, disk, process, history
<1>5. CASE MoveAside
  BY <1>5, <1>c DEF MoveAside, Advance, process, history
<1>6. CASE MoveAsideFails
  BY <1>6, <1>c DEF MoveAsideFails, RollBackFrom, disk, process, history
<1>7. CASE Land
  BY <1>7, <1>c DEF Land, Advance, process, history
<1>8. CASE LandFails
  BY <1>8, <1>c DEF LandFails, process, history
<1>9. CASE CopyVersion
  BY <1>9, <1>c DEF CopyVersion, process, history
<1>10. CASE Migrate
  BY <1>10, <1>c DEF Migrate, process, history
<1>11. CASE MigrateFails
  BY <1>11, <1>c DEF MigrateFails, process, history
<1>12. CASE StartBackend
  BY <1>12, <1>c DEF StartBackend, StartAgain, disk, history
<1>13. CASE Healthy
  BY <1>13, <1>c DEF Healthy, disk, process, history
<1>14. CASE HealthTimeout
  BY <1>14, <1>c DEF HealthTimeout, RollBackFrom, disk, process, history
<1>15. CASE Cleanup
  BY <1>15, <1>c DEF Cleanup, Advance, process, history
<1>16. CASE Finish
  <2>1. app[s] = Fresh(target)
    BY <1>16, <1>c DEF Finish, history, SwapPhaseOf, Arrived
  <2>. QED  BY <1>16, <2>1, <1>t DEF Finish, history
<1>17. CASE RbStop
  BY <1>17, <1>c DEF RbStop, Terminate, disk, history
<1>18. CASE RbTree
  BY <1>18, <1>c DEF RbTree, Advance, process, history
<1>19. CASE RbTreeFails
  BY <1>19 DEF RbTreeFails, RollbackWorks
<1>20. CASE RbVersion
  BY <1>20, <1>c DEF RbVersion, process, history
<1>21. CASE RbDb
  BY <1>21, <1>c DEF RbDb, history
<1>22. CASE RbWal
  BY <1>22, <1>c DEF RbWal, disk, process, history
<1>23. CASE RbUp
  BY <1>23, <1>c DEF RbUp, StartAgain, disk, history
<1>24. CASE RbMark
  <2>1. app[s] = snapApp[s]
    BY <1>24, <1>c DEF RbMark, history, SwapPhaseOf, Kept
  <2>. QED  BY <1>24, <2>1, <1>c DEF RbMark, history
<1>25. CASE BackendStart
  BY <1>25, <1>c DEF BackendStart, script, history
<1>26. CASE BackendExit
  BY <1>26, <1>c DEF BackendExit, script, history
<1>26a. CASE ShutDown
  BY <1>26a, <1>c DEF ShutDown, disk, script, process, history
<1>27. CASE UserWrite
  BY <1>27, <1>c DEF UserWrite, script, process, history
<1>28. CASE LockExpires
  BY <1>28, <1>c DEF LockExpires, script, process, history
<1>29. CASE Crash
  BY <1>29, <1>t DEF Crash
<1>30. CASE Restart
  BY <1>30, <1>c DEF Restart, disk, process, history
<1>31. CASE Heal
  BY <1>31, <1>e DEF Heal, process, history
<1>32. CASE NodeBootstrapOk
  BY <1>32, <1>c DEF NodeBootstrapOk, script, history
<1>33. CASE NodeBootstrapFails
  BY <1>33, <1>c DEF NodeBootstrapFails, script, history
<1>34. ASSUME NEW v \in Images, Recreate(v) PROVE CompleteCopyOf(s)'
  BY <1>34, <1>e DEF Recreate, history
<1>. QED
  BY <1>0, <1>d, <1>4a, <1>4b, <1>26a, <1>1, <1>2, <1>3, <1>4, <1>5, <1>6, <1>7, <1>8, <1>9, <1>10, <1>11,
     <1>12, <1>13, <1>14, <1>15, <1>16, <1>17, <1>18, <1>19, <1>20, <1>21, <1>22,
     <1>23, <1>24, <1>25, <1>26, <1>27, <1>28, <1>29, <1>30, <1>31, <1>32, <1>33,
     <1>34
  DEF Next, Forward, Rollback, Boot

LEMMA NextUnhurt == IInv /\ Unhurt /\ [Next]_vars => Unhurt'
<1>. SUFFICES ASSUME IInv, Unhurt, [Next]_vars PROVE Unhurt'
  OBVIOUS
<1>. USE DEF Unhurt
<1>0. CASE UNCHANGED vars
  BY <1>0 DEF vars, disk, script, process, history
<1>d. ASSUME NEW v \in Version, Dispatch(v) PROVE Unhurt'
  BY <1>d DEF Dispatch, process
<1>1. CASE Bail
  BY <1>1 DEF Bail, process, history
<1>2. CASE Snapshot
  BY <1>2 DEF Snapshot, process, history
<1>3. CASE Extract
  BY <1>3 DEF Extract, disk, process, history
<1>4. CASE StopBackend
  BY <1>4 DEF StopBackend, Terminate, disk, history
<1>4a. CASE PortClosed
  BY <1>4a DEF PortClosed, disk, process, history
<1>4b. CASE PortStaysOpen
  BY <1>4b DEF PortStaysOpen, disk, process, history
<1>5. CASE MoveAside
  BY <1>5 DEF MoveAside, Advance, process, history
<1>6. CASE MoveAsideFails
  BY <1>6 DEF MoveAsideFails, RollBackFrom, disk, process, history
<1>7. CASE Land
  BY <1>7 DEF Land, Advance, process, history
<1>8. CASE LandFails
  BY <1>8 DEF LandFails, process, history
<1>9. CASE CopyVersion
  BY <1>9 DEF CopyVersion, process, history
<1>10. CASE Migrate
  BY <1>10 DEF Migrate, process, history
<1>11. CASE MigrateFails
  BY <1>11 DEF MigrateFails, process, history
<1>12. CASE StartBackend
  BY <1>12 DEF StartBackend, StartAgain, disk, history
<1>13. CASE Healthy
  BY <1>13 DEF Healthy, disk, process, history
<1>14. CASE HealthTimeout
  BY <1>14 DEF HealthTimeout, RollBackFrom, disk, process, history
<1>15. CASE Cleanup
  BY <1>15 DEF Cleanup, Advance, process, history
<1>16. CASE Finish
  BY <1>16 DEF Finish, process, history
<1>17. CASE RbStop
  BY <1>17 DEF RbStop, Terminate, disk, history
<1>18. CASE RbTree
  BY <1>18 DEF RbTree, Advance, process, history
<1>19. CASE RbTreeFails
  BY <1>19 DEF RbTreeFails, Advance, process, history
<1>20. CASE RbVersion
  BY <1>20 DEF RbVersion, process, history
<1>21. CASE RbDb
  BY <1>21 DEF RbDb, history
<1>22. CASE RbWal
  BY <1>22 DEF RbWal, disk, process, history
<1>23. CASE RbUp
  BY <1>23 DEF RbUp, StartAgain, disk, history
<1>24. CASE RbMark
  BY <1>24 DEF RbMark, process, history
<1>25. CASE BackendStart
  BY <1>25 DEF BackendStart, script, history
<1>26. CASE BackendExit
  BY <1>26 DEF BackendExit, script, history
<1>26a. CASE ShutDown
  BY <1>26a DEF ShutDown, disk, script, process, history
<1>27. CASE UserWrite
  BY <1>27 DEF UserWrite, script, process, history
<1>28. CASE LockExpires
  BY <1>28 DEF LockExpires, script, process, history
<1>29. CASE Crash
  <2>1. crashes' # 0
    BY <1>29 DEF Crash, IInv, TypeOK
  <2>. QED  BY <2>1
<1>30. CASE Restart
  BY <1>30 DEF Restart, disk, process, history
<1>31. CASE Heal
  BY <1>31 DEF Heal, process, history
<1>32. CASE NodeBootstrapOk
  BY <1>32 DEF NodeBootstrapOk, script, history
<1>33. CASE NodeBootstrapFails
  BY <1>33 DEF NodeBootstrapFails, script, history
<1>34. ASSUME NEW v \in Images, Recreate(v) PROVE Unhurt'
  BY <1>34 DEF Recreate, process, history
<1>. QED
  BY <1>0, <1>d, <1>4a, <1>4b, <1>26a, <1>1, <1>2, <1>3, <1>4, <1>5, <1>6, <1>7, <1>8, <1>9, <1>10, <1>11,
     <1>12, <1>13, <1>14, <1>15, <1>16, <1>17, <1>18, <1>19, <1>20, <1>21, <1>22,
     <1>23, <1>24, <1>25, <1>26, <1>27, <1>28, <1>29, <1>30, <1>31, <1>32, <1>33,
     <1>34
  DEF Next, Forward, Rollback, Boot

LEMMA NextHealing == RollbackWorks /\ Bundled = Sub /\ HInv /\ [Next]_vars => Healing'
<1>. SUFFICES ASSUME RollbackWorks, Bundled = Sub, HInv, [Next]_vars,
                      boot' # "done", Interrupted'
               PROVE  HealedSoFar'
  BY DEF Healing
<1>h. boot # "done" /\ Interrupted => HealedSoFar
  BY DEF HInv, Healing
<1>b. boot # "done" => backend = "down" /\ pc = "idle"
  BY DEF HInv, JInv, IInv, BootsAlone
<1>. USE DEF HInv, JInv, HealedSoFar
<1>0. CASE UNCHANGED vars
  BY <1>0, <1>h DEF Interrupted, Healable, FromImage, vars, disk, script, process, history
<1>d. ASSUME NEW v \in Version, Dispatch(v) PROVE HealedSoFar'
  BY <1>d DEF Dispatch
<1>1. CASE Bail
  BY <1>1, <1>b DEF Bail
<1>2. CASE Snapshot
  BY <1>2, <1>b DEF Snapshot
<1>3. CASE Extract
  BY <1>3, <1>b DEF Extract
<1>4. CASE StopBackend
  BY <1>4, <1>b DEF StopBackend
<1>4a. CASE PortClosed
  BY <1>4a, <1>b DEF PortClosed
<1>4b. CASE PortStaysOpen
  BY <1>4b, <1>b DEF PortStaysOpen
<1>5. CASE MoveAside
  BY <1>5, <1>b DEF MoveAside
<1>6. CASE MoveAsideFails
  BY <1>6, <1>b DEF MoveAsideFails, RollBackFrom
<1>7. CASE Land
  BY <1>7, <1>b DEF Land
<1>8. CASE LandFails
  BY <1>8, <1>b DEF LandFails
<1>9. CASE CopyVersion
  BY <1>9, <1>b DEF CopyVersion
<1>10. CASE Migrate
  BY <1>10, <1>b DEF Migrate
<1>11. CASE MigrateFails
  BY <1>11, <1>b DEF MigrateFails
<1>12. CASE StartBackend
  BY <1>12, <1>b DEF StartBackend, StartAgain
<1>13. CASE Healthy
  BY <1>13, <1>b DEF Healthy
<1>14. CASE HealthTimeout
  BY <1>14, <1>b DEF HealthTimeout, RollBackFrom
<1>15. CASE Cleanup
  BY <1>15, <1>b DEF Cleanup
<1>16. CASE Finish
  BY <1>16, <1>b DEF Finish
<1>17. CASE RbStop
  BY <1>17, <1>b DEF RbStop
<1>18. CASE RbTree
  BY <1>18, <1>b DEF RbTree
<1>19. CASE RbTreeFails
  BY <1>19, <1>b DEF RbTreeFails
<1>20. CASE RbVersion
  BY <1>20, <1>b DEF RbVersion
<1>21. CASE RbDb
  BY <1>21, <1>b DEF RbDb
<1>22. CASE RbWal
  BY <1>22, <1>b DEF RbWal
<1>23. CASE RbUp
  BY <1>23, <1>b DEF RbUp, StartAgain
<1>24. CASE RbMark
  BY <1>24, <1>b DEF RbMark
<1>25. CASE BackendStart
  BY <1>25 DEF BackendStart
<1>26. CASE BackendExit
  BY <1>26, <1>b DEF BackendExit
<1>26a. CASE ShutDown
  BY <1>26a, <1>b DEF ShutDown
<1>27. CASE UserWrite
  BY <1>27, <1>b DEF UserWrite
<1>28. CASE LockExpires
  BY <1>28, <1>h DEF LockExpires, script, process, history, Healable, FromImage, Interrupted
<1>29. CASE Crash
  <2>1. crashes = 0
    BY <1>29 DEF Crash, Interrupted, IInv, TypeOK
  <2>2. pc \in (ForwardSteps \cup SuccessSteps) \ {"snapshot"}
    BY <1>29, <2>1 DEF Crash, Unhurt, Interrupted, ForwardSteps, SuccessSteps
  <2>3. /\ boot' = "off" /\ app' = app /\ snapApp' = snapApp /\ target' = target
        /\ pc # "cleanup" => old' = old
    BY <1>29, <2>2 DEF Crash, CrashApp, CrashOld, ForwardSteps, SuccessSteps
  <2>4. ASSUME NEW s \in Sub PROVE Healable(s)'
    <3>1. SwapPhaseOf(s) /\ Whole(snapApp[s]) /\ i \in Sub
      BY <2>1, <2>2, <2>4 DEF SwapPhase, CompleteCopies, CompleteCopyOf, IInv, TypeOK,
         ForwardSteps, SuccessSteps
    <3>2. pc \in {"cleanup", "finish"} => app[s] = Fresh(target)
      BY <2>4, <3>1 DEF SwapPhaseOf, Arrived
    <3>3. pc \notin {"cleanup", "finish"} => Kept(s) \/ Aside(s) \/ Replaced(s)
      BY <2>2, <2>4, <3>1 DEF SwapPhaseOf, ForwardSteps, SuccessSteps, Sub
    <3>4. pc \notin {"cleanup", "finish"} /\ ~Kept(s) => old[s] = snapApp[s] /\ Exists(old[s])
      BY <3>1, <3>3 DEF Aside, Replaced, MovedAside, Whole
    <3>5. Exists(Fresh(target)) /\ Exists(snapApp[s])
      BY <3>1, ConstantsAssumption DEF IInv, TypeOK, ConstantsAssumption, Version, Whole, Exists, Fresh
    <3>6. app[s] \in {snapApp[s], Fresh(target)} \/ ~Exists(app[s])
      BY <2>4, <3>2, <3>3 DEF Kept, Aside, Replaced, Arrived
    <3>7. ~Exists(app[s]) => old[s] = snapApp[s] /\ Exists(old[s]) /\ old' = old
      BY <2>3, <3>2, <3>4, <3>5 DEF Kept
    <3>. QED  BY <2>3, <3>5, <3>6, <3>7 DEF Healable
  <2>5. db.writes >= snapDb.writes /\ db.writes \in Nat /\ snapDb.writes \in Nat
    BY <2>2, DatabaseFields DEF IInv, TypeOK, WritesSurvive, ForwardSteps, SuccessSteps
  <2>6. db'.writes >= db.writes /\ snapDb' = snapDb /\ db'.writes \in Nat
    BY <1>29, <2>2, NextKeepsWrites, NextTypeOK, DatabaseFields
    DEF Crash, IInv, TypeOK, ForwardSteps, SuccessSteps
  <2>. QED  BY <2>3, <2>4, <2>5, <2>6
<1>30. CASE Restart
  <2>1. boot = "off" /\ boot' = "heal" /\ i' = 1 /\ Interrupted
    BY <1>30 DEF Restart, Interrupted, disk, history
  <2>2. ASSUME NEW s \in Sub PROVE Healable(s)'
    BY <1>30, <2>1, <2>2, <1>h DEF Restart, disk, Healable, Sub
  <2>3. \A s \in Sub : ~(s < i')
    BY <2>1 DEF Sub
  <2>4. db' = db /\ snapDb' = snapDb
    BY <1>30 DEF Restart, disk
  <2>. QED  BY <1>h, <2>1, <2>2, <2>3, <2>4
<1>31. CASE Heal
  <2>1. boot = "heal" /\ Interrupted /\ i \in 1..3 /\ incoming \subseteq Sub
    BY <1>31 DEF Heal, Interrupted, history, IInv, TypeOK, Sub
  <2>2. /\ app \in [Sub -> Tree] /\ old \in [Sub -> Tree] /\ incoming' = incoming \ {i}
        /\ snapApp' = snapApp /\ target' = target /\ db' = db /\ snapDb' = snapDb
    BY <1>31 DEF Heal, IInv, TypeOK
  <2>3. \/ i < 3 /\ i' = i + 1 /\ boot' = "heal"
        \/ i = 3 /\ boot' = "node"
    BY <1>31, <2>1 DEF Heal
  <2>4. ASSUME ~FromImage, NEW s \in Sub PROVE Healable(s)'
    <3>1. CASE s = i
      BY <1>31, <1>h, <2>1, <2>2, <2>4, <3>1 DEF Heal, Healable, Sub
    <3>2. CASE s # i
      <4>1. app'[s] = app[s] /\ old'[s] = old[s]
        BY <1>31, <2>2, <2>4, <3>2 DEF Heal
      <4>2. i <= s => boot' = "heal" /\ i' <= s
        BY <2>1, <2>3, <2>4, <3>2 DEF Sub
      <4>. QED  BY <1>h, <2>1, <2>2, <2>4, <4>1, <4>2 DEF Healable
    <3>. QED  BY <3>1, <3>2
  <2>i. FromImage => FromImage'
    <3>. SUFFICES ASSUME FromImage PROVE FromImage'
      OBVIOUS
    <3>1. PICK v \in Images : app = [s \in Sub |-> Fresh(v)]
      BY DEF FromImage
    <3>2. Exists(app[i])
      BY <3>1, <2>1, ConstantsAssumption DEF ConstantsAssumption, Version, Fresh, Exists, Sub
    <3>3. app' = app
      BY <1>31, <3>2 DEF Heal
    <3>. QED  BY <3>1, <3>3 DEF FromImage
  <2>5. boot' = "heal" => \A s \in Sub : s < i' => s \notin incoming'
    BY <1>h, <2>1, <2>2, <2>3 DEF Sub
  <2>6. boot' = "node" => incoming' = {}
    BY <1>h, <2>1, <2>2, <2>3 DEF Sub
  <2>. QED  BY <1>h, <2>1, <2>2, <2>3, <2>4, <2>i, <2>5, <2>6
<1>32. CASE NodeBootstrapOk
  BY <1>32 DEF NodeBootstrapOk
<1>33. CASE NodeBootstrapFails
  BY <1>33 DEF NodeBootstrapFails
<1>34. ASSUME NEW v \in Images, Recreate(v) PROVE HealedSoFar'
  <2>1. boot = "off" /\ Interrupted
    BY <1>34 DEF Recreate, Interrupted, history
  <2>2. db.writes >= snapDb.writes
    BY <2>1, <1>h
  <2>3. FromImage' /\ boot' = "heal" /\ incoming' = {} /\ db' = db /\ snapDb' = snapDb
    BY <1>34 DEF Recreate, FromImage
  <2>. QED  BY <2>2, <2>3
<1>. QED
  BY <1>0, <1>d, <1>4a, <1>4b, <1>26a, <1>1, <1>2, <1>3, <1>4, <1>5, <1>6, <1>7, <1>8, <1>9, <1>10, <1>11,
     <1>12, <1>13, <1>14, <1>15, <1>16, <1>17, <1>18, <1>19, <1>20, <1>21, <1>22,
     <1>23, <1>24, <1>25, <1>26, <1>27, <1>28, <1>29, <1>30, <1>31, <1>32, <1>33,
     <1>34
  DEF Next, Forward, Rollback, Boot

LEMMA OnlyRbMarkRollsBack ==
    [Next]_vars /\ Completed("rolled_back") => RbMark
<1>. SUFFICES ASSUME [Next]_vars, Completed("rolled_back") PROVE RbMark
  OBVIOUS
<1>. USE DEF Completed
<1>0. CASE UNCHANGED vars
  BY <1>0 DEF vars, disk
<1>d. ASSUME NEW v \in Version, Dispatch(v) PROVE RbMark
  BY <1>d DEF Dispatch
<1>1. CASE Bail
  BY <1>1 DEF Bail
<1>2. CASE Snapshot
  BY <1>2 DEF Snapshot
<1>3. CASE Extract
  BY <1>3 DEF Extract, disk
<1>4. CASE StopBackend
  BY <1>4 DEF StopBackend, disk
<1>4a. CASE PortClosed
  BY <1>4a DEF PortClosed, disk
<1>4b. CASE PortStaysOpen
  BY <1>4b DEF PortStaysOpen, disk
<1>5. CASE MoveAside
  BY <1>5 DEF MoveAside
<1>6. CASE MoveAsideFails
  BY <1>6 DEF MoveAsideFails, disk, RollBackFrom
<1>7. CASE Land
  BY <1>7 DEF Land
<1>8. CASE LandFails
  BY <1>8 DEF LandFails
<1>9. CASE CopyVersion
  BY <1>9 DEF CopyVersion
<1>10. CASE Migrate
  BY <1>10 DEF Migrate
<1>11. CASE MigrateFails
  BY <1>11 DEF MigrateFails
<1>12. CASE StartBackend
  BY <1>12 DEF StartBackend, StartAgain, disk
<1>13. CASE Healthy
  BY <1>13 DEF Healthy, disk
<1>14. CASE HealthTimeout
  BY <1>14 DEF HealthTimeout, disk, RollBackFrom
<1>15. CASE Cleanup
  BY <1>15 DEF Cleanup
<1>16. CASE Finish
  BY <1>16 DEF Finish
<1>17. CASE RbStop
  BY <1>17 DEF RbStop, disk
<1>18. CASE RbTree
  BY <1>18 DEF RbTree
<1>19. CASE RbTreeFails
  BY <1>19 DEF RbTreeFails
<1>20. CASE RbVersion
  BY <1>20 DEF RbVersion
<1>21. CASE RbDb
  BY <1>21 DEF RbDb
<1>22. CASE RbWal
  BY <1>22 DEF RbWal, disk
<1>23. CASE RbUp
  BY <1>23 DEF RbUp, StartAgain, disk
<1>24. CASE RbMark
  BY <1>24 DEF RbMark
<1>25. CASE BackendStart
  BY <1>25 DEF BackendStart
<1>26. CASE BackendExit
  BY <1>26 DEF BackendExit
<1>26a. CASE ShutDown
  BY <1>26a DEF ShutDown, disk
<1>27. CASE UserWrite
  BY <1>27 DEF UserWrite
<1>28. CASE LockExpires
  BY <1>28 DEF LockExpires
<1>29. CASE Crash
  BY <1>29 DEF Crash
<1>30. CASE Restart
  BY <1>30 DEF Restart, disk
<1>31. CASE Heal
  BY <1>31 DEF Heal
<1>32. CASE NodeBootstrapOk
  BY <1>32 DEF NodeBootstrapOk
<1>33. CASE NodeBootstrapFails
  BY <1>33 DEF NodeBootstrapFails
<1>34. ASSUME NEW v \in Images, Recreate(v) PROVE RbMark
  BY <1>34 DEF Recreate
<1>. QED
  BY <1>0, <1>d, <1>4a, <1>4b, <1>26a, <1>1, <1>2, <1>3, <1>4, <1>5, <1>6, <1>7, <1>8, <1>9, <1>10, <1>11,
     <1>12, <1>13, <1>14, <1>15, <1>16, <1>17, <1>18, <1>19, <1>20, <1>21, <1>22,
     <1>23, <1>24, <1>25, <1>26, <1>27, <1>28, <1>29, <1>30, <1>31, <1>32, <1>33,
     <1>34
  DEF Next, Forward, Rollback, Boot

LEMMA InitJInv == Init => JInv
<1>. SUFFICES ASSUME Init PROVE JInv
  OBVIOUS
<1>1. OneLife /\ SwapPhase /\ SnapshotsAgree
  BY DEF Init, OneLife, SwapPhase, SwapPhaseOf, SnapshotsAgree, Fresh, Backend, Sub
<1>. QED  BY <1>1, InitIInv DEF JInv

LEMMA NextJInv == RollbackWorks /\ JInv /\ [Next]_vars => JInv'
<1>. QED
  BY NextIInv, NextOneLife, NextSwapPhase, NextSnapshotsAgree DEF JInv

(* As long as the container has not died, and if the commands of rollback()*)
(* and the copies of the snapshot do their work, every update that is      *)
(* rolled back, at whatever step it failed and whichever command failed,   *)
(* leaves exactly the directories, the version file and the schema that it *)
(* found.                                                                  *)
THEOREM RollbackIsExact ==
    ASSUME RollbackWorks PROVE Spec => RollbackExact
<1>1. ASSUME JInv, [Next]_vars, Completed("rolled_back"), crashes = 0
      PROVE  /\ app = snapApp /\ version = snapVersion
             /\ \A s \in Sub : ~Exists(old[s])
             /\ db.schema = snapDb.schema
  <2>1. pc = "rbMark"
    BY <1>1, OnlyRbMarkRollsBack DEF RbMark
  <2>2. \A s \in Sub : app[s] = snapApp[s] /\ old[s] = NoTree
    BY <1>1, <2>1 DEF JInv, SwapPhase, SwapPhaseOf, Kept
  <2>3. app = snapApp
    BY <1>1, <2>2 DEF JInv, IInv, TypeOK
  <2>4. version = snapVersion /\ db.schema = snapDb.schema
    BY <1>1, <2>1 DEF JInv, SnapshotsAgree
  <2>. QED  BY <2>2, <2>3, <2>4 DEF Exists, NoTree
<1>. QED  BY InitJInv, NextJInv, <1>1, PTL DEF Spec, RollbackExact

LEMMA InitHInv == Init => HInv
<1>. SUFFICES ASSUME Init PROVE HInv
  OBVIOUS
<1>1. CompleteCopies /\ Unhurt /\ Healing
  BY DEF Init, CompleteCopies, CompleteCopyOf, Whole, Exists, Fresh, Unhurt, Healing
<1>. QED  BY <1>1, InitJInv DEF HInv

LEMMA NextHInv ==
    RollbackWorks /\ Bundled = Sub /\ HInv /\ [Next]_vars => HInv'
<1>. SUFFICES ASSUME RollbackWorks, Bundled = Sub, HInv, [Next]_vars PROVE HInv'
  OBVIOUS
<1>1. JInv'
  BY NextJInv DEF HInv
<1>2. CompleteCopies' /\ Unhurt'
  BY NextCompleteCopies, NextUnhurt DEF HInv, JInv
<1>3. Healing'
  BY NextHealing
<1>. QED  BY <1>1, <1>2, <1>3 DEF HInv

LEMMA PhaseFindable == HInv /\ Bundled = Sub => AlwaysFindable
<1>. SUFFICES ASSUME HInv, Bundled = Sub, crashes = 0, pc \in ForwardSteps \cup SuccessSteps,
                     NEW s \in Sub
              PROVE  Findable(s)
  BY DEF AlwaysFindable
<1>1. SwapPhaseOf(s) /\ CompleteCopyOf(s)
  BY DEF HInv, JInv, SwapPhase, CompleteCopies
<1>2. CASE pc = "snapshot"
  BY <1>1, <1>2 DEF CompleteCopyOf, Whole, Findable
<1>3. CASE pc \in {"cleanup", "finish"}
  BY <1>1, <1>3 DEF SwapPhaseOf, Arrived, Findable, Fresh
<1>4. CASE pc \notin {"snapshot", "cleanup", "finish"}
  <2>1. Whole(snapApp[s])
    BY <1>1, <1>4 DEF CompleteCopyOf, ForwardSteps, SuccessSteps
  <2>2. Kept(s) \/ Aside(s) \/ Replaced(s)
    BY <1>1, <1>4 DEF SwapPhaseOf, ForwardSteps, SuccessSteps
  <2>. QED  BY <2>1, <2>2 DEF Whole, Kept, Aside, Replaced, Arrived, MovedAside, Findable, Fresh
<1>. QED  BY <1>2, <1>3, <1>4

(* What an update finds, it keeps: until the first container death every   *)
(* directory has a complete copy where the next start looks for it, and    *)
(* whatever step of the forward path the first death interrupts,           *)
(* heal_interrupted_update leaves a complete copy of the previous or the   *)
(* new release in every directory and no write lost. For every set of      *)
(* failing commands but those of rollback() and the snapshot, every set of *)
(* crash points and any number of deaths and writes, when the tarball      *)
(* carries the three directories; a container recreated from an image has  *)
(* that image's.                                                           *)
THEOREM TreeIsKept ==
    ASSUME RollbackWorks, Bundled = Sub
    PROVE  Spec => []TreeKept
<1>1. HInv /\ [Next]_vars => HInv'
  BY NextHInv
<1>2. HInv => TreeKept
  <2>. SUFFICES ASSUME HInv PROVE TreeKept
    OBVIOUS
  <2>1. TypeOK /\ AlwaysFindable
    BY PhaseFindable DEF HInv, JInv, IInv
  <2>2. HealedAfterDeath
    BY DEF HInv, Healing, Interrupted, HealedSoFar, Healable, FromImage, HealedAfterDeath
  <2>. QED  BY <2>1, <2>2 DEF TreeKept
<1>. QED  BY InitHInv, <1>1, <1>2, PTL DEF Spec
=============================================================================
