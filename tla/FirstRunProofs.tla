--------------------------- MODULE FirstRunProofs ---------------------------
(***************************************************************************)
(* Proofs about FirstRun, for any number of submitters and of deaths: one  *)
(* account at most, FirstRun implements OneOwner, and who is told that the *)
(* setup is done is told the truth.                                        *)
(***************************************************************************)
EXTENDS FirstRun, TLAPS

(* The transaction, not the mutex, is what the proof rests on: between the *)
(* count and the commit of one submission nobody else can insert a row.    *)
InTrx == {"begun", "counted", "inserted"}

TrxExclusive ==
    /\ \A r \in Submitter : pc[r] \in InTrx => trx = r
    /\ \A r \in Submitter : pc[r] \in {"counted", "inserted"} => users = {}

\* A bootstrapping or dead process serves nobody
BootsAlone ==
    /\ boot # "listening" => \A r \in Submitter : pc[r] = "idle"
    /\ boot = "insert" => users = {}

\* A session is issued to the submitter whose row has been committed
IssuedToOwner ==
    /\ \A r \in Submitter : pc[r] = "issuing" => r \in users
    /\ admitted \subseteq users

Shape ==
    /\ users \subseteq Submitter \cup {Seed}
    /\ DOMAIN pc = Submitter
    /\ pc = [r \in Submitter |-> pc[r]]

IInv == Shape /\ TrxExclusive /\ BootsAlone /\ IssuedToOwner /\ OneAccount

LEMMA InitIInv == Init => IInv
BY DEF Init, IInv, Shape, TrxExclusive, InTrx, BootsAlone, IssuedToOwner, OneAccount

LEMMA NextIInv == IInv /\ [Next]_vars => IInv'
<1>. SUFFICES ASSUME IInv, [Next]_vars PROVE IInv'
  OBVIOUS
<1>. USE DEF IInv, Shape, TrxExclusive, InTrx, BootsAlone, IssuedToOwner, OneAccount
<1>1. CASE UNCHANGED vars
  BY <1>1 DEF vars
<1>2. CASE EnsureSecrets
  BY <1>2 DEF EnsureSecrets
<1>3. CASE RunMigrations
  BY <1>3 DEF RunMigrations
<1>4. CASE SeedAdmin
  BY <1>4 DEF SeedAdmin
<1>5. CASE InsertSeed
  BY <1>5 DEF InsertSeed
<1>6. CASE SkipSeed
  BY <1>6 DEF SkipSeed
<1>7. CASE Restart
  BY <1>7 DEF Restart
<1>8. ASSUME NEW r \in Submitter, Submit(r) PROVE IInv'
  BY <1>8 DEF Submit, bootVars
<1>9. ASSUME NEW r \in Submitter, CheckNeeded(r) PROVE IInv'
  BY <1>9 DEF CheckNeeded, Answer, bootVars
<1>10. ASSUME NEW r \in Submitter, Begin(r) PROVE IInv'
  BY <1>10, ConstantsAssumption DEF ConstantsAssumption, Begin, bootVars
<1>11. ASSUME NEW r \in Submitter, Count(r) PROVE IInv'
  BY <1>11 DEF Count, Answer, Leave, bootVars
<1>12. ASSUME NEW r \in Submitter, Insert(r) PROVE IInv'
  BY <1>12 DEF Insert, bootVars
<1>13. ASSUME NEW r \in Submitter, Commit(r) PROVE IInv'
  BY <1>13 DEF Commit, Leave, bootVars
<1>14. ASSUME NEW r \in Submitter, TrxFails(r) PROVE IInv'
  BY <1>14 DEF TrxFails, Answer, Leave, bootVars
<1>15. ASSUME NEW r \in Submitter, Issue(r) PROVE IInv'
  BY <1>15 DEF Issue, Answer, bootVars
<1>16. CASE FirstRunRestore
  BY <1>16 DEF FirstRunRestore, bootVars
<1>17. CASE WindowCloses
  BY <1>17 DEF WindowCloses
<1>18. CASE Die
  BY <1>18 DEF Die
<1>. QED
  BY <1>1, <1>2, <1>3, <1>4, <1>5, <1>6, <1>7, <1>8, <1>9, <1>10, <1>11, <1>12, <1>13, <1>14,
     <1>15, <1>16, <1>17, <1>18
  DEF Next, BootStep, Handler

LEMMA Inductive == Spec => []IInv
<1>. QED  BY InitIInv, NextIInv, PTL DEF Spec

(* There is never a second account, however submissions, failing           *)
(* transactions, seeding and restarts interleave.                          *)
THEOREM AtMostOneAccount == Spec => []OneAccount
<1>1. IInv => OneAccount
  BY DEF IInv
<1>. QED  BY Inductive, <1>1, PTL

-----------------------------------------------------------------------------
(* Refinement *)

\* With at most one account, the CHOOSE of Owner is that account
LEMMA OwnerIs ==
    \A p \in Submitter \cup {Seed} : users = {p} => Owner = p
BY DEF Owner

LEMMA OwnerKept == UNCHANGED users => Owner' = Owner
BY DEF Owner

LEMMA StepRefines == IInv /\ [Next]_vars => [Promise!Next]_<<Owner, admitted>>
<1>. SUFFICES ASSUME IInv, [Next]_vars PROVE [Promise!Next]_<<Owner, admitted>>
  OBVIOUS
<1>1. CASE UNCHANGED <<users, admitted>>
  BY <1>1, OwnerKept
<1>2. ASSUME NEW p \in Submitter \cup {Seed}, users = {}, users' = {p}, UNCHANGED admitted
      PROVE  Promise!Claim(p)
  BY <1>2 DEF Owner, Promise!Claim
<1>3. CASE InsertSeed
  <2>1. users = {} /\ users' = {Seed} /\ UNCHANGED admitted
    BY <1>3 DEF InsertSeed, IInv, BootsAlone
  <2>. QED  BY <1>2, <2>1 DEF Promise!Next
<1>4. ASSUME NEW r \in Submitter, Commit(r) PROVE [Promise!Next]_<<Owner, admitted>>
  <2>1. users = {} /\ users' = {r} /\ UNCHANGED admitted
    BY <1>4 DEF Commit, IInv, TrxExclusive
  <2>. QED  BY <1>2, <2>1 DEF Promise!Next
<1>5. ASSUME NEW r \in Submitter, Issue(r) PROVE [Promise!Next]_<<Owner, admitted>>
  <2>1. r \in users /\ UNCHANGED users /\ admitted' = admitted \cup {r}
    BY <1>5 DEF Issue, IInv, IssuedToOwner
  <2>2. users = {r}
    BY <2>1 DEF IInv, OneAccount
  <2>3. Owner = r /\ Owner' = Owner
    BY <2>1, <2>2, OwnerIs, OwnerKept
  <2>4. Promise!Admit(r)
    BY <2>1, <2>3 DEF Promise!Admit
  <2>. QED  BY <2>4 DEF Promise!Next
<1>6. \/ UNCHANGED <<users, admitted>>
      \/ InsertSeed
      \/ \E r \in Submitter : Commit(r) \/ Issue(r)
  BY DEF Next, BootStep, Handler, vars, bootVars, EnsureSecrets, RunMigrations, SeedAdmin, SkipSeed, Restart,
         Submit, CheckNeeded, Begin, Count, Insert, TrxFails, FirstRunRestore, WindowCloses, Die
<1>. QED  BY <1>1, <1>3, <1>4, <1>5, <1>6

(* FirstRun implements OneOwner: one party owns the install for good, and  *)
(* only it is handed a session.                                            *)
THEOREM ImplementsOneOwner == Spec => OneOwnerSpec
<1>1. Init => Promise!Init
  BY DEF Init, Promise!Init, Owner
<1>. QED  BY Inductive, StepRefines, <1>1, PTL DEF Spec, OneOwnerSpec, Promise!Spec

-----------------------------------------------------------------------------
(* What is answered *)

\* Whoever waits stands in the queue, and whoever holds the connection is its
\* head: the mutex is released by the submission whose turn it is
Waiting ==
    /\ \A r \in Submitter : pc[r] = "queued" => \E k \in 1..Len(queue) : queue[k] = r
    /\ \A r \in Submitter : pc[r] \in InTrx => queue # <<>> /\ Head(queue) = r

\* The mutex moves one submission from the head, or appends one
LEMMA TailOf ==
    ASSUME NEW s \in Seq(Submitter), s # <<>>
    PROVE  /\ Tail(s) \in Seq(Submitter)
           /\ \A r \in Submitter :
                 (\E k \in 1..Len(s) : s[k] = r) /\ Head(s) # r
                 => \E k \in 1..Len(Tail(s)) : Tail(s)[k] = r
<1>1. Tail(s) \in Seq(Submitter) /\ Len(Tail(s)) = Len(s) - 1 /\ Len(s) \in Nat /\ Len(s) > 0
  OBVIOUS
<1>2. ASSUME NEW r \in Submitter, NEW k \in 1..Len(s), s[k] = r, Head(s) # r
      PROVE  \E j \in 1..Len(Tail(s)) : Tail(s)[j] = r
  <2>1. k # 1
    BY <1>2
  <2>2. k - 1 \in 1..Len(Tail(s)) /\ Tail(s)[k - 1] = s[k]
    BY <1>1, <1>2, <2>1
  <2>. QED  BY <1>2, <2>2
<1>. QED  BY <1>1, <1>2

LEMMA AppendOf ==
    ASSUME NEW s \in Seq(Submitter), NEW p \in Submitter
    PROVE  /\ Append(s, p) \in Seq(Submitter) /\ Append(s, p) # <<>>
           /\ s # <<>> => Head(Append(s, p)) = Head(s)
           /\ \A r \in Submitter :
                 (\E k \in 1..Len(s) : s[k] = r) \/ r = p
                 => \E k \in 1..Len(Append(s, p)) : Append(s, p)[k] = r
<1>1. /\ Append(s, p) \in Seq(Submitter) /\ Append(s, p) # <<>>
      /\ s # <<>> => Head(Append(s, p)) = Head(s)
      /\ Len(Append(s, p)) = Len(s) + 1 /\ Append(s, p)[Len(s) + 1] = p /\ Len(s) \in Nat
  OBVIOUS
<1>2. \A k \in 1..Len(s) : k \in 1..(Len(s) + 1) /\ Append(s, p)[k] = s[k]
  OBVIOUS
<1>3. Len(s) + 1 \in 1..(Len(s) + 1)
  BY <1>1
<1>. QED  BY <1>1, <1>2, <1>3

QInv == TypeOK /\ TrxExclusive /\ Waiting

Pcs == {"idle", "asked", "queued", "begun", "counted", "inserted", "issuing"}

LEMMA NextQueue ==
    QInv /\ [Next]_vars => queue' \in Seq(Submitter) /\ Waiting'
<1>. SUFFICES ASSUME QInv, [Next]_vars PROVE queue' \in Seq(Submitter) /\ Waiting'
  OBVIOUS
<1>. DEFINE Goal == queue' \in Seq(Submitter) /\ Waiting'
<1>t. queue \in Seq(Submitter) /\ pc \in [Submitter -> Pcs] /\ Waiting /\ TrxExclusive
  BY DEF QInv, TypeOK, Pcs
<1>e. <<>> \in Seq(Submitter)
  OBVIOUS
<1>1. CASE UNCHANGED <<pc, queue>>
  BY <1>1, <1>t DEF Waiting
<1>2. ASSUME NEW r \in Submitter, Submit(r) PROVE Goal
  BY <1>2, <1>t DEF Submit, Waiting, InTrx
<1>3. ASSUME NEW r \in Submitter, CheckNeeded(r) PROVE Goal
  <2>1. CASE pc' = [pc EXCEPT ![r] = "idle"] /\ queue' = queue
    BY <2>1, <1>t DEF Waiting, InTrx
  <2>2. CASE pc' = [pc EXCEPT ![r] = "queued"] /\ queue' = Append(queue, r)
    <3>1. queue' \in Seq(Submitter) /\ queue' # <<>> /\ (queue # <<>> => Head(queue') = Head(queue))
      BY <1>t, <2>2, AppendOf
    <3>2. \A q \in Submitter : pc'[q] = "queued" => \E k \in 1..Len(queue') : queue'[k] = q
      BY <1>t, <2>2, AppendOf DEF Waiting
    <3>. QED  BY <1>t, <2>2, <3>1, <3>2 DEF Waiting, InTrx
  <2>. QED  BY <1>3, <2>1, <2>2 DEF CheckNeeded, Answer
<1>4. ASSUME NEW r \in Submitter, Begin(r) PROVE Goal
  <2>1. pc[r] = "queued" /\ Head(queue) = r /\ trx = Nobody /\ queue' = queue
        /\ pc' = [pc EXCEPT ![r] = "begun"]
    BY <1>4 DEF Begin
  <2>2. queue # <<>>
    <3>1. PICK k \in 1..Len(queue) : queue[k] = r
      BY <1>t, <2>1 DEF Waiting
    <3>. QED  BY <1>t, <3>1
  <2>. QED  BY <1>t, <2>1, <2>2 DEF Waiting, InTrx
<1>5. ASSUME NEW r \in Submitter, pc[r] \in InTrx, queue' = Tail(queue), NEW x \in {"idle", "issuing"},
             pc' = [pc EXCEPT ![r] = x]
      PROVE  Goal
  <2>1. queue # <<>> /\ Head(queue) = r
    BY <1>5, <1>t DEF Waiting
  <2>2. \A q \in Submitter : pc'[q] \notin InTrx
    BY <1>5, <1>t, ConstantsAssumption DEF ConstantsAssumption, TrxExclusive, InTrx
  <2>3. \A q \in Submitter : pc'[q] = "queued" => q # r /\ pc[q] = "queued"
    BY <1>5, <1>t
  <2>4. \A q \in Submitter : pc'[q] = "queued" => \E k \in 1..Len(queue') : queue'[k] = q
    BY <1>5, <1>t, <2>1, <2>3, TailOf DEF Waiting
  <2>5. queue' \in Seq(Submitter)
    BY <1>5, <1>t, <2>1, TailOf
  <2>. QED  BY <2>2, <2>4, <2>5 DEF Waiting
<1>6. ASSUME NEW r \in Submitter, Count(r) \/ Insert(r) \/ Commit(r) \/ TrxFails(r) PROVE Goal
  <2>1. CASE queue' = queue /\ pc[r] \in InTrx /\ \E x \in InTrx : pc' = [pc EXCEPT ![r] = x]
    BY <2>1, <1>t DEF Waiting, InTrx
  <2>2. pc[r] \in InTrx
    BY <1>6 DEF Count, Insert, Commit, TrxFails, InTrx
  <2>3. CASE queue' = Tail(queue) /\ \E x \in {"idle", "issuing"} : pc' = [pc EXCEPT ![r] = x]
    BY <1>5, <2>2, <2>3
  <2>. QED  BY <1>6, <2>1, <2>2, <2>3 DEF Count, Insert, Commit, TrxFails, Answer, Leave, InTrx
<1>7. ASSUME NEW r \in Submitter, Issue(r) PROVE Goal
  BY <1>7, <1>t DEF Issue, Answer, Waiting, InTrx
<1>8. CASE Die
  BY <1>8, <1>e DEF Die, Waiting, InTrx
<1>9. CASE BootStep \/ FirstRunRestore \/ WindowCloses \/ UNCHANGED vars
  <2>1. UNCHANGED <<pc, queue>>
    BY <1>9 DEF BootStep, EnsureSecrets, RunMigrations, SeedAdmin, InsertSeed, SkipSeed, Restart,
       FirstRunRestore, WindowCloses, vars
  <2>. QED  BY <1>1, <2>1
<1>. QED
  BY <1>2, <1>3, <1>4, <1>6, <1>7, <1>8, <1>9 DEF Next, Handler

LEMMA NextTypeOK == QInv /\ [Next]_vars => TypeOK'
<1>. SUFFICES ASSUME QInv, [Next]_vars PROVE TypeOK'
  OBVIOUS
<1>q. queue' \in Seq(Submitter)
  BY NextQueue
<1>. USE DEF QInv, TypeOK
<1>1. CASE BootStep
  BY <1>1 DEF BootStep, EnsureSecrets, RunMigrations, SeedAdmin, InsertSeed, SkipSeed, Restart
<1>2. CASE FirstRunRestore \/ WindowCloses
  BY <1>2 DEF FirstRunRestore, WindowCloses, bootVars
<1>3. CASE Die
  <2>1. pc' \in [Submitter -> Pcs] /\ deaths' \in Nat /\ trx' = Nobody /\ boot' = "off" /\ open' = FALSE
    BY <1>3 DEF Die, Pcs
  <2>2. UNCHANGED <<keyFile, dbFile, users, reply, admitted, restore>>
    BY <1>3 DEF Die
  <2>. QED  BY <1>q, <2>1, <2>2 DEF Pcs
<1>4. ASSUME NEW r \in Submitter, Submit(r) \/ CheckNeeded(r) PROVE TypeOK'
  BY <1>4, <1>q DEF Submit, CheckNeeded, Answer, bootVars
<1>5. ASSUME NEW r \in Submitter, Begin(r) \/ Insert(r) \/ Issue(r) PROVE TypeOK'
  BY <1>5, <1>q DEF Begin, Insert, Issue, Answer, bootVars
<1>6. ASSUME NEW r \in Submitter, Count(r) \/ TrxFails(r) PROVE TypeOK'
  BY <1>6, <1>q DEF Count, TrxFails, Answer, Leave, bootVars
<1>7. ASSUME NEW r \in Submitter, Commit(r) PROVE TypeOK'
  BY <1>7, <1>q DEF Commit, Leave, bootVars
<1>8. CASE UNCHANGED vars
  BY <1>8 DEF vars
<1>. QED
  BY <1>1, <1>2, <1>3, <1>4, <1>5, <1>6, <1>7, <1>8 DEF Next, Handler

LEMMA NextDone ==
    DoneIsDone /\ [Next]_vars
    => \A r \in Submitter : reply'[r] = "SETUP_DONE" => users' # {}
<1>. SUFFICES ASSUME DoneIsDone, [Next]_vars, NEW q \in Submitter, reply'[q] = "SETUP_DONE"
              PROVE  users' # {}
  OBVIOUS
<1>1. users \subseteq users'
  BY DEF Next, BootStep, Handler, vars, bootVars, EnsureSecrets, RunMigrations, SeedAdmin, InsertSeed,
     SkipSeed, Restart, Submit, CheckNeeded, Begin, Count, Insert, Commit, TrxFails, Issue,
     FirstRunRestore, WindowCloses, Die
<1>2. CASE reply[q] = "SETUP_DONE"
  BY <1>1, <1>2 DEF DoneIsDone
<1>3. CASE reply[q] # "SETUP_DONE"
  <2>1. reply \in [Submitter -> {"none", "OK", "SETUP_DONE", "SETUP_WINDOW_CLOSED", "INTERNAL"}]
    BY DEF DoneIsDone, TypeOK
  <2>2. PICK r \in Submitter : CheckNeeded(r) \/ Count(r)
    BY <1>3, <2>1
    DEF Next, BootStep, Handler, vars, bootVars, EnsureSecrets, RunMigrations, SeedAdmin, InsertSeed,
        SkipSeed, Restart, Submit, Begin, Insert, Commit, TrxFails, Issue, Answer,
        FirstRunRestore, WindowCloses, Die
  <2>. QED  BY <1>1, <1>3, <2>1, <2>2 DEF CheckNeeded, Count, Answer
<1>. QED  BY <1>2, <1>3

(* Whoever is told that the setup is done is told the truth, however the   *)
(* submissions before it fail and whatever dies: nobody is told so because *)
(* of a submission that was only ahead of it in the queue.                 *)
THEOREM DoneIsTrue == Spec => []DoneIsDone
<1>1. Init => QInv /\ DoneIsDone
  <2>. SUFFICES ASSUME Init PROVE QInv /\ DoneIsDone
    OBVIOUS
  <2>0. <<>> \in Seq(Submitter)
    OBVIOUS
  <2>1. TypeOK
    BY <2>0 DEF Init, TypeOK
  <2>2. TrxExclusive /\ Waiting
    BY DEF Init, TrxExclusive, Waiting, InTrx
  <2>3. \A r \in Submitter : reply[r] # "SETUP_DONE"
    BY DEF Init
  <2>. QED  BY <2>1, <2>2, <2>3 DEF QInv, DoneIsDone
<1>2. QInv /\ DoneIsDone /\ IInv /\ [Next]_vars /\ IInv' => QInv' /\ DoneIsDone'
  BY NextTypeOK, NextQueue, NextDone DEF QInv, IInv, DoneIsDone
<1>. QED  BY Inductive, <1>1, <1>2, PTL DEF Spec
=============================================================================
