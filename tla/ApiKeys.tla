------------------------------ MODULE ApiKeys ------------------------------
(***************************************************************************)
(* The API keys of one user: services/api-keys.ts, routes/api-keys.ts and  *)
(* middleware/api-key.ts.  Browser sessions create, rotate and revoke      *)
(* keys; programs authenticate with them.  Every handler awaits between    *)
(* what it reads and what it writes.                                       *)
(***************************************************************************)
EXTENDS Integers, FiniteSets

CONSTANTS MaxKeys,     \* MAX_KEYS_PER_USER
          Managers,    \* requests to routes/api-keys.ts that may be under way at once
          MaxSecrets   \* bound on the secrets generated

\* An installation's limit is positive, and finitely many requests are under way.  MCStores,
\* which instantiates this module, assumes it of its constants.
KeysAssumption == MaxKeys \in Nat \ {0} /\ MaxSecrets \in Nat /\ IsFiniteSet(Managers)

VARIABLES secret,   \* the key_hash column of each row, 0 where there is no row
          used,     \* the column last_used_at is not NULL
          made,     \* the secrets generated so far
          manage,   \* the requests of the managers
          notes,    \* updates of last_used_at that nobody awaits: the row, the secret used
          missed,   \* history: those of them that have failed
          opened    \* history: the last secret each row has let in

vars == <<secret, used, made, manage, notes, missed, opened>>

\* A row's id is never used again; here it is the number of the first secret of the row.
Keys == 1 .. MaxSecrets

LiveKeys == {k \in Keys : secret[k] # 0}
Idle == [at |-> "idle", key |-> 0, new |-> 0]

TypeOK ==
  /\ secret \in [Keys -> 0 .. MaxSecrets] /\ made \in 0 .. MaxSecrets
  /\ manage \in [Managers -> [at : {"idle", "insert", "update", "answer"},
                              key : Keys \cup {0}, new : 0 .. MaxSecrets]]
  /\ used \in [Keys -> BOOLEAN] /\ notes \cup missed \subseteq Keys \X (1 .. MaxSecrets)
  /\ opened \in [Keys -> 0 .. MaxSecrets]

Init ==
  /\ secret = [k \in Keys |-> 0] /\ used = [k \in Keys |-> FALSE] /\ made = 0
  /\ manage = [m \in Managers |-> Idle]
  /\ notes = {} /\ missed = {} /\ opened = [k \in Keys |-> 0]

\* POST /: the keys are counted, and the new one is inserted an await later.
Create(m) ==
  /\ manage[m] = Idle
  /\ Cardinality(LiveKeys) < MaxKeys
  /\ manage' = [manage EXCEPT ![m].at = "insert"]
  /\ UNCHANGED <<secret, used, made, notes, missed, opened>>

\* createApiKey, and the answer that shows the plaintext.
Insert(m) ==
  /\ manage[m].at = "insert"
  /\ made < MaxSecrets
  /\ made' = made + 1
  /\ secret' = [secret EXCEPT ![made + 1] = made + 1]
  /\ manage' = [manage EXCEPT ![m] = [at |-> "answer", key |-> made + 1, new |-> made + 1]]
  /\ UNCHANGED <<used, notes, missed, opened>>

\* rotateApiKey: the row must exist when it is read; the UPDATE may find none.
Rotate(m, k) ==
  /\ manage[m] = Idle
  /\ k \in LiveKeys /\ made < MaxSecrets
  /\ made' = made + 1
  /\ manage' = [manage EXCEPT ![m] = [at |-> "update", key |-> k, new |-> made + 1]]
  /\ UNCHANGED <<secret, used, notes, missed, opened>>

UpdateKey(m) ==
  /\ manage[m].at = "update"
  /\ secret' = [secret EXCEPT ![manage[m].key] = IF @ = 0 THEN 0 ELSE manage[m].new]
  /\ used' = [used EXCEPT ![manage[m].key] = FALSE]
  /\ manage' = [manage EXCEPT ![m].at = "answer"]
  /\ UNCHANGED <<made, notes, missed, opened>>

\* Mutant of Answer: the columns of the last use are cleared by a second UPDATE
AnswerClears(m) ==
  /\ manage[m].at = "answer"
  /\ used' = [used EXCEPT ![manage[m].key] = FALSE]
  /\ manage' = [manage EXCEPT ![m] = Idle]
  /\ UNCHANGED <<secret, made, notes, missed, opened>>

\* The row is read back; when it has vanished meanwhile the request fails.
Answer(m) ==
  /\ manage[m].at = "answer"
  /\ manage' = [manage EXCEPT ![m] = Idle]
  /\ UNCHANGED <<secret, used, made, notes, missed, opened>>

Revoke(m, k) ==
  /\ manage[m] = Idle
  /\ k \in LiveKeys
  /\ secret' = [secret EXCEPT ![k] = 0]
  /\ used' = [used EXCEPT ![k] = FALSE]
  /\ UNCHANGED <<made, manage, notes, missed, opened>>

\* tryApiKey, verifyApiKey: the row is found by the prefix, which is drawn with the
\* secret; the note of the use is written later, and nobody waits for it.
VerifyApiKey(k) ==
  /\ k \in LiveKeys
  /\ opened' = [opened EXCEPT ![k] = secret[k]]
  /\ notes' = notes \cup {<<k, secret[k]>>}
  /\ UNCHANGED <<secret, used, made, manage, missed>>

\* The note names the row, whatever secret the row has by now.
NoteUse(note) ==
  /\ note \in notes
  /\ used' = [used EXCEPT ![note[1]] = (note[1] \in LiveKeys)]
  /\ notes' = notes \ {note}
  /\ UNCHANGED <<secret, made, manage, missed, opened>>

\* Its failure is ignored.
NoteFails(note) ==
  /\ note \in notes
  /\ notes' = notes \ {note}
  /\ missed' = missed \cup {note}
  /\ UNCHANGED <<secret, used, made, manage, opened>>

\* The backend dies and starts again: requests and notes are lost, rows stay.
Restart ==
  /\ manage' = [m \in Managers |-> Idle]
  /\ notes' = {}
  /\ missed' = missed \cup notes
  /\ UNCHANGED <<secret, used, made, opened>>

Next ==
  \/ \E m \in Managers :
       \/ Create(m) \/ Insert(m) \/ UpdateKey(m) \/ Answer(m)
       \/ \E k \in Keys : Rotate(m, k) \/ Revoke(m, k)
  \/ \E k \in Keys : VerifyApiKey(k)
  \/ \E note \in notes : NoteUse(note) \/ NoteFails(note)
  \/ Restart

Spec == Init /\ [][Next]_vars

\* The limit on the keys of a user is exceeded at most by the requests that counted the
\* same keys at the same time: each of them but the first adds one (the count and the
\* insert are two statements).
KeysBounded == Cardinality(LiveKeys) <= MaxKeys + Cardinality(Managers) - 1

\* A key whose row says "never used" has not let its present secret in, but for uses whose
\* note is still on its way, or has been lost by a failed update or a death of the backend:
\* whatever notes of an older secret land meanwhile, rotating forgets no use of the new one.
UnusedKeysUnused ==
  \A k \in LiveKeys :
    ~ used[k] /\ opened[k] = secret[k] => <<k, secret[k]>> \in notes \cup missed

KeyTableTrue == KeysBounded /\ UnusedKeysUnused

=============================================================================
