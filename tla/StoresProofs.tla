---------------------------- MODULE StoresProofs ----------------------------
(***************************************************************************)
(* Proofs about MCStores: the limit on API keys and the truth of "never    *)
(* used", the assistant's obedience, the data directory across resets and  *)
(* restores, zones that stay attached, ports at playit, and tunnels that   *)
(* are as they were asked to be, for any number of keys, messages,         *)
(* conversations, databases, zones, rows, tunnels and requests.            *)
(***************************************************************************)
EXTENDS MCStores, FiniteSetTheorems, SequenceTheorems, TLAPS

-----------------------------------------------------------------------------
(* API keys: what the rows and the requests are                            *)

LEMMA KeyNumbers == MaxKeys \in Nat \ {0} /\ MaxSecrets \in Nat /\ IsFiniteSet(Managers)
<1>1. \A S : Keys!IsFiniteSet(S) <=> IsFiniteSet(S)
  BY DEF IsFiniteSet, Keys!IsFiniteSet
<1>. QED  BY <1>1, StoresAssumption DEF Keys!KeysAssumption

LEMMA SameCardinality == \A S : Keys!Cardinality(S) = Cardinality(S)
BY DEF Cardinality, Keys!Cardinality, IsFiniteSet, Keys!IsFiniteSet

KeyShape ==
    /\ kMade \in 0 .. MaxSecrets
    /\ secret \in [Keys!Keys -> Int] /\ opened \in [Keys!Keys -> Int]
    /\ DOMAIN used = Keys!Keys /\ DOMAIN manage = Managers
    /\ \A m \in Managers : {"at", "key", "new"} \subseteq DOMAIN manage[m] /\ manage[m].new \in Int

-----------------------------------------------------------------------------
(* Unused keys: a secret is new when it is written, so no earlier use of   *)
(* the row can have been a use of it.                                      *)

Rotating == {m \in Managers : manage[m].at = "update"}

AllMade == \A k \in Keys!Keys : secret[k] <= kMade /\ opened[k] <= kMade

\* The secret of a rotation under way was made, by it alone, and is in no row yet
PendingMade == \A m \in Rotating : 0 < manage[m].new /\ manage[m].new <= kMade
PendingOwn == \A m, n \in Rotating : m # n => manage[m].new # manage[n].new
PendingUnseen ==
    \A m \in Rotating, k \in Keys!Keys : secret[k] # manage[m].new /\ opened[k] # manage[m].new

SecretsFresh == AllMade /\ PendingMade /\ PendingOwn /\ PendingUnseen

UseInv == KeyShape /\ SecretsFresh /\ Keys!UnusedKeysUnused

LEMMA InitUseInv == Keys!Init => UseInv
BY KeyNumbers DEF Keys!Init, UseInv, KeyShape, SecretsFresh, AllMade, PendingMade, PendingOwn,
       PendingUnseen, Keys!UnusedKeysUnused, Rotating, Keys!LiveKeys, Keys!Idle

\* No secret is made, none is put in a row, and no rotation begins
LEMMA FreshKept ==
    ASSUME SecretsFresh, kMade' = kMade,
           Rotating' \subseteq Rotating, \A m \in Rotating' : manage'[m] = manage[m],
           \A k \in Keys!Keys : secret'[k] \in {0, secret[k]},
           \A k \in Keys!Keys : opened'[k] \in {opened[k], secret[k]},
           KeyShape
    PROVE  SecretsFresh'
<1>1. AllMade'
  BY DEF SecretsFresh, AllMade, KeyShape
<1>2. PendingMade' /\ PendingOwn'
  BY DEF SecretsFresh, PendingMade, PendingOwn
<1>3. PendingUnseen'
  BY DEF SecretsFresh, PendingMade, PendingUnseen
<1>. QED  BY <1>1, <1>2, <1>3 DEF SecretsFresh

LEMMA NextUseInv == UseInv /\ [Keys!Next]_keyVars => UseInv'
<1>. SUFFICES ASSUME UseInv, [Keys!Next]_keyVars PROVE UseInv'
  OBVIOUS
<1>. USE DEF UseInv
<1>1. ASSUME NEW m \in Managers, Keys!Create(m) PROVE UseInv'
  <2>1. KeyShape' /\ Keys!UnusedKeysUnused'
    BY <1>1 DEF Keys!Create, KeyShape, Keys!UnusedKeysUnused, Keys!LiveKeys
  <2>2. SecretsFresh'
    BY <1>1, FreshKept DEF Keys!Create, KeyShape, Rotating
  <2>. QED  BY <2>1, <2>2
<1>2. ASSUME NEW m \in Managers, Keys!Insert(m) PROVE UseInv'
  <2>1. /\ kMade' = kMade + 1 /\ kMade + 1 \in Keys!Keys /\ kMade \in Nat
        /\ secret' = [secret EXCEPT ![kMade + 1] = kMade + 1]
        /\ manage' = [manage EXCEPT ![m] = [at |-> "answer", key |-> kMade + 1, new |-> kMade + 1]]
        /\ UNCHANGED <<used, notes, missed, opened>>
    BY <1>2, KeyNumbers DEF Keys!Insert, KeyShape, Keys!Keys
  <2>2. KeyShape'
    BY <2>1, KeyNumbers DEF KeyShape, Keys!Keys
  <2>3. Rotating' \subseteq Rotating /\ \A n \in Rotating' : manage'[n] = manage[n]
    BY <2>1 DEF Rotating, KeyShape
  <2>4. AllMade'
    BY <2>1 DEF SecretsFresh, AllMade, KeyShape
  <2>5. PendingMade' /\ PendingOwn'
    BY <2>1, <2>3 DEF SecretsFresh, PendingMade, PendingOwn, Rotating, KeyShape
  <2>6. PendingUnseen'
    BY <2>1, <2>3 DEF SecretsFresh, PendingMade, PendingUnseen, Rotating, KeyShape
  <2>7. Keys!UnusedKeysUnused'
    BY <2>1 DEF Keys!UnusedKeysUnused, Keys!LiveKeys, SecretsFresh, AllMade, KeyShape
  <2>. QED  BY <2>2, <2>4, <2>5, <2>6, <2>7 DEF SecretsFresh
<1>3. ASSUME NEW m \in Managers, Keys!UpdateKey(m) PROVE UseInv'
  <2>. DEFINE k == manage[m].key
  <2>1. /\ m \in Rotating /\ kMade' = kMade
        /\ secret' = [secret EXCEPT ![k] = IF @ = 0 THEN 0 ELSE manage[m].new]
        /\ used' = [used EXCEPT ![k] = FALSE]
        /\ manage' = [manage EXCEPT ![m].at = "answer"]
        /\ UNCHANGED <<notes, missed, opened>>
    BY <1>3 DEF Keys!UpdateKey, Rotating
  <2>2. KeyShape'
    BY <2>1 DEF KeyShape
  <2>3. /\ Rotating' \subseteq Rotating \ {m}
        /\ \A n \in Rotating' : manage'[n] = manage[n]
    BY <2>1 DEF Rotating, KeyShape
  <2>4. AllMade'
    BY <2>1 DEF SecretsFresh, AllMade, PendingMade, KeyShape
  <2>5. PendingMade' /\ PendingOwn'
    BY <2>1, <2>3 DEF SecretsFresh, PendingMade, PendingOwn
  <2>6. PendingUnseen'
    BY <2>1, <2>3 DEF SecretsFresh, PendingMade, PendingOwn, PendingUnseen, KeyShape
  <2>7. Keys!UnusedKeysUnused'
    BY <2>1 DEF Keys!UnusedKeysUnused, Keys!LiveKeys, SecretsFresh, PendingUnseen, KeyShape
  <2>. QED  BY <2>2, <2>4, <2>5, <2>6, <2>7 DEF SecretsFresh
<1>4. ASSUME NEW m \in Managers, Keys!Answer(m) PROVE UseInv'
  <2>1. KeyShape' /\ Keys!UnusedKeysUnused'
    BY <1>4 DEF Keys!Answer, Keys!Idle, KeyShape, Keys!UnusedKeysUnused, Keys!LiveKeys
  <2>2. SecretsFresh'
    BY <1>4, FreshKept DEF Keys!Answer, Keys!Idle, KeyShape, Rotating
  <2>. QED  BY <2>1, <2>2
<1>5. ASSUME NEW m \in Managers, NEW k \in Keys!Keys, Keys!Rotate(m, k) PROVE UseInv'
  <2>1. /\ kMade' = kMade + 1 /\ kMade + 1 \in 0 .. MaxSecrets /\ kMade \in Nat
        /\ manage' = [manage EXCEPT ![m] = [at |-> "update", key |-> k, new |-> kMade + 1]]
        /\ UNCHANGED <<secret, used, notes, missed, opened>>
    BY <1>5, KeyNumbers DEF Keys!Rotate, KeyShape
  <2>2. KeyShape' /\ Keys!UnusedKeysUnused'
    BY <2>1 DEF KeyShape, Keys!UnusedKeysUnused, Keys!LiveKeys
  <2>3. /\ manage'[m].new = kMade + 1
        /\ \A n \in Rotating' : n # m => n \in Rotating /\ manage'[n] = manage[n]
    BY <2>1 DEF Rotating, KeyShape
  <2>4. AllMade'
    BY <2>1 DEF SecretsFresh, AllMade, KeyShape
  <2>5. PendingMade' /\ PendingOwn'
    BY <2>1, <2>3 DEF SecretsFresh, PendingMade, PendingOwn, Rotating, KeyShape
  <2>6. PendingUnseen'
    BY <2>1, <2>3 DEF SecretsFresh, AllMade, PendingUnseen, Rotating, KeyShape
  <2>. QED  BY <2>2, <2>4, <2>5, <2>6 DEF SecretsFresh
<1>6. ASSUME NEW m \in Managers, NEW k \in Keys!Keys, Keys!Revoke(m, k) PROVE UseInv'
  <2>1. KeyShape' /\ Keys!UnusedKeysUnused'
    BY <1>6 DEF Keys!Revoke, KeyShape, Keys!UnusedKeysUnused, Keys!LiveKeys
  <2>2. SecretsFresh'
    BY <1>6, FreshKept DEF Keys!Revoke, KeyShape, Rotating
  <2>. QED  BY <2>1, <2>2
<1>7. ASSUME NEW k \in Keys!Keys, Keys!VerifyApiKey(k) PROVE UseInv'
  <2>1. KeyShape' /\ Keys!UnusedKeysUnused'
    BY <1>7 DEF Keys!VerifyApiKey, KeyShape, Keys!UnusedKeysUnused, Keys!LiveKeys
  <2>2. SecretsFresh'
    BY <1>7, FreshKept DEF Keys!VerifyApiKey, KeyShape, Rotating
  <2>. QED  BY <2>1, <2>2
<1>8. ASSUME NEW note \in notes, Keys!NoteUse(note) \/ Keys!NoteFails(note) PROVE UseInv'
  <2>1. /\ notes \cup missed \subseteq notes' \cup missed' \cup {note}
        /\ UNCHANGED <<secret, opened, manage, kMade>>
    BY <1>8 DEF Keys!NoteUse, Keys!NoteFails
  <2>2. KeyShape' /\ SecretsFresh'
    <3>1. KeyShape'
      BY <1>8, <2>1 DEF Keys!NoteUse, Keys!NoteFails, KeyShape
    <3>. QED  BY <2>1, <3>1, FreshKept DEF KeyShape, Rotating
  <2>3. Keys!LiveKeys' = Keys!LiveKeys
    BY <2>1 DEF Keys!LiveKeys
  <2>4. ASSUME NEW k \in Keys!LiveKeys, ~ used'[k], opened[k] = secret[k]
        PROVE  <<k, secret[k]>> \in notes' \cup missed'
    <3>1. CASE Keys!NoteFails(note)
      <4>1. ~ used[k] /\ notes \cup missed = notes' \cup missed'
        BY <2>4, <3>1 DEF Keys!NoteFails
      <4>. QED  BY <2>4, <4>1 DEF Keys!UnusedKeysUnused
    <3>2. CASE Keys!NoteUse(note)
      <4>1. k \in Keys!Keys /\ note[1] # k
        BY <2>4, <3>2 DEF Keys!NoteUse, KeyShape, Keys!LiveKeys
      <4>2. ~ used[k] /\ <<k, secret[k]>> # note
        BY <2>4, <3>2, <4>1 DEF Keys!NoteUse, KeyShape
      <4>. QED  BY <2>1, <2>4, <4>2 DEF Keys!UnusedKeysUnused
    <3>. QED  BY <1>8, <3>1, <3>2
  <2>5. Keys!UnusedKeysUnused'
    BY <2>1, <2>3, <2>4 DEF Keys!UnusedKeysUnused
  <2>. QED  BY <2>2, <2>5
<1>10. ASSUME Keys!Restart PROVE UseInv'
  <2>1. KeyShape' /\ Keys!UnusedKeysUnused'
    BY <1>10 DEF Keys!Restart, Keys!Idle, KeyShape, Keys!UnusedKeysUnused, Keys!LiveKeys
  <2>2. SecretsFresh'
    <3>1. Rotating' = {}
      BY <1>10 DEF Keys!Restart, Keys!Idle, Rotating
    <3>. QED  BY <1>10, <3>1, FreshKept DEF Keys!Restart, KeyShape
  <2>. QED  BY <2>1, <2>2
<1>9. CASE UNCHANGED keyVars
  BY <1>9 DEF keyVars, KeyShape, SecretsFresh, AllMade, PendingMade, PendingOwn, PendingUnseen,
              Keys!UnusedKeysUnused, Rotating, Keys!LiveKeys
<1>. QED  BY <1>1, <1>2, <1>3, <1>4, <1>5, <1>6, <1>7, <1>8, <1>9, <1>10 DEF Keys!Next

-----------------------------------------------------------------------------
(* The limit: a request that has counted holds a place until it inserts.   *)

Inserting == {m \in Managers : manage[m].at = "insert"}

PlacesBounded ==
    Cardinality(Keys!LiveKeys) + Cardinality(Inserting) <= MaxKeys + Cardinality(Managers) - 1

LEMMA KeysFinite ==
    /\ IsFiniteSet(Keys!LiveKeys) /\ Cardinality(Keys!LiveKeys) \in Nat
    /\ IsFiniteSet(Inserting) /\ Cardinality(Inserting) \in Nat
    /\ Cardinality(Inserting) <= Cardinality(Managers) /\ Cardinality(Managers) \in Nat
<1>1. IsFiniteSet(Keys!Keys)
  BY FS_Interval, KeyNumbers DEF Keys!Keys
<1>2. Keys!LiveKeys \subseteq Keys!Keys /\ Inserting \subseteq Managers
  BY DEF Keys!LiveKeys, Inserting
<1>. QED  BY <1>1, <1>2, FS_Subset, FS_CardinalityType, KeyNumbers

\* A step that adds neither a row nor a request about to insert one
LEMMA FewerKeep ==
    ASSUME PlacesBounded, Keys!LiveKeys' \subseteq Keys!LiveKeys, Inserting' \subseteq Inserting
    PROVE  PlacesBounded'
<1>1. /\ Cardinality(Keys!LiveKeys') <= Cardinality(Keys!LiveKeys) /\ Cardinality(Keys!LiveKeys') \in Nat
      /\ Cardinality(Inserting') <= Cardinality(Inserting) /\ Cardinality(Inserting') \in Nat
  BY KeysFinite, FS_Subset, FS_CardinalityType
<1>. QED  BY <1>1, KeysFinite, KeyNumbers DEF PlacesBounded

LEMMA InitPlaces == Keys!Init => PlacesBounded
<1>. SUFFICES ASSUME Keys!Init PROVE PlacesBounded
  OBVIOUS
<1>1. Keys!LiveKeys = {} /\ Inserting = {}
  BY DEF Keys!Init, Keys!LiveKeys, Inserting, Keys!Idle
<1>. QED  BY <1>1, FS_EmptySet, KeysFinite, KeyNumbers DEF PlacesBounded

LEMMA NextPlaces == KeyShape /\ PlacesBounded /\ [Keys!Next]_keyVars => PlacesBounded'
<1>. SUFFICES ASSUME KeyShape, PlacesBounded, [Keys!Next]_keyVars PROVE PlacesBounded'
  OBVIOUS
<1>. USE DEF KeyShape
<1>1. ASSUME NEW m \in Managers, Keys!Create(m) PROVE PlacesBounded'
  <2>1. Keys!LiveKeys' = Keys!LiveKeys /\ Cardinality(Keys!LiveKeys) < MaxKeys
    BY <1>1, SameCardinality DEF Keys!Create, Keys!LiveKeys
  <2>2. Cardinality(Inserting') <= Cardinality(Managers) /\ Cardinality(Inserting') \in Nat
    <3>1. Inserting' \subseteq Managers
      BY DEF Inserting
    <3>. QED  BY <3>1, FS_Subset, FS_CardinalityType, KeyNumbers
  <2>. QED  BY <2>1, <2>2, KeysFinite, KeyNumbers DEF PlacesBounded
<1>2. ASSUME NEW m \in Managers, Keys!Insert(m) PROVE PlacesBounded'
  <2>1. m \in Inserting /\ Inserting' = Inserting \ {m}
    BY <1>2 DEF Keys!Insert, Inserting
  <2>2. Keys!LiveKeys' \subseteq Keys!LiveKeys \cup {kMade + 1}
    BY <1>2 DEF Keys!Insert, Keys!LiveKeys, Keys!Keys
  <2>3. /\ IsFiniteSet(Keys!LiveKeys \cup {kMade + 1})
        /\ Cardinality(Keys!LiveKeys \cup {kMade + 1}) =
             IF kMade + 1 \in Keys!LiveKeys THEN Cardinality(Keys!LiveKeys) ELSE Cardinality(Keys!LiveKeys) + 1
    BY KeysFinite, FS_AddElement
  <2>4. Cardinality(Keys!LiveKeys') <= Cardinality(Keys!LiveKeys) + 1 /\ Cardinality(Keys!LiveKeys') \in Nat
    BY <2>2, <2>3, KeysFinite, FS_Subset, FS_CardinalityType
  <2>5. Cardinality(Inserting') = Cardinality(Inserting) - 1
    BY <2>1, KeysFinite, FS_RemoveElement
  <2>. QED  BY <2>4, <2>5, KeysFinite, KeyNumbers DEF PlacesBounded
<1>3. ASSUME NEW m \in Managers,
             Keys!UpdateKey(m) \/ Keys!Answer(m) \/ \E k \in Keys!Keys : Keys!Rotate(m, k) \/ Keys!Revoke(m, k)
      PROVE  PlacesBounded'
  <2>1. Keys!LiveKeys' \subseteq Keys!LiveKeys /\ Inserting' \subseteq Inserting
    BY <1>3 DEF Keys!UpdateKey, Keys!Answer, Keys!Rotate, Keys!Revoke, Keys!LiveKeys, Inserting, Keys!Idle
  <2>. QED  BY <2>1, FewerKeep
<1>4. CASE \/ UNCHANGED keyVars
           \/ \E k \in Keys!Keys : Keys!VerifyApiKey(k)
           \/ \E note \in notes : Keys!NoteUse(note) \/ Keys!NoteFails(note)
  <2>1. UNCHANGED <<Keys!LiveKeys, Inserting>>
    BY <1>4 DEF keyVars, Keys!VerifyApiKey, Keys!NoteUse, Keys!NoteFails, Keys!LiveKeys, Inserting
  <2>. QED  BY <2>1, FewerKeep
<1>5. CASE Keys!Restart
  <2>1. Keys!LiveKeys' = Keys!LiveKeys /\ Inserting' = {}
    BY <1>5 DEF Keys!Restart, Keys!Idle, Keys!LiveKeys, Inserting
  <2>. QED  BY <2>1, FewerKeep
<1>. QED  BY <1>1, <1>2, <1>3, <1>4, <1>5 DEF Keys!Next

-----------------------------------------------------------------------------
(* What the rows and the requests are made of                              *)

LEMMA InitKeyTypes == Keys!Init => Keys!TypeOK
BY KeyNumbers DEF Keys!Init, Keys!TypeOK, Keys!Idle

LEMMA NextKeyTypes == Keys!TypeOK /\ [Keys!Next]_keyVars => Keys!TypeOK'
<1>. SUFFICES ASSUME Keys!TypeOK, [Keys!Next]_keyVars PROVE Keys!TypeOK'
  OBVIOUS
<1>. USE KeyNumbers
<1>0. kMade \in Nat /\ MaxSecrets \in Nat
  BY DEF Keys!TypeOK
<1>1. ASSUME NEW m \in Managers, Keys!Create(m) \/ Keys!Answer(m) \/ Keys!UpdateKey(m) PROVE Keys!TypeOK'
  <2>1. CASE Keys!Create(m)
    BY <2>1 DEF Keys!Create, Keys!TypeOK
  <2>2. CASE Keys!Answer(m)
    BY <2>2 DEF Keys!Answer, Keys!Idle, Keys!TypeOK
  <2>3. CASE Keys!UpdateKey(m)
    <3>1. manage[m] \in [at : {"idle", "insert", "update", "answer"}, key : Keys!Keys \cup {0}, new : 0 .. MaxSecrets]
      BY DEF Keys!TypeOK
    <3>2. secret' \in [Keys!Keys -> 0 .. MaxSecrets] /\ used' \in [Keys!Keys -> BOOLEAN]
      BY <2>3, <3>1 DEF Keys!UpdateKey, Keys!TypeOK
    <3>. QED  BY <2>3, <3>1, <3>2 DEF Keys!UpdateKey, Keys!TypeOK
  <2>. QED  BY <1>1, <2>1, <2>2, <2>3
<1>2. ASSUME NEW m \in Managers, Keys!Insert(m) PROVE Keys!TypeOK'
  <2>1. kMade + 1 \in Keys!Keys /\ kMade + 1 \in 0 .. MaxSecrets
    BY <1>0, <1>2 DEF Keys!Insert, Keys!Keys
  <2>. QED  BY <1>2, <2>1 DEF Keys!Insert, Keys!TypeOK
<1>3. ASSUME NEW m \in Managers, NEW k \in Keys!Keys, Keys!Rotate(m, k) \/ Keys!Revoke(m, k) PROVE Keys!TypeOK'
  <2>1. CASE Keys!Rotate(m, k)
    <3>1. kMade + 1 \in 0 .. MaxSecrets
      BY <1>0, <2>1 DEF Keys!Rotate
    <3>. QED  BY <2>1, <3>1 DEF Keys!Rotate, Keys!TypeOK
  <2>2. CASE Keys!Revoke(m, k)
    BY <2>2 DEF Keys!Revoke, Keys!TypeOK
  <2>. QED  BY <1>3, <2>1, <2>2
<1>4. ASSUME NEW k \in Keys!Keys, Keys!VerifyApiKey(k) PROVE Keys!TypeOK'
  <2>1. secret[k] \in 1 .. MaxSecrets
    BY <1>0, <1>4 DEF Keys!VerifyApiKey, Keys!LiveKeys, Keys!TypeOK
  <2>2. <<k, secret[k]>> \in Keys!Keys \X (1 .. MaxSecrets)
    BY <2>1
  <2>. QED  BY <1>4, <2>1, <2>2 DEF Keys!VerifyApiKey, Keys!TypeOK
<1>6. ASSUME NEW note \in notes, Keys!NoteUse(note) PROVE Keys!TypeOK'
  <2>1. \A k : \A b \in BOOLEAN : [used EXCEPT ![k] = b] \in [Keys!Keys -> BOOLEAN]
    BY DEF Keys!TypeOK
  <2>2. (note[1] \in Keys!LiveKeys) \in BOOLEAN
    OBVIOUS
  <2>3. used' \in [Keys!Keys -> BOOLEAN]
    BY <1>6, <2>1, <2>2, Zenon DEF Keys!NoteUse
  <2>. QED  BY <1>6, <2>3 DEF Keys!NoteUse, Keys!TypeOK
<1>7. ASSUME \/ Keys!Restart
             \/ \E note \in notes : Keys!NoteFails(note)
      PROVE  Keys!TypeOK'
  BY <1>7 DEF Keys!NoteFails, Keys!Restart, Keys!Idle, Keys!TypeOK
<1>5. CASE UNCHANGED keyVars
  BY <1>5 DEF keyVars, Keys!TypeOK
<1>. QED  BY <1>1, <1>2, <1>3, <1>4, <1>5, <1>6, <1>7 DEF Keys!Next

-----------------------------------------------------------------------------
(* Assistant: types                                                        *)

Turn == [step : Cloudy!Steps, conv : 0 .. Convs, fresh : BOOLEAN, mode : Cloudy!Modes, turn : Cloudy!Tokens, sees : BOOLEAN,
         tools : SUBSET {"read", "write"}, calm : BOOLEAN]
Request == [step : {"check", "url", "mode", "key"}, url : Urls, mode : Cloudy!Modes, typed : BOOLEAN]
\* A press under way has a token.
Presses == [step : {"idle", "find", "delete", "run", "done"}, token : {0} \cup Cloudy!Tokens]
Press == {p \in Presses : p.step \in {"find", "delete", "run"} => p.token \in Cloudy!Tokens}

ChatStore ==
  /\ aThere \subseteq 1 .. Convs /\ aMade \in 0 .. Convs /\ rows \in [1 .. Convs -> Nat]
  /\ shown \in [Drawers -> 0 .. Convs]
  /\ action \in [Cloudy!Tokens -> {"none", "new", "old"}]
  /\ ran \in [Cloudy!Tokens -> Nat] /\ met \subseteq Cloudy!Tokens
  /\ turns \in 0 .. MaxTurns /\ restarts \in 0 .. MaxRestarts
Settings == mode \in Cloudy!Modes /\ url \in Urls /\ aKey \in Urls \cup {Cloudy!NoKey}
ChatFlags == aTorn \in BOOLEAN /\ surprise \in BOOLEAN
InSave == save \in [Saves -> {Cloudy!Unsaved, Cloudy!Saved} \cup Request]
InTurn == chat \in [Drawers -> {Cloudy!Idle} \cup Turn]
InPress == click \in [Clicks -> Press]

CloudyTypes == ChatStore /\ Settings /\ ChatFlags /\ InSave /\ InTurn /\ InPress

LEMMA CloudyTypesSuffice == CloudyTypes => Cloudy!TypeOK
<1>. SUFFICES ASSUME CloudyTypes PROVE Cloudy!TypeOK
  OBVIOUS
<1>1. \A s \in Saves : save[s] \in {Cloudy!Unsaved, Cloudy!Saved} \/ save[s] \in Request
  BY DEF CloudyTypes, InSave
<1>2. InTurn /\ InPress /\ ChatStore /\ Settings
  BY DEF CloudyTypes
<1>3. aTorn \in BOOLEAN /\ surprise \in BOOLEAN
  BY DEF CloudyTypes, ChatFlags
<1>. QED  BY <1>1, <1>2, <1>3 DEF InTurn, InPress, ChatStore, Settings, Turn, Request, Press, Presses,
                                  Cloudy!TypeOK, Cloudy!Chats

LEMMA InitCloudyTypes == Cloudy!Init => CloudyTypes
<1>. SUFFICES ASSUME Cloudy!Init PROVE CloudyTypes
  OBVIOUS
<1>1. ChatStore
  BY StoresAssumption DEF Cloudy!Init, ChatStore, Cloudy!Tokens
<1>2. Settings
  BY DEF Cloudy!Init, Settings, Cloudy!Modes
<1>3. ChatFlags
  BY DEF Cloudy!Init, ChatFlags
<1>4. InSave /\ InTurn
  BY DEF Cloudy!Init, InSave, InTurn
<1>5. InPress
  BY DEF Cloudy!Init, InPress, Press, Presses, Cloudy!Unpressed
<1>. QED  BY <1>1, <1>2, <1>3, <1>4, <1>5 DEF CloudyTypes

\* A turn under way is not the drawer at rest, nor is a save one that is over.
LEMMA AtRest ==
  /\ Cloudy!Idle \notin Turn /\ Cloudy!Idle.step \notin Cloudy!Steps
  /\ \A h \in Turn : h.step \in Cloudy!Steps /\ h # Cloudy!Idle
  /\ \A r \in Request : r \notin {Cloudy!Unsaved, Cloudy!Saved} /\ r.step \in {"check", "url", "mode", "key"}
  /\ Cloudy!Unsaved.step = "idle" /\ Cloudy!Saved.step = "done" /\ Cloudy!Idle.step = "idle"
<1>1. \A h \in Turn : h.step \in Cloudy!Steps
  BY DEF Turn
<1>2. Cloudy!Idle.step = "idle" /\ Cloudy!Unsaved.step = "idle" /\ Cloudy!Saved.step = "done" /\ "idle" \notin Cloudy!Steps
  BY DEF Cloudy!Idle, Cloudy!Unsaved, Cloudy!Saved, Cloudy!Steps
<1>3. \A r \in Request : r.step \in {"check", "url", "mode", "key"}
  BY DEF Request
<1>. QED  BY <1>1, <1>2, <1>3

LEMMA InHandle ==
  ASSUME CloudyTypes, NEW d \in Drawers, chat[d].step \in Cloudy!Steps
  PROVE  chat[d] \in Turn
BY AtRest DEF CloudyTypes, InTurn

LEMMA InRequest ==
  ASSUME CloudyTypes, NEW s \in Saves
  PROVE  /\ Cloudy!Saving(s) <=> save[s] \in Request
         /\ Cloudy!Saving(s) <=> save[s].step \in {"check", "url", "mode", "key"}
BY AtRest DEF CloudyTypes, InSave, Cloudy!Saving

\* A step of a handler goes on with its turn or answers it.
LEMMA TurnTypes ==
  ASSUME NEW h \in Turn
  PROVE  /\ \A s \in Cloudy!Steps : [h EXCEPT !.step = s] \in Turn
         /\ \A m \in Cloudy!Modes : [h EXCEPT !.step = "key", !.mode = m] \in Turn
         /\ \A c \in 0 .. Convs : [h EXCEPT !.step = "user", !.conv = c] \in Turn
         /\ \A b \in BOOLEAN : [h EXCEPT !.step = "ask", !.sees = b] \in Turn
         /\ \A t \in SUBSET {"read", "write"} : [h EXCEPT !.step = "calls", !.tools = t] \in Turn
         /\ [h EXCEPT !.calm = FALSE] \in Turn
<1>. USE DEF Turn, Cloudy!Steps
<1>1. \A s \in Cloudy!Steps : [h EXCEPT !.step = s] \in Turn
  OBVIOUS
<1>2. \A m \in Cloudy!Modes : [h EXCEPT !.step = "key", !.mode = m] \in Turn
  OBVIOUS
<1>3. \A c \in 0 .. Convs : [h EXCEPT !.step = "user", !.conv = c] \in Turn
  OBVIOUS
<1>4. \A b \in BOOLEAN : [h EXCEPT !.step = "ask", !.sees = b] \in Turn
  OBVIOUS
<1>5. \A t \in SUBSET {"read", "write"} : [h EXCEPT !.step = "calls", !.tools = t] \in Turn
  OBVIOUS
<1>6. [h EXCEPT !.calm = FALSE] \in Turn
  OBVIOUS
<1>. QED  BY <1>1, <1>2, <1>3, <1>4, <1>5, <1>6

\* What a handler does to its turn: it ends it, or goes on, not back, with the turn's own
\* number and calm, and with the mode it reads first.
Early == {"settings", "key", "conv", "user", "recall", "ask", "answer", "calls", "dispatch"}
GoesOn(d) ==
  \E g \in Turn :
    /\ chat' = [chat EXCEPT ![d] = g]
    /\ g.turn = chat[d].turn /\ g.calm = chat[d].calm /\ g.step # "settings"
    /\ g.mode = chat[d].mode \/ (g.mode = mode /\ mode # "off")
    /\ chat[d].step # "settings" => g.mode = chat[d].mode
    /\ chat[d].step = "settings" => g.mode = mode /\ mode # "off"
    /\ g.step \in Early => chat[d].step \in Early \ {"dispatch"}

LEMMA HandleTurns ==
  ASSUME CloudyTypes, NEW d \in Drawers, Cloudy!Handle(d)
  PROVE  chat[d] \in Turn /\ (Cloudy!Respond(d) \/ GoesOn(d))
<1>. DEFINE h == chat[d]
<1>1. h.step \in Cloudy!Steps
  BY DEF Cloudy!Handle, Cloudy!ReadSettings, Cloudy!ReadKey, Cloudy!FindConversation, Cloudy!StoreMessage,
         Cloudy!Recall, Cloudy!Ask, Cloudy!StoreAnswer, Cloudy!StoreCalls, Cloudy!Dispatch,
         Cloudy!StoreResults, Cloudy!FollowUp, Cloudy!StoreFollowUp, Cloudy!Answer, Cloudy!Store, Cloudy!Steps
<1>2. h \in Turn
  BY <1>1, InHandle
<1>3. ASSUME NEW s \in Cloudy!Steps, Cloudy!Go(d, s), s # "settings", h.step # "settings", s \in Early => h.step \in Early \ {"dispatch"}
      PROVE  GoesOn(d)
  <2>. DEFINE g == [h EXCEPT !.step = s]
  <2>1. g \in Turn
    BY <1>2, TurnTypes
  <2>2. chat' = [chat EXCEPT ![d] = g] /\ g.turn = h.turn /\ g.calm = h.calm /\ g.mode = h.mode /\ g.step = s
    BY <1>2, <1>3 DEF Cloudy!Go, Turn
  <2>. HIDE DEF g
  <2>. QED  BY <1>3, <2>1, <2>2 DEF GoesOn
<1>4. CASE Cloudy!ReadSettings(d)
  <2>1. mode \in Cloudy!Modes
    BY DEF CloudyTypes, Settings
  <2>. DEFINE g == [h EXCEPT !.step = "key", !.mode = mode]
  <2>2. Cloudy!Respond(d) \/ (chat' = [chat EXCEPT ![d] = g] /\ mode # "off")
    BY <1>4 DEF Cloudy!ReadSettings
  <2>3. g \in Turn
    BY <1>2, <2>1, TurnTypes
  <2>4. g.turn = h.turn /\ g.calm = h.calm /\ g.mode = mode /\ g.step = "key" /\ h.step = "settings"
    BY <1>2, <1>4 DEF Cloudy!ReadSettings, Turn
  <2>. HIDE DEF g
  <2>. QED  BY <1>2, <2>2, <2>3, <2>4 DEF GoesOn, Early
<1>5. CASE Cloudy!ReadKey(d)
  BY <1>2, <1>3, <1>5 DEF Cloudy!ReadKey, Cloudy!Steps, Early
<1>6. CASE Cloudy!FindConversation(d)
  <2>1. CASE chat[d].conv = 0
    <3>. DEFINE g == [h EXCEPT !.step = "user", !.conv = aMade']
    <3>1. aMade' \in 0 .. Convs
      BY <1>6, <2>1, StoresAssumption DEF Cloudy!FindConversation, CloudyTypes, ChatStore
    <3>2. g \in Turn
      BY <1>2, <3>1, TurnTypes
    <3>3. /\ chat' = [chat EXCEPT ![d] = g] /\ g.turn = h.turn /\ g.calm = h.calm /\ g.mode = h.mode
          /\ g.step = "user" /\ h.step = "conv"
      BY <1>2, <1>6, <2>1 DEF Cloudy!FindConversation, Turn
    <3>. HIDE DEF g
    <3>. QED  BY <1>2, <3>2, <3>3 DEF GoesOn, Early
  <2>2. CASE chat[d].conv # 0
    BY <1>2, <1>3, <1>6, <2>2 DEF Cloudy!FindConversation, Cloudy!Steps, Early
  <2>. QED  BY <2>1, <2>2
<1>7. CASE Cloudy!Recall(d)
  <2>1. PICK b \in BOOLEAN : chat' = [chat EXCEPT ![d] = [h EXCEPT !.step = "ask", !.sees = b]]
    BY <1>7 DEF Cloudy!Recall
  <2>. DEFINE g == [h EXCEPT !.step = "ask", !.sees = b]
  <2>2. g \in Turn
    BY <1>2, TurnTypes
  <2>3. g.turn = h.turn /\ g.calm = h.calm /\ g.mode = h.mode /\ g.step = "ask" /\ h.step = "recall"
    BY <1>2, <1>7 DEF Cloudy!Recall, Turn
  <2>. HIDE DEF g
  <2>. QED  BY <1>2, <2>1, <2>2, <2>3 DEF GoesOn, Early, g
<1>8. CASE Cloudy!Ask(d)
  <2>1. ASSUME NEW tools \in SUBSET {"read", "write"},
               chat' = [chat EXCEPT ![d] = [h EXCEPT !.step = "calls", !.tools = tools]]
        PROVE  GoesOn(d)
    <3>. DEFINE g == [h EXCEPT !.step = "calls", !.tools = tools]
    <3>1. g \in Turn
      BY <1>2, TurnTypes
    <3>2. g.turn = h.turn /\ g.calm = h.calm /\ g.mode = h.mode /\ g.step = "calls" /\ h.step = "ask"
      BY <1>2, <1>8 DEF Cloudy!Ask, Turn
    <3>3. chat' = [chat EXCEPT ![d] = g]
      BY <2>1
    <3>. HIDE DEF g
    <3>. QED  BY <1>2, <3>1, <3>2, <3>3 DEF GoesOn, Early
  <2>2. Cloudy!Go(d, "answer") => GoesOn(d)
    BY <1>3, <1>8 DEF Cloudy!Ask, Cloudy!Steps, Early
  <2>. QED  BY <1>2, <1>8, <2>1, <2>2 DEF Cloudy!Ask
<1>9. CASE Cloudy!StoreMessage(d) \/ Cloudy!StoreAnswer(d) \/ Cloudy!StoreCalls(d) \/ Cloudy!StoreResults(d)
  BY <1>2, <1>3, <1>9 DEF Cloudy!StoreMessage, Cloudy!StoreAnswer, Cloudy!StoreCalls, Cloudy!StoreResults,
                          Cloudy!Store, Cloudy!Steps, Early
<1>10. CASE Cloudy!Dispatch(d) \/ Cloudy!FollowUp(d) \/ Cloudy!StoreFollowUp(d) \/ Cloudy!Answer(d)
  BY <1>2, <1>3, <1>10 DEF Cloudy!Dispatch, Cloudy!FollowUp, Cloudy!StoreFollowUp, Cloudy!Answer,
                           Cloudy!Steps, Early
<1>. QED  BY <1>4, <1>5, <1>6, <1>7, <1>8, <1>9, <1>10 DEF Cloudy!Handle

\* What a handler leaves alone, and what Dispatch does beside its turn
HandleKeeps(d) ==
  /\ UNCHANGED <<mode, url, aKey, save, aTorn, click, ran, turns, restarts, met>>
  /\ UNCHANGED <<action, surprise>> \/ Cloudy!Dispatch(d)

LEMMA HandleFrame ==
  ASSUME NEW d \in Drawers, Cloudy!Handle(d)
  PROVE  HandleKeeps(d)
BY DEF HandleKeeps, Cloudy!Handle, Cloudy!ReadSettings, Cloudy!ReadKey, Cloudy!FindConversation,
       Cloudy!StoreMessage, Cloudy!Recall, Cloudy!Ask, Cloudy!StoreAnswer, Cloudy!StoreCalls,
       Cloudy!Dispatch, Cloudy!StoreResults, Cloudy!FollowUp, Cloudy!StoreFollowUp, Cloudy!Answer,
       Cloudy!Store, Cloudy!data, Cloudy!others, Cloudy!settings

LEMMA HandleStores ==
  ASSUME CloudyTypes, NEW d \in Drawers, Cloudy!Handle(d)
  PROVE  ChatStore'
<1>. USE DEF ChatStore
<1>0. ChatStore /\ Convs \in Nat
  BY StoresAssumption DEF CloudyTypes
<1>1. ASSUME NEW n \in Nat, Cloudy!Insert(d, n) PROVE rows' \in [1 .. Convs -> Nat]
  <2>1. CASE rows' = rows
    BY <1>0, <2>1
  <2>2. ASSUME NEW c \in 1 .. Convs, rows' = [rows EXCEPT ![c] = @ + n] PROVE rows' \in [1 .. Convs -> Nat]
    BY <1>0, <2>2
  <2>. QED  BY <1>0, <1>1, <2>1, <2>2 DEF Cloudy!Insert
<1>2. ASSUME NEW s, NEW t, NEW n \in Nat, Cloudy!Store(d, s, n, t) PROVE ChatStore'
  BY <1>0, <1>1, <1>2 DEF Cloudy!Store, Cloudy!data, Cloudy!settings
<1>3. CASE Cloudy!ReadSettings(d) \/ Cloudy!ReadKey(d)
  BY <1>0, <1>3 DEF Cloudy!ReadSettings, Cloudy!ReadKey, Cloudy!settings, Cloudy!others
<1>4. CASE Cloudy!FindConversation(d)
  <2>1. aThere' \subseteq 1 .. Convs /\ aMade' \in 0 .. Convs
    BY <1>0, <1>4 DEF Cloudy!FindConversation
  <2>. QED  BY <1>0, <1>4, <2>1 DEF Cloudy!FindConversation, Cloudy!settings
<1>5. CASE Cloudy!Recall(d) \/ Cloudy!Ask(d) \/ Cloudy!FollowUp(d)
  BY <1>0, <1>5 DEF Cloudy!Recall, Cloudy!Ask, Cloudy!FollowUp, Cloudy!data, Cloudy!settings
<1>6. CASE Cloudy!StoreMessage(d) \/ Cloudy!StoreAnswer(d) \/ Cloudy!StoreCalls(d) \/ Cloudy!StoreResults(d)
  <2>1. 1 \in Nat /\ (IF chat[d].tools = {"read", "write"} THEN 2 ELSE 1) \in Nat
    OBVIOUS
  <2>. QED  BY <1>2, <1>6, <2>1 DEF Cloudy!StoreMessage, Cloudy!StoreAnswer, Cloudy!StoreCalls,
                                    Cloudy!StoreResults
<1>7. CASE Cloudy!StoreFollowUp(d)
  BY <1>0, <1>1, <1>7 DEF Cloudy!StoreFollowUp, Cloudy!data, Cloudy!settings
<1>8. CASE Cloudy!Dispatch(d)
  BY <1>0, <1>8 DEF Cloudy!Dispatch, Cloudy!settings
<1>9. CASE Cloudy!Answer(d)
  <2>1. chat[d].conv \in 0 .. Convs
    BY <1>9, HandleTurns DEF Cloudy!Handle, Turn
  <2>2. shown' \in [Drawers -> 0 .. Convs]
    BY <1>0, <1>9, <2>1 DEF Cloudy!Answer
  <2>. QED  BY <1>0, <1>9, <2>2 DEF Cloudy!Answer, Cloudy!settings
<1>. QED  BY <1>3, <1>4, <1>5, <1>6, <1>7, <1>8, <1>9 DEF Cloudy!Handle

LEMMA NextCloudyTypes == CloudyTypes /\ [Cloudy!Next]_cloudyVars => CloudyTypes'
<1>. SUFFICES ASSUME CloudyTypes, [Cloudy!Next]_cloudyVars PROVE CloudyTypes'
  OBVIOUS
<1>0. ChatStore /\ Settings /\ ChatFlags /\ InSave /\ InTurn /\ InPress
  BY DEF CloudyTypes
<1>1. ASSUME NEW d \in Drawers, Cloudy!Handle(d) PROVE CloudyTypes'
  <2>1. Settings' /\ aTorn' = aTorn /\ InSave' /\ InPress'
    BY <1>0, <1>1, HandleFrame DEF HandleKeeps, Settings, InSave, InPress
  <2>2. surprise' \in BOOLEAN
    BY <1>0, <1>1, HandleFrame DEF HandleKeeps, ChatFlags, Cloudy!Dispatch
  <2>3. InTurn'
    BY <1>0, <1>1, HandleTurns DEF GoesOn, Cloudy!Respond, InTurn
  <2>. QED  BY <1>0, <1>1, <2>1, <2>2, <2>3, HandleStores DEF CloudyTypes, ChatFlags
<1>2. ASSUME NEW d \in Drawers, Cloudy!Send(d) PROVE CloudyTypes'
  <2>1. PICK calm \in BOOLEAN : chat' = [chat EXCEPT ![d] =
          [step |-> "settings", conv |-> shown[d], fresh |-> shown[d] = 0, mode |-> "off", turn |-> turns',
           sees |-> FALSE, tools |-> {}, calm |-> calm]]
    BY <1>2 DEF Cloudy!Send
  <2>2. PICK fresh \in BOOLEAN : chat' = [chat EXCEPT ![d] =
          [step |-> "settings", conv |-> shown[d], fresh |-> fresh, mode |-> "off", turn |-> turns',
           sees |-> FALSE, tools |-> {}, calm |-> calm]]
    BY <2>1
  <2>3. turns' \in Cloudy!Tokens /\ turns' \in 0 .. MaxTurns
    BY <1>0, <1>2, StoresAssumption DEF Cloudy!Send, ChatStore, Cloudy!Tokens
  <2>4. shown[d] \in 0 .. Convs
    BY <1>0 DEF ChatStore
  <2>5. [step |-> "settings", conv |-> shown[d], fresh |-> fresh, mode |-> "off", turn |-> turns',
           sees |-> FALSE, tools |-> {}, calm |-> calm] \in Turn
    BY <2>3, <2>4 DEF Turn, Cloudy!Steps, Cloudy!Modes
  <2>6. InTurn'
    BY <1>0, <2>2, <2>5 DEF InTurn
  <2>7. ChatStore'
    BY <1>0, <1>2, <2>3 DEF Cloudy!Send, ChatStore, Cloudy!settings
  <2>8. ChatFlags' /\ Settings' /\ InSave' /\ InPress'
    BY <1>0, <1>2 DEF Cloudy!Send, ChatFlags, Settings, InSave, InPress, Cloudy!settings
  <2>. QED  BY <2>6, <2>7, <2>8 DEF CloudyTypes
<1>3. ASSUME NEW d \in Drawers, Cloudy!Open(d) \/ Cloudy!Delete(d) PROVE CloudyTypes'
  <2>1. UNCHANGED <<mode, url, aKey, save, chat, click, aTorn, surprise>>
    BY <1>3 DEF Cloudy!Open, Cloudy!Delete, Cloudy!settings
  <2>2. ASSUME Cloudy!Open(d) PROVE ChatStore'
    <3>1. PICK c \in {0} \cup aThere : shown' = [shown EXCEPT ![d] = c]
      BY <2>2 DEF Cloudy!Open
    <3>2. c \in 0 .. Convs
      <4>1. Convs \in Nat /\ aThere \subseteq 1 .. Convs
        BY <1>0, StoresAssumption DEF ChatStore
      <4>. QED  BY <3>1, <4>1
    <3>. QED  BY <1>0, <2>2, <3>1, <3>2 DEF Cloudy!Open, Cloudy!settings, ChatStore
  <2>3. ASSUME Cloudy!Delete(d) PROVE ChatStore'
    <3>1. shown[d] \in aThere /\ shown[d] \in 1 .. Convs /\ 0 \in 0 .. Convs
      BY <1>0, <2>3, StoresAssumption DEF Cloudy!Delete, ChatStore
    <3>2. aThere' \subseteq 1 .. Convs
      BY <1>0, <2>3 DEF Cloudy!Delete, ChatStore
    <3>3. rows' \in [1 .. Convs -> Nat]
      BY <1>0, <2>3, <3>1 DEF Cloudy!Delete, ChatStore
    <3>4. shown' \in [Drawers -> 0 .. Convs]
      BY <1>0, <2>3, <3>1 DEF Cloudy!Delete, ChatStore
    <3>. QED  BY <1>0, <2>3, <3>2, <3>3, <3>4 DEF Cloudy!Delete, Cloudy!settings, ChatStore
  <2>4. ChatStore'
    BY <1>3, <2>2, <2>3
  <2>. QED  BY <1>0, <2>1, <2>4 DEF CloudyTypes, ChatFlags, InTurn, InPress, InSave, Settings
<1>4. ASSUME NEW s \in Saves, Cloudy!SaveSettings(s) \/ Cloudy!CheckSave(s) \/ Cloudy!WriteUrl(s) \/ Cloudy!WriteMode(s) \/ Cloudy!WriteKey(s)
      PROVE  CloudyTypes'
  <2>1. ChatStore' /\ click' = click /\ surprise' = surprise
    BY <1>0, <1>4 DEF Cloudy!SaveSettings, Cloudy!CheckSave, Cloudy!WriteUrl, Cloudy!WriteMode,
                      Cloudy!WriteKey, Cloudy!others, ChatStore
  <2>2. aTorn' \in BOOLEAN
    BY <1>0, <1>4 DEF Cloudy!SaveSettings, Cloudy!CheckSave, Cloudy!WriteUrl, Cloudy!WriteMode,
                      Cloudy!WriteKey, ChatFlags
  <2>3. InTurn'
    <3>1. CASE chat' = chat
      BY <1>0, <3>1 DEF InTurn
    <3>2. CASE Cloudy!WriteMode(s)
      <4>1. \A d \in Drawers : chat[d] # Cloudy!Idle => [chat[d] EXCEPT !.calm = FALSE] \in Turn
        BY <1>0, TurnTypes DEF InTurn
      <4>. QED  BY <1>0, <3>2, <4>1 DEF Cloudy!WriteMode, InTurn
    <3>. QED  BY <1>4, <3>1, <3>2 DEF Cloudy!SaveSettings, Cloudy!CheckSave, Cloudy!WriteUrl, Cloudy!WriteKey
  <2>4. InSave'
    <3>1. ASSUME NEW r \in {Cloudy!Unsaved, Cloudy!Saved} \cup Request, save' = [save EXCEPT ![s] = r] PROVE InSave'
      BY <1>0, <3>1 DEF InSave
    <3>2. CASE Cloudy!SaveSettings(s)
      <4>1. PICK u \in Urls, m \in Cloudy!Modes, typed \in BOOLEAN :
              save' = [save EXCEPT ![s] = [step |-> "check", url |-> u, mode |-> m, typed |-> typed]]
        BY <3>2 DEF Cloudy!SaveSettings
      <4>2. [step |-> "check", url |-> u, mode |-> m, typed |-> typed] \in Request
        BY DEF Request
      <4>. QED  BY <3>1, <4>1, <4>2
    <3>3. CASE Cloudy!CheckSave(s) \/ Cloudy!WriteUrl(s) \/ Cloudy!WriteMode(s) \/ Cloudy!WriteKey(s)
      <4>1. save[s] \in Request
        BY <3>3, InRequest DEF Cloudy!CheckSave, Cloudy!WriteUrl, Cloudy!WriteMode, Cloudy!WriteKey
      <4>2. \A p \in {"url", "mode", "key"} : [save[s] EXCEPT !.step = p] \in Request
        BY <4>1 DEF Request
      <4>. QED  BY <3>1, <3>3, <4>2 DEF Cloudy!CheckSave, Cloudy!WriteUrl, Cloudy!WriteMode, Cloudy!WriteKey
    <3>. QED  BY <1>4, <3>2, <3>3
  <2>5. Settings'
    <3>1. save[s].step \in {"url", "mode", "key"} => save[s].url \in Urls /\ save[s].mode \in Cloudy!Modes
      BY InRequest DEF Request
    <3>. QED
      BY <1>0, <1>4, <3>1
      DEF Cloudy!SaveSettings, Cloudy!CheckSave, Cloudy!WriteUrl, Cloudy!WriteMode, Cloudy!WriteKey, Settings
  <2>. QED  BY <1>0, <2>1, <2>2, <2>3, <2>4, <2>5 DEF CloudyTypes, ChatFlags, InPress
<1>5. ASSUME NEW k \in Clicks, Cloudy!Press(k) \/ Cloudy!FindAction(k) \/ Cloudy!DeleteAction(k) \/ Cloudy!RunAction(k)
      PROVE  CloudyTypes'
  <2>1. Settings' /\ aTorn' = aTorn /\ surprise' = surprise /\ InSave' /\ InTurn'
    BY <1>0, <1>5 DEF Cloudy!Press, Cloudy!FindAction, Cloudy!DeleteAction, Cloudy!RunAction,
                      Cloudy!settings, Settings, InSave, InTurn
  <2>2. click[k] \in Press
    BY <1>0 DEF InPress
  <2>3. \A t \in 1 .. turns : t \in Cloudy!Tokens
    BY <1>0, StoresAssumption DEF ChatStore, Cloudy!Tokens
  <2>4. InPress'
    <3>1. ASSUME NEW p \in Press, click' = [click EXCEPT ![k] = p] PROVE InPress'
      BY <1>0, <3>1 DEF InPress
    <3>2. \A t \in 1 .. turns : [step |-> "find", token |-> t] \in Press
      BY <2>3 DEF Press, Presses
    <3>3. /\ [click[k] EXCEPT !.step = "done"] \in Press
          /\ click[k].step \in {"find", "delete", "run"} =>
               \A p \in {"delete", "run"} : [click[k] EXCEPT !.step = p] \in Press
      BY <2>2 DEF Press, Presses
    <3>4. CASE Cloudy!FindAction(k)
      BY <3>1, <3>3, <3>4 DEF Cloudy!FindAction
    <3>. QED  BY <1>5, <3>1, <3>2, <3>3, <3>4 DEF Cloudy!Press, Cloudy!DeleteAction, Cloudy!RunAction
  <2>5. ChatStore'
    <3>1. UNCHANGED <<aThere, aMade, rows, shown, turns, restarts>>
      BY <1>5 DEF Cloudy!Press, Cloudy!FindAction, Cloudy!DeleteAction, Cloudy!RunAction
    <3>2. action' \in [Cloudy!Tokens -> {"none", "new", "old"}]
      BY <1>0, <1>5 DEF ChatStore, Cloudy!Press, Cloudy!FindAction, Cloudy!DeleteAction, Cloudy!RunAction
    <3>3. ran' \in [Cloudy!Tokens -> Nat]
      BY <1>0, <1>5 DEF ChatStore, Cloudy!Press, Cloudy!FindAction, Cloudy!DeleteAction, Cloudy!RunAction
    <3>4. met' \subseteq Cloudy!Tokens
      <4>1. CASE Cloudy!FindAction(k)
        <5>1. click[k].token \in Cloudy!Tokens
          BY <2>2, <4>1 DEF Press, Cloudy!FindAction
        <5>. QED  BY <1>0, <4>1, <5>1 DEF Cloudy!FindAction, ChatStore
      <4>. QED  BY <1>0, <1>5, <4>1 DEF ChatStore, Cloudy!Press, Cloudy!DeleteAction, Cloudy!RunAction
    <3>. QED  BY <1>0, <3>1, <3>2, <3>3, <3>4 DEF ChatStore
  <2>. QED  BY <1>0, <2>1, <2>4, <2>5 DEF CloudyTypes, ChatFlags
<1>6. CASE Cloudy!FiveMinutes
  <2>1. ChatStore'
    BY <1>0, <1>6 DEF Cloudy!FiveMinutes, Cloudy!settings, ChatStore
  <2>. QED  BY <1>0, <1>6, <2>1 DEF Cloudy!FiveMinutes, Cloudy!settings, CloudyTypes, ChatFlags, InTurn,
                                    InPress, InSave, Settings
<1>7. CASE Cloudy!Restart
  <2>1. ChatStore' /\ Settings'
    BY <1>0, <1>7, StoresAssumption DEF Cloudy!Restart, ChatStore, Settings
  <2>2. ChatFlags'
    BY <1>0, <1>7 DEF Cloudy!Restart, ChatFlags
  <2>3. InTurn' /\ InSave'
    BY <1>0, <1>7 DEF Cloudy!Restart, InTurn, InSave
  <2>4. InPress'
    <3>1. Cloudy!Unpressed \in Press /\ \A k \in Clicks : [click[k] EXCEPT !.step = "done"] \in Press
      BY <1>0 DEF InPress, Press, Presses, Cloudy!Unpressed
    <3>. QED  BY <1>7, <3>1 DEF Cloudy!Restart, InPress
  <2>. QED  BY <2>1, <2>2, <2>3, <2>4 DEF CloudyTypes
<1>8. CASE UNCHANGED cloudyVars
  BY <1>0, <1>8 DEF cloudyVars, CloudyTypes, ChatStore, ChatFlags, Settings, InTurn, InPress, InSave
<1>. QED  BY <1>1, <1>2, <1>3, <1>4, <1>5, <1>6, <1>7, <1>8 DEF Cloudy!Next

-----------------------------------------------------------------------------
(* Assistant: what it was allowed                                          *)

\* The number of a message is its own.
TurnsOwn ==
  \A d \in Drawers : chat[d] # Cloudy!Idle =>
    chat[d].turn <= turns /\ \A e \in Drawers \ {d} : chat[e] # Cloudy!Idle => chat[e].turn # chat[d].turn

\* A message whose writes have not been dispatched has left none.
Unread(t) == t > turns \/ \E d \in Drawers : chat[d] # Cloudy!Idle /\ chat[d].turn = t /\ chat[d].step \in Early
Held(k, t) == click[k].token = t /\ click[k].step \in {"delete", "run"}
Untouched == \A t \in Cloudy!Tokens : Unread(t) => action[t] = "none" /\ ran[t] = 0 /\ \A k \in Clicks : ~Held(k, t)

\* A proposed write is there, or one press holds it, or it has run.
OnceOnly(t) ==
  /\ \A k, l \in Clicks : Held(k, t) /\ Held(l, t) => k = l
  /\ \A k \in Clicks : Held(k, t) => ran[t] = 0 /\ (click[k].step = "run" => action[t] = "none")
  /\ ran[t] > 0 => action[t] = "none"
  /\ ran[t] <= 1
ActionsInv == TurnsOwn /\ Untouched /\ \A t \in Cloudy!Tokens \ met : OnceOnly(t)

\* A message sent after autonomous mode was ruled out is answered without it.
CalmInv ==
  /\ \A d \in Drawers : chat[d] # Cloudy!Idle /\ chat[d].calm =>
       mode # "autonomous" /\ (chat[d].step # "settings" => chat[d].mode = "suggest_only")
  /\ ~surprise

\* One save at a time writes the URL, the mode and the key.
KeyInv ==
  ~aTorn =>
    /\ \A s, o \in Saves : Cloudy!Saving(s) /\ Cloudy!Saving(o) => s = o
    /\ (\A s \in Saves : save[s].step \notin {"mode", "key"}) => aKey \in {url, Cloudy!NoKey}
    /\ \A s \in Saves : save[s].step = "url" => save[s].url = url \/ save[s].typed
    /\ \A s \in Saves : save[s].step \in {"mode", "key"} =>
         save[s].url = url /\ (save[s].typed \/ aKey \in {url, Cloudy!NoKey})

CloudyInv == CloudyTypes /\ ActionsInv /\ CalmInv /\ KeyInv

LEMMA InitCloudy == Cloudy!Init => CloudyInv
<1>. SUFFICES ASSUME Cloudy!Init PROVE CloudyInv
  OBVIOUS
<1>1. ActionsInv
  BY DEF Cloudy!Init, ActionsInv, TurnsOwn, Untouched, OnceOnly, Held, Cloudy!Unpressed
<1>2. CalmInv /\ KeyInv
  BY DEF Cloudy!Init, CalmInv, KeyInv, Cloudy!Saving, Cloudy!Unsaved
<1>. QED  BY <1>1, <1>2, InitCloudyTypes DEF CloudyInv

LEMMA Numbered ==
  ASSUME CloudyTypes
  PROVE  /\ turns \in Nat /\ Cloudy!Tokens \subseteq Nat
         /\ \A d \in Drawers : chat[d] # Cloudy!Idle => chat[d] \in Turn /\ chat[d].turn \in Cloudy!Tokens
         /\ \A t \in Cloudy!Tokens : ran[t] \in Nat
<1>1. turns \in Nat /\ Cloudy!Tokens \subseteq Nat
  <2>1. turns \in 0 .. MaxTurns /\ MaxTurns \in Nat
    BY StoresAssumption DEF CloudyTypes, ChatStore
  <2>. QED  BY <2>1 DEF Cloudy!Tokens
<1>2. ASSUME NEW d \in Drawers, chat[d] # Cloudy!Idle PROVE chat[d] \in Turn /\ chat[d].turn \in Cloudy!Tokens
  <2>1. chat[d] \in Turn
    BY <1>2 DEF CloudyTypes, InTurn
  <2>. QED  BY <2>1 DEF Turn
<1>3. \A t \in Cloudy!Tokens : ran[t] \in Nat
  BY DEF CloudyTypes, ChatStore
<1>. QED  BY <1>1, <1>2, <1>3

\* Steps that hand out no number, propose, delete and run nothing, and give no press a hold
\* of an action; a chat they leave is not one before its writes that was past them.
LEMMA ActionsUnrelated ==
  ASSUME ActionsInv, UNCHANGED <<turns, action, ran>>, met' = met,
         \A d \in Drawers : chat'[d] # Cloudy!Idle =>
           /\ chat[d] # Cloudy!Idle /\ chat'[d].turn = chat[d].turn
           /\ chat'[d].step \in Early => chat[d].step \in Early,
         \A k \in Clicks : click'[k].step \in {"delete", "run"} => click'[k] = click[k]
  PROVE  ActionsInv'
<1>1. TurnsOwn'
  BY DEF ActionsInv, TurnsOwn
<1>2. \A t : Unread(t)' => Unread(t)
  BY DEF Unread
<1>3. \A t : \A k \in Clicks : Held(k, t)' => Held(k, t) /\ click'[k] = click[k]
  BY DEF Held
<1>4. Untouched'
  BY <1>2, <1>3 DEF ActionsInv, Untouched, Cloudy!Tokens
<1>5. \A t \in Cloudy!Tokens \ met : OnceOnly(t)'
  BY <1>3 DEF ActionsInv, OnceOnly
<1>. QED  BY <1>1, <1>4, <1>5 DEF ActionsInv, Cloudy!Tokens

LEMMA DispatchActions ==
  ASSUME CloudyTypes, ActionsInv, NEW d \in Drawers, Cloudy!Dispatch(d)
  PROVE  ActionsInv'
<1>. DEFINE t == chat[d].turn
<1>1. chat[d] \in Turn /\ chat[d] # Cloudy!Idle /\ t \in Cloudy!Tokens
  BY HandleTurns, AtRest DEF Cloudy!Handle, Turn
<1>2. /\ UNCHANGED <<turns, ran, met, click>>
      /\ chat'[d].step = "results" /\ chat'[d].turn = t /\ \A e \in Drawers \ {d} : chat'[e] = chat[e]
      /\ Unread(t)
  BY <1>1 DEF Cloudy!Dispatch, Cloudy!Go, CloudyTypes, InTurn, Turn, Unread, Early
<1>3. CASE action' = action
  <2>1. \A e \in Drawers : chat'[e] # Cloudy!Idle =>
           /\ chat[e] # Cloudy!Idle /\ chat'[e].turn = chat[e].turn
           /\ chat'[e].step \in Early => chat[e].step \in Early
    BY <1>1, <1>2 DEF Early
  <2>. QED  BY <1>2, <1>3, <2>1, ActionsUnrelated
<1>4. CASE action' = [action EXCEPT ![t] = "new"]
  <2>1. TurnsOwn'
    BY <1>1, <1>2 DEF ActionsInv, TurnsOwn
  <2>2. \A u : Held(u, t)' <=> Held(u, t)
    BY <1>2 DEF Held
  <2>3. \A u : Unread(u)' => Unread(u) /\ u # t
    BY <1>1, <1>2, Numbered DEF Unread, Early, ActionsInv, TurnsOwn
  <2>4. \A u \in Cloudy!Tokens \ {t} : action'[u] = action[u]
    BY <1>1, <1>4 DEF CloudyTypes, ChatStore
  <2>5. \A u : \A k \in Clicks : Held(k, u)' <=> Held(k, u)
    BY <1>2 DEF Held
  <2>6. Untouched'
    BY <1>2, <2>3, <2>4, <2>5 DEF ActionsInv, Untouched, Cloudy!Tokens
  <2>7. ran[t] = 0 /\ \A k \in Clicks : ~Held(k, t)
    BY <1>1, <1>2 DEF ActionsInv, Untouched
  <2>8. \A u \in Cloudy!Tokens \ met : OnceOnly(u)'
    <3>1. ASSUME NEW u \in Cloudy!Tokens \ met, u # t PROVE OnceOnly(u)'
      BY <1>2, <2>4, <2>5, <3>1 DEF ActionsInv, OnceOnly
    <3>2. ASSUME NEW u \in Cloudy!Tokens, u = t PROVE OnceOnly(u)'
      <4>1. ran'[u] = 0
        BY <1>2, <2>7, <3>2
      <4>2. \A k \in Clicks : ~Held(k, u)'
        BY <2>5, <2>7, <3>2
      <4>. QED  BY <4>1, <4>2 DEF OnceOnly
    <3>. QED  BY <3>1, <3>2
  <2>. QED  BY <1>2, <2>1, <2>6, <2>8 DEF ActionsInv, Cloudy!Tokens
<1>. QED  BY <1>3, <1>4 DEF Cloudy!Dispatch

LEMMA SendActions ==
  ASSUME CloudyTypes, ActionsInv, NEW d \in Drawers, Cloudy!Send(d)
  PROVE  ActionsInv'
<1>1. /\ UNCHANGED <<action, ran, met, click>> /\ turns' = turns + 1 /\ chat[d] = Cloudy!Idle
      /\ chat'[d].turn = turns + 1 /\ \A e \in Drawers \ {d} : chat'[e] = chat[e]
  BY DEF Cloudy!Send, CloudyTypes, InTurn
<1>2. TurnsOwn'
  BY <1>1, Numbered DEF ActionsInv, TurnsOwn
<1>3. \A t \in Cloudy!Tokens : Unread(t)' => Unread(t)
  BY <1>1, Numbered DEF Unread
<1>4. \A t : \A k \in Clicks : Held(k, t)' <=> Held(k, t)
  BY <1>1 DEF Held
<1>5. Untouched'
  BY <1>1, <1>3, <1>4 DEF ActionsInv, Untouched, Cloudy!Tokens
<1>6. \A t \in Cloudy!Tokens \ met : OnceOnly(t)'
  BY <1>1, <1>4 DEF ActionsInv, OnceOnly
<1>. QED  BY <1>1, <1>2, <1>5, <1>6 DEF ActionsInv, Cloudy!Tokens

LEMMA PressActions ==
  ASSUME CloudyTypes, ActionsInv, NEW k \in Clicks,
         Cloudy!Press(k) \/ Cloudy!FindAction(k) \/ Cloudy!DeleteAction(k) \/ Cloudy!RunAction(k)
  PROVE  ActionsInv'
<1>. DEFINE t == click[k].token
<1>0. click \in [Clicks -> Press] /\ action \in [Cloudy!Tokens -> {"none", "new", "old"}] /\ ran \in [Cloudy!Tokens -> Nat]
  BY DEF CloudyTypes, InPress, ChatStore
<1>a. click[k] \in Presses /\ (click[k].step \in {"find", "delete", "run"} => t \in Cloudy!Tokens)
  BY <1>0 DEF Press
<1>1. UNCHANGED <<turns, chat>>
  BY DEF Cloudy!Press, Cloudy!FindAction, Cloudy!DeleteAction, Cloudy!RunAction
<1>2. TurnsOwn' /\ \A u : Unread(u)' <=> Unread(u)
  BY <1>1 DEF ActionsInv, TurnsOwn, Unread
<1>3. \A o \in Clicks \ {k}, u \in Cloudy!Tokens : Held(o, u)' <=> Held(o, u)
  BY <1>0 DEF Held, Cloudy!Press, Cloudy!FindAction, Cloudy!DeleteAction, Cloudy!RunAction
<1>4. CASE Cloudy!Press(k)
  <2>1. UNCHANGED <<action, ran, met>> /\ click'[k].step = "find" /\ \A o \in Clicks \ {k} : click'[o] = click[o]
    BY <1>0, <1>4 DEF Cloudy!Press
  <2>. QED  BY <1>1, <2>1, ActionsUnrelated
<1>5. ASSUME Cloudy!FindAction(k) PROVE ActionsInv'
  <2>1. ran' = ran /\ t \in Cloudy!Tokens /\ met \subseteq met' /\ click'[k].token = t
        /\ \A o \in Clicks \ {k} : click'[o] = click[o]
    BY <1>0, <1>a, <1>5 DEF Cloudy!FindAction, Presses
  <2>2. CASE action[t] # "new"
    <3>1. /\ click'[k].step = "done" /\ \A u \in Cloudy!Tokens : action'[u] = action[u] \/ action'[u] = "none"
      BY <1>0, <1>a, <1>5, <2>2 DEF Cloudy!FindAction, Presses
    <3>2. \A u : ~Held(k, u)'
      BY <3>1 DEF Held
    <3>3. Untouched'
      BY <1>2, <1>3, <2>1, <3>1, <3>2 DEF ActionsInv, Untouched, Cloudy!Tokens
    <3>4. ASSUME NEW u \in Cloudy!Tokens \ met PROVE OnceOnly(u)'
      <4>1. OnceOnly(u) /\ (action'[u] = action[u] \/ action'[u] = "none")
        BY <3>1 DEF ActionsInv
      <4>2. \A o \in Clicks : Held(o, u)' => Held(o, u) /\ click'[o] = click[o]
        BY <1>3, <2>1, <3>2
      <4>. QED  BY <2>1, <4>1, <4>2 DEF OnceOnly
    <3>. QED  BY <1>2, <2>1, <3>3, <3>4 DEF ActionsInv, Cloudy!Tokens
  <2>3. CASE action[t] = "new"
    <3>1. click'[k] = [step |-> "delete", token |-> t] /\ action' = action
      BY <1>0, <1>a, <1>5, <2>3 DEF Cloudy!FindAction, Presses
    <3>2. ~Unread(t)
      BY <2>1, <2>3 DEF ActionsInv, Untouched
    <3>3. \A u \in Cloudy!Tokens \ {t} : ~Held(k, u)'
      BY <3>1 DEF Held
    <3>4. Untouched'
      BY <1>2, <1>3, <2>1, <3>1, <3>2, <3>3 DEF ActionsInv, Untouched, Cloudy!Tokens
    <3>5. ASSUME NEW u \in Cloudy!Tokens \ met' PROVE OnceOnly(u)'
      <4>1. OnceOnly(u)
        BY <2>1 DEF ActionsInv
      <4>2. CASE u # t
        <5>1. \A o \in Clicks : Held(o, u)' => Held(o, u) /\ click'[o] = click[o]
          BY <1>3, <2>1, <3>3, <4>2
        <5>. QED  BY <2>1, <3>1, <4>1, <5>1 DEF OnceOnly
      <4>3. CASE u = t
        <5>1. \A o \in Clicks \ {k} : click[o] # [step |-> "delete", token |-> t]
          BY <1>5, <4>3 DEF Cloudy!FindAction
        <5>2. \A o \in Clicks \ {k} : click[o] \in Presses
          BY <1>0 DEF Press
        <5>3. \A o \in Clicks \ {k} : ~Held(o, t)
          <6>1. SUFFICES ASSUME NEW o \in Clicks \ {k}, Held(o, t) PROVE FALSE
            OBVIOUS
          <6>2. CASE click[o].step = "delete"
            <7>1. click[o] = [step |-> "delete", token |-> t]
              BY <5>2, <6>1, <6>2 DEF Held, Presses
            <7>. QED  BY <5>1, <7>1
          <6>3. CASE click[o].step = "run"
            BY <2>3, <4>1, <4>3, <6>1, <6>3 DEF OnceOnly
          <6>. QED  BY <6>1, <6>2, <6>3 DEF Held
        <5>4. ran[t] = 0
          BY <1>0, <2>1, <2>3, <4>1, <4>3 DEF OnceOnly
        <5>5. \A o \in Clicks \ {k} : ~Held(o, t)'
          BY <1>3, <2>1, <5>3
        <5>. QED  BY <2>1, <3>1, <4>3, <5>4, <5>5 DEF OnceOnly
      <4>. QED  BY <4>2, <4>3
    <3>. QED  BY <1>2, <3>4, <3>5 DEF ActionsInv, Cloudy!Tokens
  <2>. QED  BY <2>2, <2>3
<1>6. ASSUME Cloudy!DeleteAction(k) PROVE ActionsInv'
  <2>1. /\ UNCHANGED <<ran, met>> /\ t \in Cloudy!Tokens /\ click'[k] = [step |-> "run", token |-> t]
        /\ action' = [action EXCEPT ![t] = "none"] /\ click[k].step = "delete"
        /\ \A o \in Clicks \ {k} : click'[o] = click[o]
    BY <1>0, <1>a, <1>6 DEF Cloudy!DeleteAction, Presses
  <2>2. \A u \in Cloudy!Tokens : Held(k, u)' <=> Held(k, u)
    BY <2>1 DEF Held
  <2>3. \A u \in Cloudy!Tokens : action'[u] = action[u] \/ action'[u] = "none"
    BY <1>0, <2>1
  <2>4. Untouched'
    BY <1>2, <1>3, <2>1, <2>2, <2>3 DEF ActionsInv, Untouched, Cloudy!Tokens
  <2>5. ASSUME NEW u \in Cloudy!Tokens \ met PROVE OnceOnly(u)'
    <3>1. OnceOnly(u) /\ (action'[u] = action[u] \/ action'[u] = "none")
      BY <2>3 DEF ActionsInv
    <3>2. Held(k, u) => action'[u] = "none"
      BY <1>0, <2>1 DEF Held
    <3>3. \A o \in Clicks : Held(o, u)' <=> Held(o, u)
      BY <1>3, <2>2
    <3>. QED  BY <2>1, <3>1, <3>2, <3>3 DEF OnceOnly
  <2>. QED  BY <1>2, <2>1, <2>4, <2>5 DEF ActionsInv, Cloudy!Tokens
<1>7. ASSUME Cloudy!RunAction(k) PROVE ActionsInv'
  <2>1. /\ UNCHANGED <<action, met>> /\ t \in Cloudy!Tokens /\ click'[k].step = "done" /\ click[k].step = "run"
        /\ ran' = [ran EXCEPT ![t] = @ + 1] /\ \A o \in Clicks \ {k} : click'[o] = click[o]
    BY <1>0, <1>a, <1>7 DEF Cloudy!RunAction
  <2>2. \A u : ~Held(k, u)'
    BY <2>1 DEF Held
  <2>3. Held(k, t) /\ ~Unread(t)
    BY <2>1 DEF Held, ActionsInv, Untouched
  <2>4. \A u \in Cloudy!Tokens \ {t} : ran'[u] = ran[u]
    BY <1>0, <2>1
  <2>5. Untouched'
    BY <1>2, <1>3, <2>1, <2>2, <2>3, <2>4 DEF ActionsInv, Untouched, Cloudy!Tokens
  <2>6. ASSUME NEW u \in Cloudy!Tokens \ met PROVE OnceOnly(u)'
    <3>1. OnceOnly(u)
      BY DEF ActionsInv
    <3>2. \A o \in Clicks : Held(o, u)' => Held(o, u) /\ o # k /\ click'[o] = click[o]
      BY <1>3, <2>1, <2>2
    <3>3. CASE u # t
      BY <2>1, <2>4, <3>1, <3>2, <3>3 DEF OnceOnly
    <3>4. CASE u = t
      <4>1. ran[t] = 0 /\ action[t] = "none" /\ \A o \in Clicks \ {k} : ~Held(o, t)
        BY <2>1, <2>3, <3>1, <3>4 DEF OnceOnly
      <4>2. ran'[t] = 1
        BY <1>0, <2>1, <4>1
      <4>. QED  BY <2>1, <3>2, <3>4, <4>1, <4>2 DEF OnceOnly
    <3>. QED  BY <3>3, <3>4
  <2>. QED  BY <1>2, <2>1, <2>5, <2>6 DEF ActionsInv, Cloudy!Tokens
<1>. QED  BY <1>4, <1>5, <1>6, <1>7

LEMMA NextActions == CloudyTypes /\ ActionsInv /\ [Cloudy!Next]_cloudyVars => ActionsInv'
<1>. SUFFICES ASSUME CloudyTypes, ActionsInv, [Cloudy!Next]_cloudyVars PROVE ActionsInv'
  OBVIOUS
<1>1. ASSUME NEW d \in Drawers, Cloudy!Handle(d) PROVE ActionsInv'
  <2>1. chat[d] \in Turn /\ chat[d] # Cloudy!Idle /\ (Cloudy!Respond(d) \/ GoesOn(d))
    BY <1>1, HandleTurns, AtRest
  <2>2. \A e \in Drawers : chat'[e] # Cloudy!Idle =>
           /\ chat[e] # Cloudy!Idle /\ chat'[e].turn = chat[e].turn
           /\ chat'[e].step \in Early => chat[e].step \in Early
    BY <2>1 DEF Cloudy!Respond, GoesOn, CloudyTypes, InTurn
  <2>3. CASE Cloudy!Dispatch(d)
    BY <2>3, DispatchActions
  <2>4. CASE ~Cloudy!Dispatch(d)
    <3>1. UNCHANGED <<action, click, ran, turns, met>>
      BY <1>1, <2>4, HandleFrame DEF HandleKeeps
    <3>. QED  BY <2>2, <3>1, ActionsUnrelated
  <2>. QED  BY <2>3, <2>4
<1>2. ASSUME NEW s \in Saves, Cloudy!SaveSettings(s) \/ Cloudy!CheckSave(s) \/ Cloudy!WriteUrl(s) \/ Cloudy!WriteMode(s) \/ Cloudy!WriteKey(s)
      PROVE  ActionsInv'
  <2>1. UNCHANGED <<action, click, ran, turns, met>>
    BY <1>2 DEF Cloudy!SaveSettings, Cloudy!CheckSave, Cloudy!WriteUrl, Cloudy!WriteMode, Cloudy!WriteKey,
                Cloudy!others
  <2>2. \A d \in Drawers : chat'[d] = chat[d] \/ (chat[d] \in Turn /\ chat'[d] = [chat[d] EXCEPT !.calm = FALSE])
    BY <1>2 DEF Cloudy!SaveSettings, Cloudy!CheckSave, Cloudy!WriteUrl, Cloudy!WriteMode, Cloudy!WriteKey,
                CloudyTypes, InTurn
  <2>3. \A d \in Drawers : chat'[d] # Cloudy!Idle =>
           /\ chat[d] # Cloudy!Idle /\ chat'[d].turn = chat[d].turn /\ chat'[d].step = chat[d].step
    BY <2>2, AtRest DEF Turn
  <2>. QED  BY <2>1, <2>3, ActionsUnrelated
<1>3. ASSUME NEW d \in Drawers, Cloudy!Open(d) \/ Cloudy!Delete(d) PROVE ActionsInv'
  <2>1. UNCHANGED <<chat, action, click, ran, turns, met>>
    BY <1>3 DEF Cloudy!Open, Cloudy!Delete
  <2>. QED  BY <2>1, ActionsUnrelated
<1>4. CASE Cloudy!FiveMinutes
  <2>1. UNCHANGED <<chat, click, ran, turns, met>> /\ \A t \in Cloudy!Tokens : action[t] = "none" => action'[t] = "none"
    BY <1>4 DEF Cloudy!FiveMinutes
  <2>2. TurnsOwn' /\ \A u : (Unread(u)' <=> Unread(u)) /\ \A k \in Clicks : Held(k, u)' <=> Held(k, u)
    BY <2>1 DEF ActionsInv, TurnsOwn, Unread, Held
  <2>3. Untouched'
    BY <2>1, <2>2 DEF ActionsInv, Untouched, Cloudy!Tokens
  <2>4. \A u \in Cloudy!Tokens \ met : OnceOnly(u)'
    BY <2>1, <2>2 DEF ActionsInv, OnceOnly
  <2>. QED  BY <2>1, <2>2, <2>3, <2>4 DEF ActionsInv, Cloudy!Tokens
<1>5. CASE Cloudy!Restart
  <2>1. UNCHANGED <<action, ran, turns, met>> /\ \A d \in Drawers : chat'[d] = Cloudy!Idle
    BY <1>5 DEF Cloudy!Restart
  <2>2. \A k \in Clicks : click[k] \in Presses
    BY DEF CloudyTypes, InPress, Press
  <2>3. \A k \in Clicks : click'[k].step \in {"idle", "done"}
    BY <1>5, <2>2 DEF Cloudy!Restart, Presses, Cloudy!Unpressed
  <2>. QED  BY <2>1, <2>3, ActionsUnrelated
<1>6. CASE UNCHANGED cloudyVars
  BY <1>6, ActionsUnrelated DEF cloudyVars
<1>. QED  BY <1>1, <1>2, <1>3, <1>4, <1>5, <1>6, SendActions, PressActions DEF Cloudy!Next

LEMMA NextCalm == CloudyTypes /\ CalmInv /\ [Cloudy!Next]_cloudyVars => CalmInv'
<1>. SUFFICES ASSUME CloudyTypes, CalmInv, [Cloudy!Next]_cloudyVars PROVE CalmInv'
  OBVIOUS
<1>1. ASSUME NEW d \in Drawers, Cloudy!Handle(d) PROVE CalmInv'
  <2>1. chat[d] \in Turn /\ chat[d] # Cloudy!Idle /\ (Cloudy!Respond(d) \/ GoesOn(d)) /\ mode' = mode
    BY <1>1, HandleTurns, HandleFrame, AtRest DEF HandleKeeps
  <2>2. ~surprise'
    <3>1. CASE Cloudy!Dispatch(d)
      BY <2>1, <3>1 DEF Cloudy!Dispatch, CalmInv
    <3>. QED  BY <1>1, <3>1, HandleFrame DEF HandleKeeps, CalmInv
  <2>3. ASSUME NEW e \in Drawers, chat'[e] # Cloudy!Idle, chat'[e].calm
        PROVE  mode # "autonomous" /\ (chat'[e].step # "settings" => chat'[e].mode = "suggest_only")
    <3>1. CASE e # d
      BY <2>1, <2>3, <3>1 DEF Cloudy!Respond, GoesOn, CloudyTypes, InTurn, CalmInv
    <3>2. CASE e = d
      <4>1. PICK g \in Turn : chat'[d] = g /\ g.calm = chat[d].calm /\ g.step # "settings"
                    /\ (chat[d].step # "settings" => g.mode = chat[d].mode)
                    /\ (chat[d].step = "settings" => g.mode = mode /\ mode # "off")
        BY <2>1, <2>3, <3>2 DEF Cloudy!Respond, GoesOn, CloudyTypes, InTurn
      <4>2. mode # "autonomous" /\ (chat[d].step # "settings" => chat[d].mode = "suggest_only")
        BY <2>1, <2>3, <3>2, <4>1 DEF CalmInv
      <4>3. mode \in {"off", "suggest_only", "autonomous"}
        BY DEF CloudyTypes, Settings, Cloudy!Modes
      <4>. QED  BY <3>2, <4>1, <4>2, <4>3
    <3>. QED  BY <3>1, <3>2
  <2>. QED  BY <2>1, <2>2, <2>3 DEF CalmInv
<1>2. ASSUME NEW d \in Drawers, Cloudy!Send(d) PROVE CalmInv'
  <2>1. /\ UNCHANGED <<mode, surprise>> /\ \A e \in Drawers \ {d} : chat'[e] = chat[e]
        /\ chat'[d].step = "settings" /\ (chat'[d].calm => mode # "autonomous")
    BY <1>2 DEF Cloudy!Send, Cloudy!settings, CloudyTypes, InTurn
  <2>. QED  BY <2>1 DEF CalmInv
<1>3. ASSUME NEW s \in Saves, Cloudy!WriteMode(s) PROVE CalmInv'
  <2>1. surprise' = surprise
    BY <1>3 DEF Cloudy!WriteMode, Cloudy!others
  <2>2. CASE mode' = "autonomous"
    <3>1. \A d \in Drawers : chat'[d] # Cloudy!Idle => chat[d] \in Turn /\ chat'[d] = [chat[d] EXCEPT !.calm = FALSE]
      BY <1>3, <2>2 DEF Cloudy!WriteMode, CloudyTypes, InTurn
    <3>2. \A d \in Drawers : chat'[d] # Cloudy!Idle => chat'[d].calm = FALSE
      BY <3>1 DEF Turn
    <3>. QED  BY <2>1, <3>2 DEF CalmInv
  <2>3. CASE mode' # "autonomous"
    BY <1>3, <2>1, <2>3 DEF Cloudy!WriteMode, CalmInv
  <2>. QED  BY <2>2, <2>3
<1>4. ASSUME NEW s \in Saves, Cloudy!SaveSettings(s) \/ Cloudy!CheckSave(s) \/ Cloudy!WriteUrl(s) \/ Cloudy!WriteKey(s) PROVE CalmInv'
  BY <1>4 DEF Cloudy!SaveSettings, Cloudy!CheckSave, Cloudy!WriteUrl, Cloudy!WriteKey, Cloudy!others, CalmInv
<1>5. ASSUME NEW d \in Drawers, Cloudy!Open(d) \/ Cloudy!Delete(d) PROVE CalmInv'
  BY <1>5 DEF Cloudy!Open, Cloudy!Delete, Cloudy!settings, CalmInv
<1>6. ASSUME NEW k \in Clicks, Cloudy!Press(k) \/ Cloudy!FindAction(k) \/ Cloudy!DeleteAction(k) \/ Cloudy!RunAction(k) PROVE CalmInv'
  BY <1>6 DEF Cloudy!Press, Cloudy!FindAction, Cloudy!DeleteAction, Cloudy!RunAction, Cloudy!settings, CalmInv
<1>7. CASE Cloudy!FiveMinutes \/ Cloudy!Restart \/ UNCHANGED cloudyVars
  BY <1>7 DEF Cloudy!FiveMinutes, Cloudy!Restart, cloudyVars, Cloudy!settings, CalmInv
<1>. QED  BY <1>1, <1>2, <1>3, <1>4, <1>5, <1>6, <1>7 DEF Cloudy!Next

LEMMA NextKey == CloudyTypes /\ KeyInv /\ [Cloudy!Next]_cloudyVars => KeyInv'
<1>. SUFFICES ASSUME CloudyTypes, KeyInv, [Cloudy!Next]_cloudyVars, ~aTorn' PROVE KeyInv'
  BY DEF KeyInv
<1>0. save \in [Saves -> {Cloudy!Unsaved, Cloudy!Saved} \cup Request]
  BY DEF CloudyTypes, InSave
<1>a. \A s \in Saves : Cloudy!Saving(s) <=> save[s].step \in {"check", "url", "mode", "key"}
  BY InRequest
<1>1. CASE UNCHANGED <<url, aKey, save, aTorn>>
  BY <1>1 DEF KeyInv, Cloudy!Saving
<1>2. ASSUME NEW s \in Saves, Cloudy!SaveSettings(s) PROVE KeyInv'
  <2>1. ~aTorn /\ UNCHANGED <<url, aKey>> /\ \A o \in Saves : ~Cloudy!Saving(o)
    BY <1>2 DEF Cloudy!SaveSettings
  <2>2. save'[s].step = "check" /\ \A o \in Saves \ {s} : save'[o] = save[o]
    BY <1>0, <1>2 DEF Cloudy!SaveSettings
  <2>3. \A o \in Saves \ {s} : ~Cloudy!Saving(o)'
    BY <2>1, <2>2 DEF Cloudy!Saving
  <2>4. \A o \in Saves : save'[o].step \in {"url", "mode", "key"} => FALSE
    BY <1>a, <2>1, <2>2
  <2>5. \A o \in Saves : save[o].step \notin {"mode", "key"}
    BY <1>a, <2>1
  <2>. QED  BY <2>1, <2>3, <2>4, <2>5 DEF KeyInv
<1>3. ASSUME NEW s \in Saves, Cloudy!CheckSave(s) \/ Cloudy!WriteUrl(s) \/ Cloudy!WriteMode(s) \/ Cloudy!WriteKey(s) PROVE KeyInv'
  <2>1. ~aTorn /\ save[s] \in Request /\ Cloudy!Saving(s)
    BY <1>3, <1>a, InRequest DEF Cloudy!CheckSave, Cloudy!WriteUrl, Cloudy!WriteMode, Cloudy!WriteKey
  <2>2. \A o \in Saves \ {s} : ~Cloudy!Saving(o)
    BY <2>1 DEF KeyInv
  <2>3. \A o \in Saves \ {s} : save'[o] = save[o]
    BY <1>0, <1>3 DEF Cloudy!CheckSave, Cloudy!WriteUrl, Cloudy!WriteMode, Cloudy!WriteKey
  <2>4. \A o \in Saves \ {s} : ~Cloudy!Saving(o)' /\ save'[o].step \notin {"check", "url", "mode", "key"}
    BY <1>a, <2>2, <2>3 DEF Cloudy!Saving
  <2>5. (\A o \in Saves : save'[o].step \notin {"mode", "key"}) <=> save'[s].step \notin {"mode", "key"}
    BY <2>4
  <2>6. (\A o \in Saves : save[o].step \notin {"mode", "key"}) <=> save[s].step \notin {"mode", "key"}
    BY <1>a, <2>2
  <2>7. CASE Cloudy!CheckSave(s)
    <3>1. /\ UNCHANGED <<url, aKey>> /\ aKey \in {url, Cloudy!NoKey}
          /\ \/ save'[s].step = "done"
             \/ save'[s].step = "url" /\ (save'[s].url = url \/ save'[s].typed)
      BY <1>0, <2>1, <2>6, <2>7 DEF Cloudy!CheckSave, Cloudy!Saved, KeyInv, Request
    <3>. QED  BY <2>4, <2>5, <3>1 DEF KeyInv
  <2>8. CASE Cloudy!WriteUrl(s)
    <3>1. /\ aKey' = aKey /\ aKey \in {url, Cloudy!NoKey} /\ url' = save[s].url
          /\ save'[s].step = "mode" /\ save'[s].url = save[s].url /\ save'[s].typed = save[s].typed
          /\ save[s].url = url \/ save[s].typed
      BY <1>0, <2>1, <2>6, <2>8 DEF Cloudy!WriteUrl, KeyInv, Request
    <3>. QED  BY <2>4, <2>5, <3>1 DEF KeyInv
  <2>9. CASE Cloudy!WriteMode(s)
    <3>1. /\ UNCHANGED <<url, aKey>> /\ save[s].url = url /\ (save[s].typed \/ aKey \in {url, Cloudy!NoKey})
          /\ save'[s].step = "key" /\ save'[s].url = save[s].url /\ save'[s].typed = save[s].typed
      BY <1>0, <2>1, <2>9 DEF Cloudy!WriteMode, Cloudy!others, KeyInv, Request
    <3>. QED  BY <2>4, <2>5, <3>1 DEF KeyInv
  <2>10. CASE Cloudy!WriteKey(s)
    <3>1. url' = url /\ aKey' \in {url, Cloudy!NoKey} /\ save'[s].step = "done"
      BY <1>0, <2>1, <2>10 DEF Cloudy!WriteKey, Cloudy!Saved, KeyInv
    <3>. QED  BY <2>4, <3>1 DEF KeyInv
  <2>. QED  BY <1>3, <2>7, <2>8, <2>9, <2>10
<1>4. CASE Cloudy!Restart
  <2>1. ~aTorn /\ UNCHANGED <<url, aKey>> /\ \A s \in Saves : save[s].step \notin {"mode", "key"}
    BY <1>4 DEF Cloudy!Restart
  <2>2. \A s \in Saves : save'[s] = Cloudy!Saved \/ (save'[s] = save[s] /\ ~Cloudy!Saving(s))
    BY <1>4 DEF Cloudy!Restart
  <2>3. \A s \in Saves : save'[s].step \notin {"check", "url", "mode", "key"} /\ ~Cloudy!Saving(s)'
    BY <1>a, <2>2 DEF Cloudy!Saved, Cloudy!Saving
  <2>. QED  BY <2>1, <2>3 DEF KeyInv
<1>5. ASSUME NEW d \in Drawers, Cloudy!Handle(d) PROVE UNCHANGED <<url, aKey, save, aTorn>>
  BY <1>5, HandleFrame DEF HandleKeeps
<1>6. CASE UNCHANGED cloudyVars
  BY <1>1, <1>6 DEF cloudyVars
<1>. QED
  BY <1>1, <1>2, <1>3, <1>4, <1>5, <1>6
  DEF Cloudy!Next, Cloudy!Send, Cloudy!Open, Cloudy!Delete, Cloudy!Press, Cloudy!FindAction,
      Cloudy!DeleteAction, Cloudy!RunAction, Cloudy!FiveMinutes, Cloudy!settings

LEMMA NextCloudy == CloudyInv /\ [Cloudy!Next]_cloudyVars => CloudyInv'
BY NextCloudyTypes, NextActions, NextCalm, NextKey DEF CloudyInv

LEMMA CloudyObeys == CloudyInv => Cloudy!AsAllowed
<1>. SUFFICES ASSUME CloudyInv PROVE Cloudy!AsAllowed
  OBVIOUS
<1>1. Cloudy!ConfirmedOnce
  BY DEF CloudyInv, ActionsInv, OnceOnly, Cloudy!ConfirmedOnce
<1>2. Cloudy!KeyForItsUrl
  BY InRequest DEF CloudyInv, KeyInv, Cloudy!KeyForItsUrl
<1>. QED  BY <1>1, <1>2 DEF CloudyInv, CalmInv, Cloudy!AsAllowed

-----------------------------------------------------------------------------
(* The data directory                                                      *)

\* The recovery UI serves one request at a time, from snapshots that are whole.
RecoveryInv ==
  /\ rec.op # "idle" => backend = "asleep"
  /\ rec.op = "copy" => db = Data!NoDb
  /\ rec.op = "log" => db = chosen
  /\ rec.op \in {"copy", "log"} => chosen \in snaps
  /\ torn \in snaps \cup {Data!NoDb}
  /\ torn # Data!NoDb /\ rec.op \notin {"copy", "log"} => chosen = Data!NoDb
  /\ \A s \in snaps : s.part = FALSE

\* A database that is there has a line, and there is one from the migrations on; then the
\* log is its own.
LinesInv ==
  /\ \A s \in snaps : s.line # 0
  /\ db = Data!NoDb \/ db.line # 0
  /\ backend \in {"migrate", "mark", "check", "up"} => db # Data!NoDb
  /\ backend \in {"mark", "check", "up"} => wal = Data!NoLog \/ wal.line = db.line

\* Whatever a database is sealed with is on the volume.
SealsInv ==
  /\ backend = "up" => db.key = key
  /\ \A d \in archive.dbs \cup snaps \cup {db} : d.key \in {0, key} \cup archive.keys

\* Database and log are one state of one line, and the one that was chosen, save between
\* the copy of a restored database and the removal of the old log.
ServedInv ==
  torn = Data!NoDb =>
    /\ rec.op # "log" /\ db # Data!NoDb => Data!Whole
    /\ chosen # Data!NoDb /\ rec.op \notin {"copy", "log"} =>
         db # Data!NoDb /\ db.line = chosen.line /\ Data!Latest = chosen.n

DataInv ==
  /\ Data!TypeOK /\ RecoveryInv
  /\ ~overwritten => LinesInv /\ SealsInv /\ ServedInv

LEMMA DataBounds == MaxKeys \in Nat /\ MaxLines \in Nat /\ MaxCommits \in Nat /\ MaxDeaths \in Nat
BY StoresAssumption, KeyNumbers

\* What closing a connection, committing, sealing and tearing make of a database.
LEMMA Remade ==
  ASSUME NEW d \in Data!Databases
  PROVE  /\ \A n \in 0 .. MaxCommits :
              /\ [d EXCEPT !.n = n] \in Data!Databases
              /\ [d EXCEPT !.n = n].line = d.line /\ [d EXCEPT !.n = n].n = n
              /\ [d EXCEPT !.n = n].key = d.key /\ [d EXCEPT !.n = n].part = d.part
         /\ \A k \in 0 .. MaxKeys :
              /\ [d EXCEPT !.key = k] \in Data!Databases
              /\ [d EXCEPT !.key = k].line = d.line /\ [d EXCEPT !.key = k].n = d.n
              /\ [d EXCEPT !.key = k].key = k /\ [d EXCEPT !.key = k].part = d.part
         /\ [d EXCEPT !.part = TRUE] \in Data!Databases
         /\ [d EXCEPT !.part = TRUE].line = d.line /\ [d EXCEPT !.part = TRUE].n = d.n
         /\ [d EXCEPT !.part = TRUE].key = d.key
BY DEF Data!Databases

LEMMA SomeNumbers ==
  /\ Data!NoDb \in Data!Databases /\ Data!NoLog \in Data!Logs
  /\ Data!NoDb.line = 0 /\ Data!NoDb.key = 0 /\ Data!NoDb.part = FALSE
  /\ Data!TypeOK => /\ Data!Latest \in 0 .. MaxCommits
                 /\ db.line \in 0 .. MaxLines /\ db.n \in 0 .. MaxCommits /\ db.key \in 0 .. MaxKeys
                 /\ wal.line \in 0 .. MaxLines /\ wal.from \in 0 .. MaxCommits /\ wal.to \in 0 .. MaxCommits
<1>1. Data!NoDb \in Data!Databases /\ Data!NoLog \in Data!Logs
  BY DataBounds DEF Data!NoDb, Data!NoLog, Data!Databases, Data!Logs
<1>2. Data!NoDb.line = 0 /\ Data!NoDb.key = 0 /\ Data!NoDb.part = FALSE
  BY DEF Data!NoDb
<1>3. Data!TypeOK => /\ Data!Latest \in 0 .. MaxCommits
                 /\ db.line \in 0 .. MaxLines /\ db.n \in 0 .. MaxCommits /\ db.key \in 0 .. MaxKeys
                 /\ wal.line \in 0 .. MaxLines /\ wal.from \in 0 .. MaxCommits /\ wal.to \in 0 .. MaxCommits
  BY DEF Data!TypeOK, Data!Latest, Data!Databases, Data!Logs
<1>. QED  BY <1>1, <1>2, <1>3

LEMMA InitData == Data!Init => DataInv
<1>. SUFFICES ASSUME Data!Init PROVE DataInv
  OBVIOUS
<1>1. Data!TypeOK
  <2>1. /\ db \in Data!Databases /\ wal \in Data!Logs /\ snaps \subseteq Data!Databases
        /\ chosen \in Data!Databases /\ torn \in Data!Databases
    BY SomeNumbers DEF Data!Init
  <2>2. cgbk \in [db : Data!Databases, wal : Data!Logs, key : 0 .. MaxKeys]
    BY DataBounds, SomeNumbers DEF Data!Init, Data!NoBackup
  <2>3. archive \in [dbs : SUBSET Data!Databases, keys : SUBSET (1 .. MaxKeys)]
    BY DEF Data!Init
  <2>4. key \in 0 .. MaxKeys /\ keys \in 0 .. MaxKeys /\ lines \in 0 .. MaxLines /\ deaths \in 0 .. MaxDeaths
    BY DataBounds DEF Data!Init
  <2>. QED  BY <2>1, <2>2, <2>3, <2>4 DEF Data!Init, Data!TypeOK, Data!Booting
<1>2. RecoveryInv /\ LinesInv /\ SealsInv
  BY DEF Data!Init, RecoveryInv, LinesInv, SealsInv, Data!NoDb
<1>3. ServedInv
  BY DEF Data!Init, ServedInv
<1>. QED  BY <1>1, <1>2, <1>3 DEF DataInv

LEMMA ServedKept == ASSUME ServedInv, UNCHANGED <<db, wal, rec, chosen, torn>> PROVE ServedInv'
BY DEF ServedInv, Data!Whole, Data!Latest

\* The start of the container, up to the backend at work.
LEMMA StartsUp ==
  ASSUME DataInv, Data!EnsureSecret \/ Data!InitDb \/ Data!Migrate \/ Data!WriteMarker \/ Data!VerifyKeyOrSeed
  PROVE  DataInv'
<1>0. Data!TypeOK /\ RecoveryInv /\ (~overwritten => LinesInv /\ SealsInv /\ ServedInv) /\ overwritten' = overwritten
  BY DEF DataInv, Data!EnsureSecret, Data!InitDb, Data!Migrate, Data!WriteMarker, Data!VerifyKeyOrSeed,
         Data!history
<1>1. /\ backend # "asleep" /\ rec.op = "idle" /\ rec' = rec
      /\ UNCHANGED <<snaps, archive, cgbk, stream, deaths, chosen>>
      /\ torn' = IF Data!InitDb /\ db = Data!NoDb THEN Data!NoDb ELSE torn
  BY <1>0 DEF RecoveryInv, Data!EnsureSecret, Data!InitDb, Data!Migrate, Data!WriteMarker,
              Data!VerifyKeyOrSeed, Data!history
<1>2. RecoveryInv'
  BY <1>0, <1>1 DEF RecoveryInv
<1>3. CASE Data!EnsureSecret
  <2>1. key' \in 0 .. MaxKeys /\ keys' \in 0 .. MaxKeys /\ (key # 0 => key' = key)
    BY <1>0, <1>3, DataBounds DEF Data!EnsureSecret, Data!TypeOK
  <2>2. Data!TypeOK'
    BY <1>0, <1>1, <1>3, <2>1 DEF Data!EnsureSecret, Data!TypeOK, Data!Booting
  <2>3. ASSUME ~overwritten PROVE (LinesInv /\ SealsInv)'
    BY <1>0, <1>3, <2>1, <2>3 DEF Data!EnsureSecret, LinesInv, SealsInv
  <2>4. ASSUME ~overwritten PROVE ServedInv'
    <3>1. UNCHANGED <<db, wal, rec, chosen, torn>>
      BY <1>3 DEF Data!EnsureSecret, Data!history
    <3>. QED  BY <1>0, <2>4, <3>1, ServedKept
  <2>. QED  BY <1>0, <1>2, <2>2, <2>3, <2>4 DEF DataInv
<1>4. CASE Data!InitDb
  <2>1. CASE db # Data!NoDb
    <3>1. UNCHANGED <<db, wal, lines, key, complete, outcome, front, keys, torn>> /\ backend' = "migrate"
      BY <1>4, <2>1 DEF Data!InitDb
    <3>2. Data!TypeOK'
      BY <1>0, <1>1, <3>1 DEF Data!TypeOK, Data!Booting
    <3>3. ASSUME ~overwritten PROVE (LinesInv /\ SealsInv)'
      BY <1>0, <1>1, <2>1, <3>1, <3>3 DEF LinesInv, SealsInv
    <3>4. ASSUME ~overwritten PROVE ServedInv'
      BY <1>0, <1>1, <3>1, <3>4, ServedKept
    <3>. QED  BY <1>0, <1>2, <3>2, <3>3, <3>4 DEF DataInv
  <2>2. CASE db = Data!NoDb
    <3>1. /\ lines' = lines + 1 /\ lines' \in 0 .. MaxLines /\ lines + 1 # 0
          /\ db' = [line |-> lines + 1, n |-> 0, key |-> 0, part |-> FALSE] /\ wal' = Data!NoLog
          /\ torn' = Data!NoDb
          /\ UNCHANGED <<key, complete, outcome, front, keys>> /\ backend' = "migrate"
      BY <1>0, <1>4, <2>2, DataBounds DEF Data!InitDb, Data!TypeOK
    <3>2. db' \in Data!Databases /\ db'.line # 0 /\ db'.key = 0 /\ db'.part = FALSE /\ db' # Data!NoDb
      BY <3>1, DataBounds, SomeNumbers DEF Data!Databases
    <3>3. Data!TypeOK'
      BY <1>0, <1>1, <3>1, <3>2, SomeNumbers DEF Data!TypeOK, Data!Booting
    <3>4. ASSUME ~overwritten PROVE (LinesInv /\ SealsInv)'
      BY <1>0, <1>1, <3>1, <3>2, <3>4 DEF LinesInv, SealsInv
    <3>5. ASSUME ~overwritten PROVE ServedInv'
      <4>1. chosen = Data!NoDb
        BY <1>0, <1>1, <2>2, <3>5 DEF ServedInv, RecoveryInv
      <4>. QED  BY <1>1, <3>1, <3>2, <4>1 DEF ServedInv, Data!Whole
    <3>. QED  BY <1>0, <1>2, <3>3, <3>4, <3>5 DEF DataInv
  <2>. QED  BY <2>1, <2>2
<1>5. CASE Data!Migrate
  <2>1. CASE Data!Finalize(FALSE) /\ UNCHANGED <<db, wal>>
    <3>1. UNCHANGED <<db, wal, key, complete, keys, lines>> /\ backend' = "asleep" /\ front' = "recovery" /\ outcome' = "fail"
      BY <1>5, <2>1 DEF Data!Migrate, Data!Finalize
    <3>2. Data!TypeOK'
      BY <1>0, <1>1, <3>1 DEF Data!TypeOK
    <3>3. ASSUME ~overwritten PROVE (LinesInv /\ SealsInv)'
      BY <1>0, <1>1, <3>1, <3>3 DEF LinesInv, SealsInv
    <3>4. ASSUME ~overwritten PROVE ServedInv'
      <4>1. torn' = torn
        BY <1>5 DEF Data!Migrate, Data!history
      <4>. QED  BY <1>0, <1>1, <3>1, <3>4, <4>1, ServedKept
    <3>. QED  BY <1>0, <1>2, <3>2, <3>3, <3>4 DEF DataInv
  <2>2. CASE db' = Data!Settled /\ wal' = Data!NoLog /\ backend' = "mark" /\ UNCHANGED <<outcome, front>>
    <3>1. UNCHANGED <<key, complete, keys, lines>> /\ backend = "migrate"
      BY <1>5 DEF Data!Migrate
    <3>2. /\ db' \in Data!Databases /\ db'.line = db.line /\ db'.key = db.key
          /\ Data!Whole => db'.part = FALSE /\ db'.n = Data!Latest
      BY <1>0, <2>2, Remade, SomeNumbers DEF Data!Settled, Data!TypeOK, Data!Whole
    <3>3. Data!TypeOK'
      BY <1>0, <1>1, <2>2, <3>1, <3>2, SomeNumbers DEF Data!TypeOK, Data!Booting
    <3>4. ASSUME ~overwritten PROVE (LinesInv /\ SealsInv)'
      <4>1. db # Data!NoDb /\ db.line # 0
        BY <1>0, <3>1, <3>4 DEF LinesInv
      <4>2. db' # Data!NoDb /\ db'.line # 0
        BY <3>2, <4>1, SomeNumbers
      <4>. QED  BY <1>0, <1>1, <2>2, <3>1, <3>2, <3>4, <4>2 DEF LinesInv, SealsInv
    <3>5. ASSUME ~overwritten PROVE ServedInv'
      <4>1. db # Data!NoDb /\ db.line # 0
        BY <1>0, <3>1, <3>5 DEF LinesInv
      <4>2. db' # Data!NoDb
        BY <3>2, <4>1, SomeNumbers
      <4>0. torn' = torn
        BY <1>5 DEF Data!Migrate, Data!history
      <4>3. SUFFICES ASSUME torn = Data!NoDb PROVE ServedInv'
        BY <4>0 DEF ServedInv
      <4>4. Data!Whole
        BY <1>0, <1>1, <3>5, <4>1, <4>3 DEF ServedInv
      <4>5. Data!Whole' /\ Data!Latest' = Data!Latest
        BY <2>2, <3>2, <4>4 DEF Data!Whole, Data!Latest
      <4>. QED  BY <1>0, <1>1, <3>2, <3>5, <4>2, <4>3, <4>5 DEF ServedInv
    <3>. QED  BY <1>0, <1>2, <3>3, <3>4, <3>5 DEF DataInv
  <2>. QED  BY <1>5, <2>1, <2>2 DEF Data!Migrate
<1>6. CASE Data!WriteMarker
  <2>1. /\ UNCHANGED <<db, wal, key, keys, lines>> /\ backend = "mark" /\ backend' = "check"
        /\ complete' = TRUE /\ outcome' = "ok" /\ front' = "panel"
    BY <1>6 DEF Data!WriteMarker, Data!Finalize
  <2>2. Data!TypeOK'
    BY <1>0, <1>1, <2>1 DEF Data!TypeOK
  <2>3. ASSUME ~overwritten PROVE (LinesInv /\ SealsInv)'
    BY <1>0, <1>1, <2>1, <2>3 DEF LinesInv, SealsInv
  <2>4. ASSUME ~overwritten PROVE ServedInv'
    <3>1. torn' = torn
      BY <1>6 DEF Data!WriteMarker, Data!history
    <3>. QED  BY <1>0, <1>1, <2>1, <2>4, <3>1, ServedKept
  <2>. QED  BY <1>0, <1>2, <2>2, <2>3, <2>4 DEF DataInv
<1>7. CASE Data!VerifyKeyOrSeed
  <2>1. /\ UNCHANGED <<wal, key, complete, outcome, front, keys, lines>> /\ backend = "check"
        /\ backend' = IF db.key \in {0, key} THEN "up" ELSE "refused"
        /\ db' = IF db.key = 0 THEN [db EXCEPT !.key = key] ELSE db
    BY <1>7 DEF Data!VerifyKeyOrSeed
  <2>2. /\ db' \in Data!Databases /\ db'.line = db.line /\ db'.n = db.n /\ db'.part = db.part
        /\ db'.key = IF db.key = 0 THEN key ELSE db.key
    <3>1. db \in Data!Databases /\ key \in 0 .. MaxKeys
      BY <1>0 DEF Data!TypeOK
    <3>2. CASE db.key = 0
      <4>1. db' = [db EXCEPT !.key = key]
        BY <2>1, <3>2
      <4>2. /\ [db EXCEPT !.key = key] \in Data!Databases
            /\ [db EXCEPT !.key = key].line = db.line /\ [db EXCEPT !.key = key].n = db.n
            /\ [db EXCEPT !.key = key].key = key /\ [db EXCEPT !.key = key].part = db.part
        BY <3>1, Remade
      <4>. QED  BY <3>2, <4>1, <4>2
    <3>3. CASE db.key # 0
      BY <2>1, <3>1, <3>3
    <3>. QED  BY <3>2, <3>3
  <2>3. Data!TypeOK'
    BY <1>0, <1>1, <2>1, <2>2 DEF Data!TypeOK
  <2>4. ASSUME ~overwritten PROVE (LinesInv /\ SealsInv)'
    <3>1. db # Data!NoDb /\ db.line # 0
      BY <1>0, <2>1, <2>4 DEF LinesInv
    <3>2. db' # Data!NoDb
      BY <2>2, <3>1, SomeNumbers
    <3>3. LinesInv'
      BY <1>0, <1>1, <2>1, <2>2, <2>4, <3>1, <3>2 DEF LinesInv
    <3>4. SealsInv'
      BY <1>0, <1>1, <2>1, <2>2, <2>4 DEF SealsInv
    <3>. QED  BY <3>3, <3>4
  <2>5. ASSUME ~overwritten PROVE ServedInv'
    <3>1. db # Data!NoDb /\ db.line # 0
      BY <1>0, <2>1, <2>5 DEF LinesInv
    <3>2. db' # Data!NoDb
      BY <2>2, <3>1, SomeNumbers
    <3>3. (Data!Whole' <=> Data!Whole) /\ Data!Latest' = Data!Latest
      BY <2>1, <2>2 DEF Data!Whole, Data!Latest
    <3>. QED  BY <1>0, <1>1, <2>2, <2>5, <3>1, <3>2, <3>3 DEF ServedInv
  <2>. QED  BY <1>0, <1>2, <2>3, <2>4, <2>5 DEF DataInv
<1>. QED  BY <1>3, <1>4, <1>5, <1>6, <1>7

\* The backend at work: its commits, checkpoints, snapshots and backups.
LEMMA AtWork ==
  ASSUME DataInv, Data!Commit \/ Data!Checkpoint \/ Data!Snapshot \/ Data!Backup \/ Data!RestoreOver
  PROVE  DataInv'
<1>0. Data!TypeOK /\ RecoveryInv /\ (~overwritten => LinesInv /\ SealsInv /\ ServedInv)
  BY DEF DataInv
<1>1. /\ backend = "up" /\ rec.op = "idle"
      /\ UNCHANGED <<outcome, archive, backend, front, rec, keys, lines, deaths, torn>>
  BY <1>0 DEF RecoveryInv, Data!Commit, Data!Checkpoint, Data!Snapshot, Data!Backup, Data!RestoreOver,
              Data!files, Data!service, Data!history
<1>2. ASSUME ~overwritten PROVE db # Data!NoDb /\ db.line # 0 /\ db.key = key /\ (wal = Data!NoLog \/ wal.line = db.line)
  BY <1>0, <1>1, <1>2 DEF LinesInv, SealsInv
<1>3. CASE Data!Commit
  <2>1. /\ ~overwritten /\ UNCHANGED <<db, snaps, key, complete, cgbk, stream, overwritten>> /\ chosen' = Data!NoDb
        /\ wal' = IF wal = Data!NoLog THEN [line |-> db.line, from |-> db.n, to |-> db.n + 1] ELSE [wal EXCEPT !.to = @ + 1]
    BY <1>3 DEF Data!Commit
  <2>2. Data!Latest < MaxCommits /\ (wal = Data!NoLog \/ wal.line = db.line)
    BY <1>2, <1>3, <2>1 DEF Data!Commit
  <2>3. /\ wal' \in Data!Logs /\ wal'.line = db.line /\ wal'.from = (IF wal = Data!NoLog THEN db.n ELSE wal.from)
    <3>1. CASE wal = Data!NoLog
      <4>1. db.n + 1 \in 0 .. MaxCommits /\ db.line \in 0 .. MaxLines /\ db.n \in 0 .. MaxCommits
        BY <1>0, <2>2, <3>1, SomeNumbers, DataBounds DEF Data!Latest
      <4>. QED  BY <2>1, <3>1, <4>1 DEF Data!Logs
    <3>2. CASE wal # Data!NoLog
      <4>1. wal.to + 1 \in 0 .. MaxCommits /\ wal \in Data!Logs /\ wal.line = db.line
        BY <1>0, <2>2, <3>2, SomeNumbers, DataBounds DEF Data!Latest, Data!TypeOK
      <4>. QED  BY <2>1, <3>2, <4>1 DEF Data!Logs
    <3>. QED  BY <3>1, <3>2
  <2>4. Data!TypeOK'
    BY <1>0, <1>1, <2>1, <2>3, SomeNumbers DEF Data!TypeOK
  <2>5. RecoveryInv'
    BY <1>0, <1>1, <2>1 DEF RecoveryInv
  <2>6. (LinesInv /\ SealsInv)'
    BY <1>0, <1>1, <2>1, <2>3 DEF LinesInv, SealsInv
  <2>7. ASSUME torn = Data!NoDb PROVE Data!Whole'
    <3>1. Data!Whole /\ db.n \in 0 .. MaxCommits
      BY <1>0, <1>1, <1>2, <2>1, <2>7, SomeNumbers DEF ServedInv
    <3>. QED  BY <2>1, <2>3, <3>1, DataBounds DEF Data!Whole
  <2>. QED  BY <1>1, <2>1, <2>4, <2>5, <2>6, <2>7 DEF DataInv, ServedInv
<1>4. CASE Data!Checkpoint
  <2>1. /\ ~overwritten /\ UNCHANGED <<snaps, key, complete, cgbk, stream, chosen, overwritten>>
        /\ wal # Data!NoLog /\ wal.to > db.n /\ db' = [db EXCEPT !.n = wal.to] /\ wal' = [wal EXCEPT !.from = wal.to]
    BY <1>4 DEF Data!Checkpoint, Data!history
  <2>2. wal \in Data!Logs /\ db \in Data!Databases /\ wal.line = db.line /\ wal.to \in 0 .. MaxCommits /\ db.line # 0
    BY <1>0, <1>2, <2>1, SomeNumbers DEF Data!TypeOK
  <2>3. /\ db' \in Data!Databases /\ db'.line = db.line /\ db'.n = wal.to /\ db'.key = db.key /\ db'.part = db.part
    BY <2>1, <2>2, Remade
  <2>4. wal' \in Data!Logs /\ wal'.line = wal.line /\ wal'.from = wal.to /\ wal'.to = wal.to
    BY <2>1, <2>2 DEF Data!Logs
  <2>5. db' # Data!NoDb /\ wal' # Data!NoLog
    <3>1. Data!NoLog.line = 0
      BY DEF Data!NoLog
    <3>. QED  BY <2>2, <2>3, <2>4, <3>1, SomeNumbers
  <2>6. Data!TypeOK'
    BY <1>0, <1>1, <2>1, <2>3, <2>4 DEF Data!TypeOK
  <2>7. RecoveryInv'
    BY <1>0, <1>1, <2>1 DEF RecoveryInv
  <2>8. (LinesInv /\ SealsInv)'
    BY <1>0, <1>1, <2>1, <2>2, <2>3, <2>4, <2>5 DEF LinesInv, SealsInv
  <2>9. Data!Latest' = Data!Latest /\ (Data!Whole => Data!Whole')
    <3>1. Data!Latest = wal.to /\ Data!Latest' = wal.to
      BY <2>1, <2>2, <2>3, <2>4, <2>5 DEF Data!Latest
    <3>2. Data!Whole => Data!Whole'
      BY <2>2, <2>3, <2>4 DEF Data!Whole
    <3>. QED  BY <3>1, <3>2
  <2>10. ServedInv'
    BY <1>0, <1>1, <1>2, <2>1, <2>3, <2>5, <2>9 DEF ServedInv
  <2>. QED  BY <2>6, <2>7, <2>8, <2>10 DEF DataInv
<1>5. CASE Data!Snapshot
  <2>. DEFINE s == [db EXCEPT !.n = Data!Latest]
  <2>1. /\ ~overwritten /\ UNCHANGED <<db, wal, key, complete, cgbk, stream, chosen, overwritten>>
        /\ snaps' = snaps \union {s} /\ Data!Whole
    BY <1>5 DEF Data!Snapshot, Data!history
  <2>2. s \in Data!Databases /\ s.line = db.line /\ s.key = db.key /\ s.part = db.part
    <3>1. db \in Data!Databases /\ Data!Latest \in 0 .. MaxCommits
      BY <1>0, SomeNumbers DEF Data!TypeOK
    <3>. QED  BY <3>1, Remade
  <2>. HIDE DEF s
  <2>3. Data!TypeOK'
    BY <1>0, <1>1, <2>1, <2>2 DEF Data!TypeOK
  <2>4. RecoveryInv'
    BY <1>0, <1>1, <2>1, <2>2 DEF RecoveryInv, Data!Whole
  <2>5. (LinesInv /\ SealsInv)'
    BY <1>0, <1>1, <1>2, <2>1, <2>2 DEF LinesInv, SealsInv
  <2>6. ServedInv'
    BY <1>0, <1>1, <2>1 DEF ServedInv, Data!Whole, Data!Latest
  <2>. QED  BY <2>3, <2>4, <2>5, <2>6 DEF DataInv
<1>6. CASE Data!Backup
  <2>1. /\ ~overwritten /\ UNCHANGED <<db, wal, snaps, key, complete, chosen, overwritten>>
        /\ stream' \in {"idle", "log", "secrets"}
    BY <1>6 DEF Data!Backup, Data!files, Data!history
  <2>2. cgbk' \in [db : Data!Databases, wal : Data!Logs, key : 0 .. MaxKeys]
    BY <1>0, <1>6, SomeNumbers DEF Data!Backup, Data!TypeOK
  <2>3. Data!TypeOK'
    BY <1>0, <1>1, <2>1, <2>2 DEF Data!TypeOK
  <2>4. RecoveryInv'
    BY <1>0, <1>1, <2>1 DEF RecoveryInv
  <2>5. (LinesInv /\ SealsInv)'
    BY <1>0, <1>1, <2>1 DEF LinesInv, SealsInv
  <2>6. ServedInv'
    BY <1>0, <1>1, <2>1 DEF ServedInv, Data!Whole, Data!Latest
  <2>. QED  BY <2>3, <2>4, <2>5, <2>6 DEF DataInv
<1>7. CASE Data!RestoreOver
  <2>1. UNCHANGED <<snaps, cgbk>> /\ overwritten' = TRUE /\ chosen' = Data!NoDb
    BY <1>7 DEF Data!RestoreOver
  <2>2. db' \in Data!Databases /\ wal' \in Data!Logs /\ key' \in 0 .. MaxKeys
    BY <1>0, <1>7 DEF Data!RestoreOver, Data!TypeOK
  <2>3. complete' \in BOOLEAN /\ stream' \in {"idle", "overLog", "overSecrets", "overMark"}
    BY <1>0, <1>7 DEF Data!RestoreOver, Data!TypeOK
  <2>4. Data!TypeOK'
    BY <1>0, <1>1, <2>1, <2>2, <2>3, SomeNumbers DEF Data!TypeOK
  <2>5. RecoveryInv'
    BY <1>0, <1>1, <2>1 DEF RecoveryInv
  <2>. QED  BY <2>1, <2>4, <2>5 DEF DataInv
<1>. QED  BY <1>3, <1>4, <1>5, <1>6, <1>7

\* The recovery UI.
LEMMA Recovers ==
  ASSUME DataInv, \/ Data!RestoreDb \/ Data!CopySnapshot \/ Data!CopyFails \/ Data!RemoveLog
                  \/ Data!SoftReset \/ Data!HardReset
  PROVE  DataInv'
<1>0. /\ Data!TypeOK /\ RecoveryInv /\ (~overwritten => LinesInv /\ SealsInv /\ ServedInv)
      /\ rec \in [op : {"idle", "unlink", "copy", "log", "reset"}, left : SUBSET {"db", "secrets", "marks"}]
  BY DEF DataInv, Data!TypeOK
<1>1. /\ backend = "asleep" /\ overwritten' = overwritten
      /\ UNCHANGED <<snaps, key, archive, cgbk, backend, front, stream, keys, lines, deaths>>
  BY <1>0
  DEF RecoveryInv, Data!RestoreDb, Data!CopySnapshot, Data!CopyFails, Data!RemoveLog, Data!SoftReset, Data!HardReset,
      Data!InRecovery, Data!Ready, Data!held, Data!files, Data!service, Data!history
<1>2. CASE Data!RestoreDb
  <2>1. PICK s \in snaps : chosen' = s
    BY <1>2 DEF Data!RestoreDb
  <2>2. /\ db' = Data!NoDb /\ rec'.op = "copy" /\ rec'.left = rec.left /\ rec' = [op |-> "copy", left |-> rec.left]
        /\ UNCHANGED <<wal, complete, outcome, torn>>
    BY <1>0, <1>2 DEF Data!RestoreDb, Data!Turn, Data!held
  <2>3. Data!TypeOK'
    BY <1>0, <1>1, <2>1, <2>2, SomeNumbers DEF Data!TypeOK
  <2>4. RecoveryInv'
    BY <1>0, <1>1, <2>1, <2>2 DEF RecoveryInv
  <2>5. ASSUME ~overwritten PROVE (LinesInv /\ SealsInv /\ ServedInv)'
    <3>1. LinesInv'
      BY <1>0, <1>1, <2>2, <2>5 DEF LinesInv
    <3>2. SealsInv'
      BY <1>0, <1>1, <2>2, <2>5, SomeNumbers DEF SealsInv
    <3>3. ServedInv'
      BY <2>2 DEF ServedInv
    <3>. QED  BY <3>1, <3>2, <3>3
  <2>. QED  BY <1>1, <2>3, <2>4, <2>5 DEF DataInv
<1>3. CASE Data!CopySnapshot
  <2>1. /\ db' = chosen /\ chosen \in snaps /\ rec'.op = "log" /\ rec' = [op |-> "log", left |-> rec.left]
        /\ UNCHANGED <<wal, complete, outcome, torn, chosen>>
    BY <1>0, <1>3 DEF Data!CopySnapshot, Data!Ready, Data!Turn, Data!held, Data!history, RecoveryInv
  <2>2. Data!TypeOK'
    BY <1>0, <1>1, <2>1 DEF Data!TypeOK
  <2>3. RecoveryInv'
    BY <1>0, <1>1, <2>1 DEF RecoveryInv
  <2>4. ASSUME ~overwritten PROVE (LinesInv /\ SealsInv /\ ServedInv)'
    BY <1>0, <1>1, <2>1, <2>4 DEF LinesInv, SealsInv, ServedInv
  <2>. QED  BY <1>1, <2>2, <2>3, <2>4 DEF DataInv
<1>7. CASE Data!CopyFails
  <2>1. /\ db' \in {Data!NoDb, [chosen EXCEPT !.part = TRUE]} /\ chosen \in snaps
        /\ torn' = chosen /\ chosen' = Data!NoDb
        /\ rec'.op = "idle" /\ rec' = [op |-> "idle", left |-> rec.left]
        /\ UNCHANGED <<wal, complete, outcome>>
    BY <1>0, <1>7 DEF Data!CopyFails, Data!Ready, Data!Turn, Data!held, RecoveryInv
  <2>2. chosen \in Data!Databases
    BY <1>0 DEF Data!TypeOK
  <2>3. /\ [chosen EXCEPT !.part = TRUE] \in Data!Databases
        /\ [chosen EXCEPT !.part = TRUE].line = chosen.line /\ [chosen EXCEPT !.part = TRUE].key = chosen.key
    BY <2>2, Remade
  <2>4. db' = Data!NoDb \/ (db' \in Data!Databases /\ db'.line = chosen.line /\ db'.key = chosen.key)
    BY <2>1, <2>3
  <2>5. Data!TypeOK'
    BY <1>0, <1>1, <2>1, <2>2, <2>4, SomeNumbers DEF Data!TypeOK
  <2>6. RecoveryInv'
    BY <1>0, <1>1, <2>1 DEF RecoveryInv
  <2>7. ASSUME ~overwritten PROVE (LinesInv /\ SealsInv /\ ServedInv)'
    <3>1. chosen.line # 0 /\ chosen # Data!NoDb
      BY <1>0, <2>1, <2>7, SomeNumbers DEF LinesInv
    <3>2. LinesInv'
      BY <1>0, <1>1, <2>1, <2>4, <2>7, <3>1 DEF LinesInv
    <3>3. SealsInv'
      BY <1>0, <1>1, <2>1, <2>4, <2>7, SomeNumbers DEF SealsInv
    <3>4. ServedInv'
      BY <2>1, <3>1 DEF ServedInv
    <3>. QED  BY <3>2, <3>3, <3>4
  <2>. QED  BY <1>1, <2>5, <2>6, <2>7 DEF DataInv
<1>8. CASE Data!RemoveLog /\ wal' = wal /\ torn' = chosen /\ chosen' = Data!NoDb
  <2>1. /\ UNCHANGED <<db, wal, complete, outcome>> /\ torn' = chosen /\ chosen' = Data!NoDb
        /\ rec'.op = "idle" /\ rec' = [op |-> "idle", left |-> rec.left]
        /\ chosen \in snaps /\ chosen \in Data!Databases
    BY <1>0, <1>8 DEF Data!RemoveLog, Data!Ready, Data!Turn, Data!held, RecoveryInv, Data!TypeOK
  <2>2. Data!TypeOK'
    BY <1>0, <1>1, <2>1, SomeNumbers DEF Data!TypeOK
  <2>3. RecoveryInv'
    BY <1>0, <1>1, <2>1 DEF RecoveryInv
  <2>4. ASSUME ~overwritten PROVE (LinesInv /\ SealsInv /\ ServedInv)'
    <3>1. chosen # Data!NoDb
      BY <1>0, <2>1, <2>4, SomeNumbers DEF LinesInv
    <3>. QED  BY <1>0, <1>1, <2>1, <2>4, <3>1 DEF LinesInv, SealsInv, ServedInv
  <2>. QED  BY <1>1, <2>2, <2>3, <2>4 DEF DataInv
<1>4. CASE Data!RemoveLog /\ wal' = Data!NoLog /\ torn' = Data!NoDb /\ chosen' = chosen
  <2>1. /\ wal' = Data!NoLog /\ torn' = Data!NoDb /\ rec'.op = "idle" /\ rec' = [op |-> "idle", left |-> rec.left]
        /\ UNCHANGED <<db, complete, outcome, chosen>> /\ db = chosen /\ chosen \in snaps
    BY <1>0, <1>4 DEF Data!RemoveLog, Data!Ready, Data!Turn, Data!held, RecoveryInv
  <2>2. Data!TypeOK'
    BY <1>0, <1>1, <2>1, SomeNumbers DEF Data!TypeOK
  <2>3. RecoveryInv'
    BY <1>0, <1>1, <2>1 DEF RecoveryInv
  <2>4. ASSUME ~overwritten PROVE (LinesInv /\ SealsInv)'
    BY <1>0, <1>1, <2>1, <2>4 DEF LinesInv, SealsInv
  <2>5. ServedInv'
    <3>1. db.part = FALSE
      BY <1>0, <2>1 DEF RecoveryInv
    <3>. QED  BY <2>1, <3>1 DEF ServedInv, Data!Whole, Data!Latest
  <2>. QED  BY <1>1, <2>2, <2>3, <2>4, <2>5 DEF DataInv
<1>5. CASE Data!SoftReset
  <2>1. UNCHANGED <<db, wal, rec, torn, chosen>> /\ complete' \in {FALSE, complete} /\ outcome' \in {"none", outcome}
    BY <1>5 DEF Data!SoftReset, Data!history
  <2>2. Data!TypeOK'
    BY <1>0, <1>1, <2>1 DEF Data!TypeOK
  <2>3. RecoveryInv'
    BY <1>0, <1>1, <2>1 DEF RecoveryInv
  <2>4. ASSUME ~overwritten PROVE (LinesInv /\ SealsInv)'
    BY <1>0, <1>1, <2>1, <2>4 DEF LinesInv, SealsInv
  <2>5. ASSUME ~overwritten PROVE ServedInv'
    BY <1>0, <1>1, <2>1, <2>5 DEF ServedInv, Data!Whole, Data!Latest
  <2>. QED  BY <1>1, <2>2, <2>3, <2>4, <2>5 DEF DataInv
<1>6. CASE Data!HardReset
  <2>1. /\ UNCHANGED <<db, wal, complete, outcome, torn, chosen>> /\ rec.op = "idle" /\ rec'.op = "reset"
        /\ rec' = [op |-> "reset", left |-> {"db", "secrets", "marks"}]
    BY <1>6 DEF Data!HardReset, Data!files, Data!history, Data!Quiet
  <2>2. Data!TypeOK'
    BY <1>0, <1>1, <2>1 DEF Data!TypeOK
  <2>3. RecoveryInv'
    BY <1>0, <1>1, <2>1 DEF RecoveryInv
  <2>4. ASSUME ~overwritten PROVE (LinesInv /\ SealsInv)'
    BY <1>0, <1>1, <2>1, <2>4 DEF LinesInv, SealsInv
  <2>5. ASSUME ~overwritten PROVE ServedInv'
    BY <1>0, <1>1, <2>1, <2>5 DEF ServedInv, Data!Whole, Data!Latest
  <2>. QED  BY <1>1, <2>2, <2>3, <2>4, <2>5 DEF DataInv
<1>. QED  BY <1>2, <1>3, <1>4, <1>5, <1>6, <1>7, <1>8 DEF Data!RemoveLog

\* A hard reset moves the entries aside one by one.
LEMMA MovesAside ==
  ASSUME DataInv, NEW entry \in {"db", "secrets", "marks"}, Data!MoveAside(entry) \/ Data!StaysPut(entry)
  PROVE  DataInv'
<1>0. /\ Data!TypeOK /\ RecoveryInv /\ (~overwritten => LinesInv /\ SealsInv /\ ServedInv)
      /\ rec \in [op : {"idle", "unlink", "copy", "log", "reset"}, left : SUBSET {"db", "secrets", "marks"}]
  BY DEF DataInv, Data!TypeOK
<1>1. /\ rec.op = "reset" /\ backend = "asleep" /\ UNCHANGED <<cgbk, backend, front, stream, keys, lines, deaths>>
      /\ Data!Entry(entry)
  BY <1>0 DEF RecoveryInv, Data!MoveAside, Data!StaysPut, Data!Entry, Data!Ready, Data!service
<1>2. /\ rec'.op \in {"idle", "reset"}
      /\ rec' \in [op : {"idle", "unlink", "copy", "log", "reset"}, left : SUBSET {"db", "secrets", "marks"}]
  <2>1. CASE rec.left = {entry}
    BY <1>1, <2>1 DEF Data!Entry
  <2>2. CASE rec.left # {entry}
    BY <1>0, <1>1, <2>2 DEF Data!Entry
  <2>. QED  BY <2>1, <2>2
<1>3. CASE UNCHANGED <<db, wal, snaps, archive, chosen, torn, overwritten>> /\ key' = key
           /\ complete' \in BOOLEAN /\ outcome' \in {"none", "ok", "fail"}
  <2>1. Data!TypeOK'
    BY <1>0, <1>1, <1>2, <1>3 DEF Data!TypeOK
  <2>2. RecoveryInv'
    BY <1>0, <1>1, <1>2, <1>3 DEF RecoveryInv
  <2>3. ASSUME ~overwritten PROVE (LinesInv /\ SealsInv)'
    BY <1>0, <1>1, <1>3, <2>3 DEF LinesInv, SealsInv
  <2>4. ASSUME ~overwritten PROVE ServedInv'
    BY <1>0, <1>1, <1>2, <1>3, <2>4 DEF ServedInv, Data!Whole, Data!Latest
  <2>. QED  BY <1>3, <2>1, <2>2, <2>3, <2>4 DEF DataInv
<1>4. CASE entry = "db" /\ Data!MoveAside(entry)
  <2>1. /\ archive' = [archive EXCEPT !.dbs = @ \union snaps \union ({db} \ {Data!NoDb})]
        /\ db' = Data!NoDb /\ wal' = Data!NoLog /\ snaps' = {} /\ chosen' = Data!NoDb /\ torn' = Data!NoDb
        /\ UNCHANGED <<key, complete, outcome, overwritten>>
    BY <1>4 DEF Data!MoveAside
  <2>2. /\ archive' \in [dbs : SUBSET Data!Databases, keys : SUBSET (1 .. MaxKeys)]
        /\ archive'.dbs \subseteq archive.dbs \cup snaps \cup {db} /\ archive'.keys = archive.keys
    BY <1>0, <2>1 DEF Data!TypeOK
  <2>3. Data!TypeOK'
    BY <1>0, <1>1, <1>2, <2>1, <2>2, SomeNumbers DEF Data!TypeOK
  <2>4. RecoveryInv'
    BY <1>1, <1>2, <2>1 DEF RecoveryInv
  <2>5. ASSUME ~overwritten PROVE (LinesInv /\ SealsInv /\ ServedInv)'
    <3>1. LinesInv'
      BY <1>1, <2>1 DEF LinesInv
    <3>2. SealsInv'
      BY <1>0, <1>1, <2>1, <2>2, <2>5, SomeNumbers DEF SealsInv
    <3>3. ServedInv'
      BY <2>1 DEF ServedInv
    <3>. QED  BY <3>1, <3>2, <3>3
  <2>. QED  BY <2>1, <2>3, <2>4, <2>5 DEF DataInv
<1>5. CASE entry = "secrets" /\ Data!MoveAside(entry)
  <2>1. /\ archive' = [archive EXCEPT !.keys = @ \union ({key} \ {0})] /\ key' = 0
        /\ UNCHANGED <<db, wal, snaps, complete, outcome, chosen, torn, overwritten>>
    BY <1>5 DEF Data!MoveAside, Data!history
  <2>2. /\ archive' \in [dbs : SUBSET Data!Databases, keys : SUBSET (1 .. MaxKeys)]
        /\ archive'.dbs = archive.dbs /\ {key} \cup archive.keys \subseteq {0} \cup archive'.keys
    BY <1>0, <2>1, DataBounds DEF Data!TypeOK
  <2>3. Data!TypeOK'
    BY <1>0, <1>1, <1>2, <2>1, <2>2, DataBounds DEF Data!TypeOK
  <2>4. RecoveryInv'
    BY <1>0, <1>1, <1>2, <2>1 DEF RecoveryInv
  <2>5. ASSUME ~overwritten PROVE (LinesInv /\ SealsInv)'
    <3>1. LinesInv'
      BY <1>0, <1>1, <2>1, <2>5 DEF LinesInv
    <3>2. SealsInv'
      BY <1>0, <1>1, <2>1, <2>2, <2>5 DEF SealsInv
    <3>. QED  BY <3>1, <3>2
  <2>6. ASSUME ~overwritten PROVE ServedInv'
    BY <1>0, <1>1, <1>2, <2>1, <2>6 DEF ServedInv, Data!Whole, Data!Latest
  <2>. QED  BY <2>1, <2>3, <2>4, <2>5, <2>6 DEF DataInv
<1>6. CASE Data!StaysPut(entry)
  BY <1>0, <1>3, <1>6 DEF Data!StaysPut, Data!files, Data!history, Data!TypeOK
<1>7. CASE entry = "marks" /\ Data!MoveAside(entry)
  BY <1>3, <1>7 DEF Data!MoveAside, Data!history
<1>. QED  BY <1>4, <1>5, <1>6, <1>7

\* A death leaves what it finds half done.
LEMMA Dies ==
  ASSUME DataInv, Data!Die
  PROVE  DataInv'
<1>0. Data!TypeOK /\ RecoveryInv /\ (~overwritten => LinesInv /\ SealsInv /\ ServedInv)
  BY DEF DataInv
<1>1. /\ deaths' \in 0 .. MaxDeaths /\ backend' = "secrets" /\ rec' = [op |-> "idle", left |-> {}] /\ rec'.op = "idle"
      /\ stream' = "idle" /\ cgbk' \in {cgbk, Data!NoBackup} /\ chosen' = IF rec.op \in {"copy", "log"} THEN Data!NoDb ELSE chosen
      /\ torn' = IF rec.op \in {"copy", "log"} THEN chosen ELSE torn
      /\ UNCHANGED <<wal, snaps, key, complete, outcome, archive, front, keys, lines, overwritten>>
  BY <1>0, DataBounds DEF Data!Die, Data!TypeOK
<1>2. Data!NoBackup \in [db : Data!Databases, wal : Data!Logs, key : 0 .. MaxKeys]
  BY SomeNumbers, DataBounds DEF Data!NoBackup
<1>3. CASE rec.op = "copy" /\ db' = [chosen EXCEPT !.part = TRUE]
  <2>1. chosen \in snaps /\ chosen \in Data!Databases
    BY <1>0, <1>3 DEF RecoveryInv, Data!TypeOK
  <2>2. db' \in Data!Databases /\ db'.line = chosen.line /\ db'.key = chosen.key
    BY <1>3, <2>1, Remade
  <2>3. Data!TypeOK'
    BY <1>0, <1>1, <1>2, <1>3, <2>2, SomeNumbers DEF Data!TypeOK, Data!Booting
  <2>4. RecoveryInv'
    BY <1>0, <1>1 DEF RecoveryInv
  <2>5. ASSUME ~overwritten PROVE (LinesInv /\ SealsInv)'
    <3>1. chosen.line # 0
      BY <1>0, <2>1, <2>5 DEF LinesInv
    <3>. QED  BY <1>0, <1>1, <2>1, <2>2, <2>5, <3>1 DEF LinesInv, SealsInv
  <2>6. ASSUME ~overwritten PROVE ServedInv'
    BY <1>0, <1>1, <1>3, <2>1, <2>6, SomeNumbers DEF ServedInv, LinesInv
  <2>. QED  BY <1>1, <2>3, <2>4, <2>5, <2>6 DEF DataInv
<1>4. CASE db' = db
  <2>1. Data!TypeOK'
    BY <1>0, <1>1, <1>2, <1>4, SomeNumbers DEF Data!TypeOK, Data!Booting
  <2>2. RecoveryInv'
    BY <1>0, <1>1 DEF RecoveryInv
  <2>3. ASSUME ~overwritten PROVE (LinesInv /\ SealsInv)'
    BY <1>0, <1>1, <1>4, <2>3 DEF LinesInv, SealsInv
  <2>4. ASSUME ~overwritten PROVE ServedInv'
    <3>1. CASE rec.op \in {"copy", "log"}
      BY <1>0, <1>1, <2>4, <3>1, SomeNumbers DEF ServedInv, RecoveryInv, LinesInv
    <3>2. CASE rec.op \notin {"copy", "log"}
      BY <1>0, <1>1, <1>4, <2>4, <3>2 DEF ServedInv, Data!Whole, Data!Latest
    <3>. QED  BY <3>1, <3>2
  <2>. QED  BY <1>1, <2>1, <2>2, <2>3, <2>4 DEF DataInv
<1>. QED  BY <1>3, <1>4 DEF Data!Die

LEMMA NextData == DataInv /\ [Data!Next]_dataVars => DataInv'
<1>. SUFFICES ASSUME DataInv, [Data!Next]_dataVars PROVE DataInv'
  OBVIOUS
<1>1. CASE UNCHANGED dataVars
  <2>1. Data!TypeOK'
    BY <1>1 DEF dataVars, DataInv, Data!TypeOK
  <2>2. RecoveryInv'
    BY <1>1 DEF dataVars, DataInv, RecoveryInv
  <2>3. ASSUME ~overwritten PROVE (LinesInv /\ SealsInv)'
    BY <1>1, <2>3 DEF dataVars, DataInv, LinesInv, SealsInv
  <2>4. ASSUME ~overwritten PROVE ServedInv'
    BY <1>1, <2>4 DEF dataVars, DataInv, ServedInv, Data!Whole, Data!Latest
  <2>. QED  BY <1>1, <2>1, <2>2, <2>3, <2>4 DEF DataInv, dataVars
<1>. QED  BY <1>1, StartsUp, AtWork, Recovers, MovesAside, Dies DEF Data!Next

LEMMA DataIsSound == DataInv => Data!ServesWhatWasChosen /\ Data!SecretsKept
BY DEF DataInv, RecoveryInv, LinesInv, SealsInv, ServedInv, Data!ServesWhatWasChosen, Data!SecretsKept

-----------------------------------------------------------------------------
(* The zones of an account                                                 *)

\* What a sync under way does not have on its list was missing at Cloudflare when it
\* listed the zones, or since.
ListedOrAbsent == \A s \in Callers : sync[s].on => Zones \ sync[s].list \subseteq absent
ZoneInv == CfZones!TypeOK /\ ListedOrAbsent

LEMMA ZoneNumbers == MaxIds \in Nat /\ \A S \in SUBSET Zones : CfZones!Cardinality(S) \in Nat
<1>1. MaxIds \in Nat /\ CfZones!IsFiniteSet(Zones)
  BY StoresAssumption
<1>2. \A S : CfZones!IsFiniteSet(S) <=> IsFiniteSet(S)
  BY DEF IsFiniteSet, CfZones!IsFiniteSet
<1>3. \A S : CfZones!Cardinality(S) = Cardinality(S)
  BY DEF Cardinality, CfZones!Cardinality, IsFiniteSet, CfZones!IsFiniteSet
<1>4. \A S \in SUBSET Zones : IsFiniteSet(S)
  BY <1>1, <1>2, FS_Subset
<1>5. \A S \in SUBSET Zones : Cardinality(S) \in Nat
  BY <1>4, FS_CardinalityType
<1>. QED  BY <1>1, <1>3, <1>5

LEMMA InitZones == CfZones!Init => ZoneInv
BY ZoneNumbers DEF CfZones!Init, CfZones!Idle, CfZones!TypeOK, ZoneInv, ListedOrAbsent

LEMMA SyncStores ==
  ASSUME ZoneInv, NEW s \in Callers, CfZones!SyncZones(s)
  PROVE  CfZones!TypeOK'
<1>. DEFINE list == sync[s].list
            new == {z \in list : cached[z] = 0}
<1>1. /\ CfZones!TypeOK /\ list \subseteq Zones /\ ids \in Nat /\ MaxIds \in Nat
      /\ CfZones!Cardinality(new) \in Nat
  <2>1. CfZones!TypeOK /\ list \subseteq Zones /\ ids \in Nat /\ MaxIds \in Nat
    BY ZoneNumbers DEF ZoneInv, CfZones!TypeOK
  <2>2. new \in SUBSET Zones
    BY <2>1
  <2>. QED  BY <2>1, <2>2, ZoneNumbers
<1>2. ids + CfZones!Cardinality(new) <= MaxIds /\ ids' = ids + CfZones!Cardinality(new)
  BY DEF CfZones!SyncZones
<1>3. PICK order \in [new -> ids + 1 .. ids + CfZones!Cardinality(new)] :
        cached' = [z \in Zones |-> IF z \in new THEN order[z] ELSE IF z \in list THEN cached[z] ELSE 0]
  BY DEF CfZones!SyncZones
<1>4. ids' \in 0 .. MaxIds
  BY <1>1, <1>2
<1>5. cached' \in [Zones -> 0 .. MaxIds]
  <2>. HIDE DEF new
  <2>1. \A z \in new : order[z] \in 0 .. MaxIds
    BY <1>1, <1>2, <1>3
  <2>2. \A z \in Zones : cached[z] \in 0 .. MaxIds /\ 0 \in 0 .. MaxIds
    BY <1>1 DEF CfZones!TypeOK
  <2>. QED  BY <1>3, <2>1, <2>2
<1>6. zoneOf' \in 0 .. MaxIds /\ there' = there /\ absent' \subseteq Zones
  BY <1>1 DEF CfZones!SyncZones, CfZones!TypeOK
<1>7. sync' \in [Callers -> [on : BOOLEAN, list : SUBSET Zones]]
  BY <1>1 DEF CfZones!SyncZones, CfZones!TypeOK, CfZones!Idle
<1>. QED  BY <1>1, <1>4, <1>5, <1>6, <1>7 DEF CfZones!TypeOK

LEMMA NextZones == ZoneInv /\ [CfZones!Next]_zoneVars => ZoneInv'
<1>. SUFFICES ASSUME ZoneInv, [CfZones!Next]_zoneVars PROVE ZoneInv'
  OBVIOUS
<1>0. /\ CfZones!TypeOK /\ ListedOrAbsent /\ sync \in [Callers -> [on : BOOLEAN, list : SUBSET Zones]]
      /\ CfZones!Idle.on = FALSE /\ CfZones!Idle \in [on : BOOLEAN, list : SUBSET Zones]
  BY DEF ZoneInv, CfZones!TypeOK, CfZones!Idle
<1>1. CASE CfZones!ZonesChange
  <2>1. CfZones!TypeOK'
    BY <1>0, <1>1 DEF CfZones!ZonesChange, CfZones!TypeOK
  <2>2. ListedOrAbsent'
    BY <1>0, <1>1 DEF CfZones!ZonesChange, ListedOrAbsent
  <2>. QED  BY <2>1, <2>2 DEF ZoneInv
<1>2. ASSUME NEW s \in Callers, CfZones!ListZones(s) PROVE ZoneInv'
  <2>1. CfZones!TypeOK'
    BY <1>0, <1>2 DEF CfZones!ListZones, CfZones!TypeOK
  <2>2. ListedOrAbsent'
    BY <1>0, <1>2 DEF CfZones!ListZones, ListedOrAbsent
  <2>. QED  BY <2>1, <2>2 DEF ZoneInv
<1>3. ASSUME NEW s \in Callers, CfZones!SyncZones(s) \/ CfZones!SyncFails(s) PROVE ZoneInv'
  <2>1. /\ sync' = [sync EXCEPT ![s] = CfZones!Idle]
        /\ absent' = IF CfZones!Quiet(s) THEN {} ELSE absent
    BY <1>3 DEF CfZones!SyncZones, CfZones!SyncFails
  <2>2. CfZones!TypeOK'
    <3>1. CASE CfZones!SyncFails(s)
      BY <1>0, <3>1 DEF CfZones!SyncFails, CfZones!TypeOK
    <3>. QED  BY <1>3, <3>1, SyncStores
  <2>3. ListedOrAbsent'
    <3>1. ASSUME NEW o \in Callers, sync'[o].on PROVE o # s /\ sync'[o] = sync[o]
      BY <1>0, <2>1, <3>1
    <3>2. CASE CfZones!Quiet(s)
      BY <1>0, <3>1, <3>2 DEF CfZones!Quiet, ListedOrAbsent
    <3>3. CASE ~CfZones!Quiet(s)
      BY <1>0, <2>1, <3>1, <3>3 DEF ListedOrAbsent
    <3>. QED  BY <3>2, <3>3
  <2>. QED  BY <2>2, <2>3 DEF ZoneInv
<1>4. ASSUME NEW z \in Zones, CfZones!Attach(z) PROVE ZoneInv'
  BY <1>0, <1>4 DEF CfZones!Attach, CfZones!TypeOK, ZoneInv, ListedOrAbsent
<1>5. CASE UNCHANGED zoneVars
  BY <1>0, <1>5 DEF zoneVars, CfZones!TypeOK, ZoneInv, ListedOrAbsent
<1>. QED  BY <1>1, <1>2, <1>3, <1>4, <1>5 DEF CfZones!Next

\* The host lets go of its zone: only a sync makes it, and its list says the zone is gone.
KeptZone == \A z \in Zones : zoneOf # 0 /\ zoneOf' = 0 /\ cached[z] = zoneOf => z \in absent

LEMMA ZoneKeptStep == ZoneInv /\ [CfZones!Next]_zoneVars => KeptZone
<1>. SUFFICES ASSUME ZoneInv, [CfZones!Next]_zoneVars, NEW z \in Zones, zoneOf # 0, zoneOf' = 0, cached[z] = zoneOf
              PROVE  z \in absent
  BY DEF KeptZone
<1>1. PICK s \in Callers : CfZones!SyncZones(s)
  BY DEF CfZones!Next, zoneVars, CfZones!ZonesChange, CfZones!ListZones, CfZones!SyncFails, CfZones!Attach
<1>2. z \notin sync[s].list /\ sync[s].on
  BY <1>1 DEF CfZones!SyncZones
<1>. QED  BY <1>2 DEF ZoneInv, ListedOrAbsent

-----------------------------------------------------------------------------
(* Tunnels at playit                                                       *)

Noted == [Hosts -> {0} \cup Ports]
Places == {"idle", "load", "find", "replace", "create", "read", "write", "alloc", "remove", "forget", "start",
           "stop", "drop", "next", "answer"}
Deploying == {"load", "find", "replace", "create", "read", "write", "alloc"}
AnyJob == [op : {"none", "deploy", "undeploy", "create", "delete", "unlink"}, at : Places,
           key : {0} \cup Hosts \cup Rows, want : {0} \cup Origins, u : {0} \cup Ports, copy : Noted,
           saved : BOOLEAN, alone : BOOLEAN, ok : BOOLEAN, silent : BOOLEAN, more : SUBSET Rows]
\* A deploy has its host and its target; one that saves or removes a tunnel has that.
Job == {x \in AnyJob : /\ x.at \in Deploying => x.key \in Hosts /\ x.want \in Origins
                       /\ x.at \in {"read", "write", "remove"} => x.u \in Ports
                       /\ x.at = "start" => x.key \in Rows}

RowTypes == row \subseteq Rows /\ pLastRow \in Rows /\ pAccount \in BOOLEAN /\ agent \in BOOLEAN /\ seen \in BOOLEAN
TunnelTypes ==
  /\ origin \in [Hosts -> Origins] /\ meta \in Noted
  /\ remote \in [Ports -> {Playit!NoTunnel} \cup [host : Hosts, origin : Origins]]
  /\ pMade \in {0} \cup Ports /\ lost \subseteq Ports
JobTypes == job \in [Callers -> Job]
PlayitTypes == RowTypes /\ TunnelTypes /\ JobTypes

\* A tunnel is recorded once its loss is explained or a host has it; until then a request
\* that has created it is about to write it down.
Recorded(u) == ~Playit!Exists(u) \/ u \in lost \/ \E h \in Hosts : meta[h] = u
BeingSaved(u) == \E c \in Callers : job[c].u = u /\ job[c].at \in {"read", "write"}
Accounted == \A u \in Ports : Recorded(u) \/ BeingSaved(u)

PlayitInv == PlayitTypes /\ Accounted

LEMMA PlayitSuffices == PlayitInv => Playit!TypeOK /\ Playit!NoPortBurnt
<1>. SUFFICES ASSUME PlayitInv PROVE Playit!TypeOK /\ Playit!NoPortBurnt
  OBVIOUS
<1>1. \A c \in Callers : job[c] \in AnyJob
  BY DEF PlayitInv, PlayitTypes, JobTypes, Job
<1>2. Playit!TypeOK
  <2>1. RowTypes /\ TunnelTypes
    BY DEF PlayitInv, PlayitTypes
  <2>. QED  BY <1>1, <2>1 DEF RowTypes, TunnelTypes, AnyJob, Noted, Playit!TypeOK, Playit!None
<1>3. Playit!NoPortBurnt
  BY DEF PlayitInv, Accounted, Recorded, BeingSaved, Playit!NoPortBurnt, Playit!InHand
<1>. QED  BY <1>2, <1>3

LEMMA IdleJob ==
  /\ Playit!Idle \in Job /\ Playit!Idle.copy \in Noted /\ Playit!Idle.at = "idle" /\ Playit!Idle.u = 0
  /\ Playit!Idle.copy = [h \in Hosts |-> 0]
<1>1. Playit!Idle.copy = [h \in Hosts |-> 0] /\ Playit!Idle.at = "idle" /\ Playit!Idle.u = 0
  BY DEF Playit!Idle, Playit!None
<1>2. [h \in Hosts |-> 0] \in Noted
  BY DEF Noted
<1>3. Playit!Idle \in AnyJob
  BY <1>2 DEF Playit!Idle, Playit!None, AnyJob, Places
<1>. QED  BY <1>1, <1>2, <1>3 DEF Job, Deploying

LEMMA InitPlayit == Playit!Init => PlayitInv
<1>. SUFFICES ASSUME Playit!Init PROVE PlayitInv
  OBVIOUS
<1>1. RowTypes
  BY StoresAssumption DEF Playit!Init, RowTypes
<1>2. TunnelTypes
  BY DEF Playit!Init, TunnelTypes, Noted, Playit!None
<1>3. JobTypes
  BY IdleJob DEF Playit!Init, JobTypes
<1>4. Accounted
  BY DEF Playit!Init, Accounted, Recorded, Playit!Exists
<1>. QED  BY <1>1, <1>2, <1>3, <1>4 DEF PlayitInv, PlayitTypes

\* What the steps of a request make of its job.
LEMMA JobSteps ==
  ASSUME NEW x \in Job
  PROVE  /\ \A p \in Places : p \notin Deploying \cup {"remove", "start"} =>
              /\ [x EXCEPT !.at = p] \in Job /\ [x EXCEPT !.ok = FALSE, !.at = p] \in Job
              /\ [x EXCEPT !.silent = TRUE, !.at = p] \in Job
              /\ [x EXCEPT !.at = p].u = x.u /\ [x EXCEPT !.at = p].at = p
         /\ \A p \in Deploying : x.at \in Deploying /\ (p \in {"read", "write"} => x.u \in Ports) =>
              /\ [x EXCEPT !.at = p] \in Job
              /\ [x EXCEPT !.saved = TRUE, !.at = p] \in Job
              /\ \A u \in {0} \cup Ports : p \notin {"read", "write"} => [x EXCEPT !.u = u, !.at = p] \in Job
              /\ \A k \in Noted : [x EXCEPT !.copy = k, !.at = p] \in Job
              /\ \A k \in Noted : [x EXCEPT !.saved = TRUE, !.copy = k, !.at = p] \in Job
         /\ \A u \in Ports : x.at \in Deploying => [x EXCEPT !.u = u, !.saved = FALSE, !.at = "read"] \in Job
         /\ \A k \in Noted : [x EXCEPT !.saved = TRUE, !.copy = k, !.at = "answer"] \in Job
         /\ [x EXCEPT !.saved = TRUE, !.at = "answer"] \in Job
         /\ \A r \in Rows, M \in SUBSET Rows : [x EXCEPT !.key = r, !.more = M, !.at = "stop"] \in Job
         /\ [x EXCEPT !.alone = FALSE] \in Job
         /\ [x EXCEPT !.alone = FALSE].u = x.u /\ [x EXCEPT !.alone = FALSE].at = x.at
<1>. USE DEF Job, AnyJob
<1>1. \A p \in Places : p \notin Deploying \cup {"remove", "start"} =>
         /\ [x EXCEPT !.at = p] \in Job /\ [x EXCEPT !.ok = FALSE, !.at = p] \in Job
         /\ [x EXCEPT !.silent = TRUE, !.at = p] \in Job
         /\ [x EXCEPT !.at = p].u = x.u /\ [x EXCEPT !.at = p].at = p
  BY DEF Deploying
<1>2. ASSUME NEW p \in Deploying, x.at \in Deploying, p \in {"read", "write"} => x.u \in Ports
      PROVE  [x EXCEPT !.at = p] \in Job /\ [x EXCEPT !.saved = TRUE, !.at = p] \in Job
  BY <1>2 DEF Deploying, Places
<1>3. ASSUME NEW p \in Deploying, x.at \in Deploying, p \notin {"read", "write"}, NEW u \in {0} \cup Ports
      PROVE  [x EXCEPT !.u = u, !.at = p] \in Job
  BY <1>3 DEF Deploying, Places
<1>4. ASSUME NEW p \in Deploying, x.at \in Deploying, p \in {"read", "write"} => x.u \in Ports, NEW k \in Noted
      PROVE  [x EXCEPT !.copy = k, !.at = p] \in Job /\ [x EXCEPT !.saved = TRUE, !.copy = k, !.at = p] \in Job
  BY <1>4 DEF Deploying, Places
<1>5. \A u \in Ports : x.at \in Deploying => [x EXCEPT !.u = u, !.saved = FALSE, !.at = "read"] \in Job
  BY DEF Deploying, Places
<1>6. \A k \in Noted : [x EXCEPT !.saved = TRUE, !.copy = k, !.at = "answer"] \in Job
  BY DEF Deploying, Places
<1>7. [x EXCEPT !.saved = TRUE, !.at = "answer"] \in Job
  BY DEF Deploying, Places
<1>8. \A r \in Rows, M \in SUBSET Rows : [x EXCEPT !.key = r, !.more = M, !.at = "stop"] \in Job
  BY DEF Deploying, Places
<1>9. /\ [x EXCEPT !.alone = FALSE] \in Job
      /\ [x EXCEPT !.alone = FALSE].u = x.u /\ [x EXCEPT !.alone = FALSE].at = x.at
  BY DEF Deploying
<1>. HIDE DEF Job, AnyJob
<1>. QED  BY <1>1, <1>2, <1>3, <1>4, <1>5, <1>6, <1>7, <1>8, <1>9

LEMMA StaysAccounted ==
  ASSUME Accounted, lost \subseteq lost',
         \A h \in Hosts : meta[h] \in {0} \cup lost' \/ \E g \in Hosts : meta'[g] = meta[h],
         \A u \in Ports : remote'[u] = remote[u] \/ remote'[u] = Playit!NoTunnel,
         \A c \in Callers, u \in Ports : job[c].at \in {"read", "write"} /\ job[c].u = u =>
           (job'[c].u = u /\ job'[c].at \in {"read", "write"}) \/ Recorded(u)'
  PROVE  Accounted'
<1>1. ASSUME NEW u \in Ports, Recorded(u) PROVE Recorded(u)'
  BY <1>1 DEF Recorded, Playit!Exists, Playit!None
<1>2. ASSUME NEW u \in Ports, BeingSaved(u) PROVE BeingSaved(u)' \/ Recorded(u)'
  BY <1>2 DEF BeingSaved
<1>. QED  BY <1>1, <1>2 DEF Accounted

\* A request that goes on, and saves no tunnel yet, changes nothing that is recorded.
LEMMA JobGoesOn ==
  ASSUME PlayitInv, NEW c \in Callers, NEW x \in Job, job' = [job EXCEPT ![c] = x],
         job[c].at \notin {"read", "write"}, meta' = meta, lost \subseteq lost',
         \A u \in Ports : remote'[u] = remote[u] \/ remote'[u] = Playit!NoTunnel
  PROVE  JobTypes' /\ Accounted'
<1>1. JobTypes /\ Accounted
  BY DEF PlayitInv, PlayitTypes
<1>2. JobTypes'
  BY <1>1 DEF JobTypes
<1>3. \A d \in Callers : job[d].at \in {"read", "write"} => job'[d] = job[d]
  BY <1>1 DEF JobTypes
<1>. QED  BY <1>1, <1>2, <1>3, StaysAccounted

\* A request that begins.
LEMMA Begins ==
  ASSUME PlayitInv, NEW c \in Callers, NEW x \in Job, Playit!Begin(c, x), meta' = meta, lost' = lost, remote' = remote,
         \A b \in BOOLEAN : [x EXCEPT !.alone = b] \in Job
  PROVE  JobTypes' /\ Accounted'
<1>. DEFINE active == {d \in Callers : job[d] # Playit!Idle}
<1>1. JobTypes /\ Accounted /\ job[c].at = "idle"
  BY IdleJob DEF PlayitInv, PlayitTypes, Playit!Begin
<1>2. /\ \A d \in Callers : d # c => job'[d] = job[d] \/ job'[d] = [job[d] EXCEPT !.alone = FALSE]
      /\ job' = [d \in Callers |-> job'[d]] /\ job'[c] = [x EXCEPT !.alone = (active = {})]
  BY DEF Playit!Begin
<1>3. job'[c] \in Job
  <2>1. (active = {}) \in BOOLEAN
    OBVIOUS
  <2>. HIDE DEF active
  <2>. QED  BY <1>2, <2>1
<1>4. \A d \in Callers : d # c => job'[d] \in Job /\ job'[d].at = job[d].at /\ job'[d].u = job[d].u
  <2>. TAKE d \in Callers
  <2>1. /\ job[d] \in Job /\ [job[d] EXCEPT !.alone = FALSE] \in Job
        /\ [job[d] EXCEPT !.alone = FALSE].at = job[d].at /\ [job[d] EXCEPT !.alone = FALSE].u = job[d].u
    BY <1>1, JobSteps DEF JobTypes
  <2>. QED  BY <1>2, <2>1
<1>5. JobTypes'
  BY <1>2, <1>3, <1>4 DEF JobTypes
<1>. QED  BY <1>1, <1>4, <1>5, StaysAccounted

LEMMA NewJobs ==
  /\ \A h \in Hosts, o \in Origins, b \in BOOLEAN :
       /\ [Playit!Idle EXCEPT !.op = "deploy", !.at = "load", !.key = h, !.want = o] \in Job
       /\ [[Playit!Idle EXCEPT !.op = "deploy", !.at = "load", !.key = h, !.want = o] EXCEPT !.alone = b] \in Job
  /\ \A h \in Hosts, b \in BOOLEAN :
       /\ [Playit!Idle EXCEPT !.op = "undeploy", !.at = "answer", !.key = h] \in Job
       /\ [[Playit!Idle EXCEPT !.op = "undeploy", !.at = "answer", !.key = h] EXCEPT !.alone = b] \in Job
  /\ \A h \in Hosts, u \in Ports, k \in Noted, b \in BOOLEAN :
       /\ [Playit!Idle EXCEPT !.op = "undeploy", !.at = "remove", !.key = h, !.u = u, !.copy = k] \in Job
       /\ [[Playit!Idle EXCEPT !.op = "undeploy", !.at = "remove", !.key = h, !.u = u, !.copy = k] EXCEPT !.alone = b] \in Job
  /\ \A r \in Rows, b \in BOOLEAN :
       /\ [Playit!Idle EXCEPT !.op = "create", !.at = "start", !.key = r] \in Job
       /\ [[Playit!Idle EXCEPT !.op = "create", !.at = "start", !.key = r] EXCEPT !.alone = b] \in Job
       /\ [Playit!Idle EXCEPT !.op = "delete", !.at = "stop", !.key = r] \in Job
       /\ [[Playit!Idle EXCEPT !.op = "delete", !.at = "stop", !.key = r] EXCEPT !.alone = b] \in Job
  /\ \A M \in SUBSET Rows, b \in BOOLEAN :
       /\ [Playit!Idle EXCEPT !.op = "unlink", !.at = "next", !.more = M] \in Job
       /\ [[Playit!Idle EXCEPT !.op = "unlink", !.at = "next", !.more = M] EXCEPT !.alone = b] \in Job
<1>. USE IdleJob DEF Playit!Idle, Playit!None, Job, AnyJob, Places, Deploying, Noted
<1>1. ASSUME NEW h \in Hosts, NEW o \in Origins, NEW b \in BOOLEAN
      PROVE  /\ [Playit!Idle EXCEPT !.op = "deploy", !.at = "load", !.key = h, !.want = o] \in Job
             /\ [[Playit!Idle EXCEPT !.op = "deploy", !.at = "load", !.key = h, !.want = o] EXCEPT !.alone = b] \in Job
  OBVIOUS
<1>2. ASSUME NEW h \in Hosts, NEW b \in BOOLEAN
      PROVE  /\ [Playit!Idle EXCEPT !.op = "undeploy", !.at = "answer", !.key = h] \in Job
             /\ [[Playit!Idle EXCEPT !.op = "undeploy", !.at = "answer", !.key = h] EXCEPT !.alone = b] \in Job
  OBVIOUS
<1>3. ASSUME NEW h \in Hosts, NEW u \in Ports, NEW k \in Noted, NEW b \in BOOLEAN
      PROVE  /\ [Playit!Idle EXCEPT !.op = "undeploy", !.at = "remove", !.key = h, !.u = u, !.copy = k] \in Job
             /\ [[Playit!Idle EXCEPT !.op = "undeploy", !.at = "remove", !.key = h, !.u = u, !.copy = k]
                   EXCEPT !.alone = b] \in Job
  OBVIOUS
<1>4. ASSUME NEW r \in Rows, NEW b \in BOOLEAN
      PROVE  /\ [Playit!Idle EXCEPT !.op = "create", !.at = "start", !.key = r] \in Job
             /\ [[Playit!Idle EXCEPT !.op = "create", !.at = "start", !.key = r] EXCEPT !.alone = b] \in Job
             /\ [Playit!Idle EXCEPT !.op = "delete", !.at = "stop", !.key = r] \in Job
             /\ [[Playit!Idle EXCEPT !.op = "delete", !.at = "stop", !.key = r] EXCEPT !.alone = b] \in Job
  OBVIOUS
<1>5. ASSUME NEW M \in SUBSET Rows, NEW b \in BOOLEAN
      PROVE  /\ [Playit!Idle EXCEPT !.op = "unlink", !.at = "next", !.more = M] \in Job
             /\ [[Playit!Idle EXCEPT !.op = "unlink", !.at = "next", !.more = M] EXCEPT !.alone = b] \in Job
  OBVIOUS
<1>. HIDE DEF Playit!Idle, Job
<1>. QED  BY <1>1, <1>2, <1>3, <1>4, <1>5

\* The requests on the account: Deploy, Undeploy, CreateRow, DeleteRow, Unlink.
LEMMA RequestsBegin ==
  ASSUME PlayitInv, NEW c \in Callers,
         \/ \E h \in Hosts : Playit!Deploy(c, h) \/ Playit!Undeploy(c, h)
         \/ Playit!CreateRow(c) \/ Playit!Unlink(c) \/ \E r \in Rows : Playit!DeleteRow(c, r)
  PROVE  PlayitInv'
<1>0. /\ RowTypes /\ TunnelTypes /\ JobTypes /\ UNCHANGED <<meta, remote, lost, pMade, pAccount, agent, seen>>
  BY DEF PlayitInv, PlayitTypes, Playit!Deploy, Playit!Undeploy, Playit!CreateRow, Playit!Unlink,
         Playit!DeleteRow, Playit!rowVars
<1>1. RowTypes'
  BY <1>0 DEF RowTypes, Playit!Deploy, Playit!Undeploy, Playit!CreateRow, Playit!Unlink, Playit!DeleteRow,
              Playit!rowVars
<1>2. TunnelTypes'
  BY <1>0 DEF TunnelTypes, Playit!Deploy, Playit!Undeploy, Playit!CreateRow, Playit!Unlink, Playit!DeleteRow,
              Playit!rowVars
<1>3. ASSUME NEW h \in Hosts, Playit!Deploy(c, h) PROVE JobTypes' /\ Accounted'
  <2>1. PICK o \in Origins : Playit!Begin(c, [Playit!Idle EXCEPT !.op = "deploy", !.at = "load", !.key = h, !.want = o])
    BY <1>3 DEF Playit!Deploy
  <2>. QED  BY <1>0, <2>1, NewJobs, Begins
<1>4. ASSUME NEW h \in Hosts, Playit!Undeploy(c, h) PROVE JobTypes' /\ Accounted'
  <2>1. CASE meta[h] = 0
    <3>1. Playit!Begin(c, [Playit!Idle EXCEPT !.op = "undeploy", !.at = "answer", !.key = h])
      BY <1>4, <2>1 DEF Playit!Undeploy, Playit!None
    <3>. QED  BY <1>0, <3>1, NewJobs, Begins
  <2>2. CASE meta[h] # 0
    <3>1. Playit!Begin(c, [Playit!Idle EXCEPT !.op = "undeploy", !.at = "remove", !.key = h, !.u = meta[h],
                                    !.copy = [meta EXCEPT ![h] = 0]])
      BY <1>4, <2>2 DEF Playit!Undeploy, Playit!None
    <3>2. meta[h] \in Ports /\ [meta EXCEPT ![h] = 0] \in Noted
      BY <1>0, <2>2 DEF TunnelTypes, Noted
    <3>. QED  BY <1>0, <3>1, <3>2, NewJobs, Begins
  <2>. QED  BY <2>1, <2>2
<1>5. ASSUME Playit!CreateRow(c) PROVE JobTypes' /\ Accounted'
  BY <1>0, <1>5, NewJobs, Begins DEF Playit!CreateRow
<1>6. ASSUME Playit!Unlink(c) PROVE JobTypes' /\ Accounted'
  <2>1. Playit!Begin(c, [Playit!Idle EXCEPT !.op = "unlink", !.at = "next", !.more = row]) /\ row \in SUBSET Rows
    BY <1>0, <1>6 DEF Playit!Unlink, RowTypes
  <2>. QED  BY <1>0, <2>1, NewJobs, Begins
<1>7. ASSUME NEW r \in Rows, Playit!DeleteRow(c, r) PROVE JobTypes' /\ Accounted'
  BY <1>0, <1>7, NewJobs, Begins DEF Playit!DeleteRow
<1>. QED  BY <1>1, <1>2, <1>3, <1>4, <1>5, <1>6, <1>7 DEF PlayitInv, PlayitTypes

\* The steps of a deploy.
LEMMA DeploySteps ==
  ASSUME PlayitInv, NEW c \in Callers,
         Playit!Load(c) \/ Playit!Find(c) \/ Playit!Replace(c) \/ Playit!StartAgent(c) \/ Playit!Allocated(c)
  PROVE  PlayitInv'
<1>. DEFINE x == job[c]
<1>0. /\ RowTypes /\ TunnelTypes /\ x \in Job /\ x \in AnyJob
      /\ x.at \in {"load", "find", "replace", "create", "alloc"}
      /\ UNCHANGED <<row, pLastRow, pAccount, pMade, origin, meta, lost, seen>>
  BY DEF PlayitInv, PlayitTypes, JobTypes, Job, Playit!Load, Playit!Find, Playit!Replace,
         Playit!StartAgent, Playit!Allocated, Playit!At, Playit!rowVars
<1>1. RowTypes'
  BY <1>0 DEF RowTypes, Playit!Load, Playit!Find, Playit!Replace, Playit!StartAgent, Playit!Allocated
<1>2. /\ TunnelTypes' /\ \A u \in Ports : remote'[u] = remote[u] \/ remote'[u] = Playit!NoTunnel
  BY <1>0 DEF TunnelTypes, Playit!Load, Playit!Find, Playit!Replace, Playit!StartAgent, Playit!Allocated
<1>3. [x EXCEPT !.ok = FALSE, !.at = "answer"] \in Job
  <2>1. "answer" \in Places /\ "answer" \notin Deploying \cup {"remove", "start"}
    BY DEF Places, Deploying
  <2>. QED  BY <1>0, <2>1, JobSteps
<1>4. ASSUME NEW y \in Job, job' = [job EXCEPT ![c] = y] PROVE JobTypes' /\ Accounted'
  BY <1>0, <1>2, <1>4, JobGoesOn
<1>5. Playit!Fail(c) => job' = [job EXCEPT ![c] = [x EXCEPT !.ok = FALSE, !.at = "answer"]]
  BY DEF Playit!Fail, Playit!Goto
<1>6. ASSUME Playit!Load(c) PROVE JobTypes' /\ Accounted'
  <2>1. x.key \in Hosts
    BY <1>0 DEF Job, Deploying
  <2>2. meta[x.key] \in {0} \cup Ports
    BY <1>0, <2>1 DEF TunnelTypes, Noted
  <2>3. /\ [x EXCEPT !.u = meta[x.key], !.at = "create"] \in Job /\ [x EXCEPT !.u = meta[x.key], !.at = "find"] \in Job
    BY <1>0, <2>2, JobSteps DEF Deploying
  <2>. QED  BY <1>3, <1>4, <1>5, <1>6, <2>3 DEF Playit!Load, Playit!Goto
<1>7. ASSUME Playit!Find(c) PROVE JobTypes' /\ Accounted'
  <2>1. [x EXCEPT !.at = "alloc"] \in Job /\ [x EXCEPT !.at = "replace"] \in Job /\ [x EXCEPT !.at = "create"] \in Job
    BY <1>0, JobSteps DEF Deploying
  <2>. QED  BY <1>3, <1>4, <1>5, <1>7, <2>1 DEF Playit!Find, Playit!Goto
<1>8. ASSUME Playit!Replace(c) PROVE JobTypes' /\ Accounted'
  <2>1. [x EXCEPT !.at = "create"] \in Job
    BY <1>0, JobSteps DEF Deploying
  <2>. QED  BY <1>3, <1>4, <1>5, <1>8, <2>1 DEF Playit!Replace, Playit!Goto
<1>10. ASSUME Playit!StartAgent(c) PROVE JobTypes' /\ Accounted'
  <2>1. job' = job => job' = [job EXCEPT ![c] = x]
    BY DEF PlayitInv, PlayitTypes, JobTypes
  <2>. QED  BY <1>0, <1>3, <1>4, <1>5, <1>10, <2>1 DEF Playit!StartAgent
<1>11. ASSUME Playit!Allocated(c) PROVE JobTypes' /\ Accounted'
  <2>1. ASSUME Playit!Exists(x.u) PROVE [x EXCEPT !.saved = TRUE, !.at = "read"] \in Job
    <3>1. x.u \in Ports
      BY <1>0, <2>1 DEF Playit!Exists, Playit!None, AnyJob
    <3>. QED  BY <1>0, <3>1, JobSteps DEF Deploying
  <2>. QED  BY <1>3, <1>4, <1>5, <1>11, <2>1 DEF Playit!Allocated, Playit!Goto
<1>12. JobTypes' /\ Accounted'
  BY <1>6, <1>7, <1>8, <1>10, <1>11
<1>. QED  BY <1>1, <1>2, <1>12 DEF PlayitInv, PlayitTypes

\* A tunnel appears at playit: the request saves it next, or its loss is explained.
LEMMA Appears ==
  ASSUME PlayitInv, NEW c \in Callers, job[c].at = "create", pMade + 1 \in Ports, pMade' = pMade + 1,
         remote' = [remote EXCEPT ![pMade + 1] = [host |-> job[c].key, origin |-> job[c].want]],
         UNCHANGED <<row, pLastRow, pAccount, agent, seen, origin, meta>>, lost' \in {lost, lost \cup {pMade + 1}},
         NEW y \in Job, job' = [job EXCEPT ![c] = y],
         (y.u = pMade + 1 /\ y.at = "read") \/ pMade + 1 \in lost'
  PROVE  PlayitInv'
<1>. DEFINE x == job[c]
<1>. PICK t \in Ports : t = pMade + 1
  OBVIOUS
<1>0. RowTypes /\ TunnelTypes /\ JobTypes /\ Accounted /\ x \in Job
  BY DEF PlayitInv, PlayitTypes, JobTypes
<1>2. [host |-> x.key, origin |-> x.want] \in [host : Hosts, origin : Origins]
  BY <1>0 DEF Job, Deploying
<1>3. RowTypes' /\ TunnelTypes' /\ JobTypes'
  BY <1>0, <1>2 DEF RowTypes, TunnelTypes, JobTypes
<1>4. ASSUME NEW u \in Ports PROVE Recorded(u)' \/ BeingSaved(u)'
  <2>1. CASE u = t
    BY <1>0, <2>1 DEF BeingSaved, Recorded, JobTypes
  <2>2. CASE u # t
    <3>1. Recorded(u) => Recorded(u)'
      BY <1>0, <2>2 DEF Recorded, Playit!Exists, TunnelTypes
    <3>2. BeingSaved(u) => BeingSaved(u)'
      BY <1>0 DEF BeingSaved, JobTypes
    <3>. QED  BY <1>0, <3>1, <3>2 DEF Accounted
  <2>. QED  BY <2>1, <2>2
<1>. QED  BY <1>3, <1>4 DEF PlayitInv, PlayitTypes, Accounted

LEMMA Creates ==
  ASSUME PlayitInv, NEW c \in Callers, Playit!CreateRemote(c) \/ Playit!CreateFails(c)
  PROVE  PlayitInv'
<1>. DEFINE x == job[c]
<1>0. /\ RowTypes /\ TunnelTypes /\ JobTypes /\ x \in Job /\ x.at = "create"
      /\ UNCHANGED <<row, pLastRow, pAccount, agent, seen, origin, meta>>
  BY DEF PlayitInv, PlayitTypes, JobTypes, Playit!CreateRemote, Playit!CreateFails, Playit!At
<1>1. CASE Playit!CreateRemote(c)
  <2>1. /\ pMade + 1 \in Ports /\ pMade' = pMade + 1 /\ lost' = lost
        /\ remote' = [remote EXCEPT ![pMade + 1] = [host |-> x.key, origin |-> x.want]]
        /\ job' = [job EXCEPT ![c] = [x EXCEPT !.u = pMade + 1, !.saved = FALSE, !.at = "read"]]
    BY <1>1 DEF Playit!CreateRemote, Playit!Goto
  <2>2. PICK y \in Job : y = [x EXCEPT !.u = pMade + 1, !.saved = FALSE, !.at = "read"]
    BY <1>0, <2>1, JobSteps DEF Deploying
  <2>3. y.u = pMade + 1 /\ y.at = "read"
    BY <1>0, <2>2 DEF Job, AnyJob
  <2>. QED  BY <1>0, <2>1, <2>2, <2>3, Appears
<1>2. CASE Playit!CreateFails(c)
  <2>0. "answer" \in Places /\ "answer" \notin Deploying \cup {"remove", "start"}
    BY DEF Places, Deploying
  <2>1. PICK y \in Job : y = [x EXCEPT !.ok = FALSE, !.at = "answer"]
    BY <1>0, <2>0, JobSteps
  <2>2. job' = [job EXCEPT ![c] = y]
    BY <1>2, <2>1 DEF Playit!CreateFails, Playit!Fail, Playit!Goto
  <2>3. CASE UNCHANGED <<pMade, remote, lost>>
    <3>1. RowTypes' /\ TunnelTypes' /\ JobTypes'
      BY <1>0, <2>2, <2>3 DEF RowTypes, TunnelTypes, JobTypes
    <3>2. Accounted'
      BY <1>0, <2>2, <2>3, JobGoesOn
    <3>. QED  BY <3>1, <3>2 DEF PlayitInv, PlayitTypes
  <2>4. CASE /\ pMade + 1 \in Ports /\ pMade' = pMade + 1 /\ lost' = lost \cup {pMade + 1}
             /\ remote' = [remote EXCEPT ![pMade + 1] = [host |-> x.key, origin |-> x.want]]
    BY <1>0, <2>2, <2>4, Appears
  <2>. QED  BY <1>2, <2>3, <2>4 DEF Playit!CreateFails
<1>. QED  BY <1>1, <1>2

\* The tunnel is written into provider_meta, in two awaits.
LEMMA Notes ==
  ASSUME PlayitInv, NEW c \in Callers, Playit!ReadMeta(c) \/ Playit!WriteMeta(c)
  PROVE  PlayitInv'
<1>. DEFINE x == job[c]
<1>0. /\ RowTypes /\ TunnelTypes /\ JobTypes /\ Accounted /\ x \in Job /\ x \in AnyJob
      /\ x.at \in {"read", "write"} /\ x.u \in Ports /\ x.key \in Hosts
      /\ UNCHANGED <<row, pLastRow, pAccount, pMade, origin, agent, seen, remote>>
  <2>1. x \in Job /\ x.at \in {"read", "write"}
    BY DEF PlayitInv, PlayitTypes, JobTypes, Playit!ReadMeta, Playit!WriteMeta, Playit!At
  <2>. QED  BY <2>1 DEF PlayitInv, PlayitTypes, Job, Deploying, Playit!ReadMeta, Playit!WriteMeta,
                        Playit!rowVars
<1>1. ASSUME Playit!ReadMeta(c), 1 \in row PROVE PlayitInv'
  <2>. DEFINE y == [x EXCEPT !.copy = meta, !.at = "write"]
  <2>1. job' = [job EXCEPT ![c] = y] /\ lost' = lost /\ meta' = meta
    BY <1>1 DEF Playit!ReadMeta, Playit!Goto
  <2>2. y \in Job /\ y.u = x.u /\ y.at = "write"
    <3>1. meta \in Noted
      BY <1>0 DEF TunnelTypes
    <3>2. y \in Job
      BY <1>0, <3>1, JobSteps DEF Deploying
    <3>. QED  BY <1>0, <3>2 DEF AnyJob
  <2>. HIDE DEF y
  <2>3. RowTypes' /\ TunnelTypes' /\ JobTypes'
    BY <1>0, <2>1, <2>2 DEF RowTypes, TunnelTypes, JobTypes
  <2>4. \A d \in Callers : job'[d].u = job[d].u /\ (d # c => job'[d] = job[d]) /\ job'[c].at = "write"
    BY <1>0, <2>1, <2>2 DEF JobTypes
  <2>5. Accounted'
    BY <1>0, <2>1, <2>4, StaysAccounted
  <2>. QED  BY <2>3, <2>5 DEF PlayitInv, PlayitTypes
<1>2. ASSUME NEW y \in Job, job' = [job EXCEPT ![c] = y], y.at \in {"alloc", "answer"},
             lost \subseteq lost', lost' \subseteq Ports, meta' \in Noted,
             \A h \in Hosts : meta[h] \in {0} \cup lost' \/ \E g \in Hosts : meta'[g] = meta[h],
             x.u \in lost' \/ \E g \in Hosts : meta'[g] = x.u
      PROVE  PlayitInv'
  <2>1. RowTypes' /\ TunnelTypes' /\ JobTypes'
    BY <1>0, <1>2 DEF RowTypes, TunnelTypes, JobTypes
  <2>2. \A d \in Callers : d # c => job'[d] = job[d]
    BY <1>0, <1>2 DEF JobTypes
  <2>3. \A u \in Ports : u = x.u => Recorded(u)'
    BY <1>2 DEF Recorded
  <2>4. Accounted'
    BY <1>0, <1>2, <2>2, <2>3, StaysAccounted
  <2>. QED  BY <2>1, <2>4 DEF PlayitInv, PlayitTypes
<1>3. ASSUME Playit!ReadMeta(c), 1 \notin row PROVE PlayitInv'
  <2>1. /\ \/ job' = [job EXCEPT ![c] = [x EXCEPT !.saved = TRUE, !.at = "answer"]]
           \/ job' = [job EXCEPT ![c] = [x EXCEPT !.saved = TRUE, !.at = "alloc"]]
        /\ lost' = lost \cup {x.u} /\ meta' = meta
    BY <1>3 DEF Playit!ReadMeta, Playit!Goto
  <2>2. /\ [x EXCEPT !.saved = TRUE, !.at = "answer"] \in Job /\ [x EXCEPT !.saved = TRUE, !.at = "answer"].at = "answer"
        /\ [x EXCEPT !.saved = TRUE, !.at = "alloc"] \in Job /\ [x EXCEPT !.saved = TRUE, !.at = "alloc"].at = "alloc"
    <3>1. [x EXCEPT !.saved = TRUE, !.at = "answer"].at = "answer" /\ [x EXCEPT !.saved = TRUE, !.at = "alloc"].at = "alloc"
      BY <1>0 DEF AnyJob
    <3>. QED  BY <1>0, <3>1, JobSteps DEF Deploying
  <2>3. meta' \in Noted /\ lost' \subseteq Ports
    BY <1>0, <2>1 DEF TunnelTypes
  <2>4. lost \subseteq lost' /\ x.u \in lost' /\ \A h \in Hosts : meta'[h] = meta[h]
    BY <2>1
  <2>. QED  BY <1>2, <2>1, <2>2, <2>3, <2>4
<1>4. ASSUME Playit!WriteMeta(c) PROVE PlayitInv'
  <2>. DEFINE new == [x.copy EXCEPT ![x.key] = x.u]  k == Playit!Idle.copy
  <2>1. /\ \/ job' = [job EXCEPT ![c] = [x EXCEPT !.saved = TRUE, !.copy = k, !.at = "answer"]]
           \/ job' = [job EXCEPT ![c] = [x EXCEPT !.saved = TRUE, !.copy = k, !.at = "alloc"]]
        /\ meta' = IF 1 \in row THEN new ELSE meta
        /\ lost' = lost \cup (IF 1 \in row THEN Playit!Overwritten(new) ELSE {x.u})
    BY <1>4 DEF Playit!WriteMeta, Playit!Goto
  <2>2. /\ [x EXCEPT !.saved = TRUE, !.copy = k, !.at = "answer"] \in Job
        /\ [x EXCEPT !.saved = TRUE, !.copy = k, !.at = "answer"].at = "answer"
        /\ [x EXCEPT !.saved = TRUE, !.copy = k, !.at = "alloc"] \in Job
        /\ [x EXCEPT !.saved = TRUE, !.copy = k, !.at = "alloc"].at = "alloc"
    <3>1. /\ [x EXCEPT !.saved = TRUE, !.copy = k, !.at = "answer"].at = "answer"
          /\ [x EXCEPT !.saved = TRUE, !.copy = k, !.at = "alloc"].at = "alloc"
      BY <1>0 DEF AnyJob
    <3>2. k \in Noted
      BY IdleJob
    <3>. HIDE DEF k
    <3>. QED  BY <1>0, <3>1, <3>2, JobSteps DEF Deploying
  <2>3. new \in Noted /\ new[x.key] = x.u /\ meta \in Noted /\ lost \subseteq Ports
    BY <1>0 DEF AnyJob, Noted, TunnelTypes
  <2>. HIDE DEF new, k
  <2>4. meta' \in Noted /\ lost' \subseteq Ports /\ lost \subseteq lost'
    BY <1>0, <2>1, <2>3 DEF Playit!Overwritten, Playit!None, Noted
  <2>5. \A h \in Hosts : meta[h] \in {0} \cup lost' \/ \E g \in Hosts : meta'[g] = meta[h]
    BY <2>1 DEF Playit!Overwritten, Playit!None
  <2>6. x.u \in lost' \/ \E g \in Hosts : meta'[g] = x.u
    BY <1>0, <2>1, <2>3
  <2>. QED  BY <1>2, <2>1, <2>2, <2>4, <2>5, <2>6
<1>. QED  BY <1>1, <1>3, <1>4

\* The removal of a host, and what happens to rows and the agent.
LEMMA RemovalSteps ==
  ASSUME PlayitInv, NEW c \in Callers,
         Playit!DeleteRemote(c) \/ Playit!Forget(c) \/ Playit!StartRow(c) \/ Playit!NextRow(c) \/ Playit!StopRow(c) \/ Playit!DropRow(c) \/ Playit!Answer(c)
  PROVE  PlayitInv'
<1>. DEFINE x == job[c]
<1>0. /\ RowTypes /\ TunnelTypes /\ JobTypes /\ Accounted /\ x \in Job /\ x \in AnyJob
      /\ x.at \in {"remove", "forget", "start", "next", "stop", "drop", "answer"}
      /\ UNCHANGED <<pLastRow, pMade, origin, seen>>
  BY DEF PlayitInv, PlayitTypes, JobTypes, Job, Playit!DeleteRemote, Playit!Forget, Playit!StartRow,
         Playit!NextRow, Playit!StopRow, Playit!DropRow, Playit!Answer, Playit!At, Playit!rowVars
<1>1. RowTypes'
  <2>1. row' \subseteq row /\ pAccount' \in BOOLEAN
    BY <1>0 DEF RowTypes, Playit!DeleteRemote, Playit!Forget, Playit!StartRow, Playit!NextRow,
                Playit!StopRow, Playit!DropRow, Playit!Answer, Playit!rowVars
  <2>2. agent' \in BOOLEAN
    BY <1>0 DEF RowTypes, Playit!DeleteRemote, Playit!Forget, Playit!StartRow, Playit!NextRow,
                Playit!StopRow, Playit!DropRow, Playit!Answer
  <2>. QED  BY <1>0, <2>1, <2>2 DEF RowTypes
<1>2. \A p \in Places : p \notin Deploying \cup {"remove", "start"} =>
        [x EXCEPT !.at = p] \in Job /\ [x EXCEPT !.silent = TRUE, !.at = p] \in Job
  BY <1>0, JobSteps
<1>3. PICK y \in Job : job' = [job EXCEPT ![c] = y]
  <2>1. CASE Playit!DeleteRemote(c) \/ Playit!Forget(c) \/ Playit!StartRow(c) \/ Playit!StopRow(c) \/ Playit!DropRow(c)
    BY <1>2, <2>1 DEF Playit!DeleteRemote, Playit!Forget, Playit!StartRow, Playit!StopRow, Playit!DropRow,
                      Playit!Goto, Playit!Silently, Places, Deploying
  <2>2. CASE Playit!NextRow(c)
    <3>1. CASE x.more = {}
      BY <1>2, <2>2, <3>1 DEF Playit!NextRow, Playit!Goto, Places, Deploying
    <3>2. CASE x.more # {}
      <4>1. PICK r \in x.more : job' = [job EXCEPT ![c] = [x EXCEPT !.key = r, !.more = x.more \ {r}, !.at = "stop"]]
        BY <1>0, <2>2, <3>2 DEF Playit!NextRow, Playit!Goto, AnyJob
      <4>2. r \in Rows /\ x.more \ {r} \in SUBSET Rows
        BY <1>0, <4>1 DEF AnyJob
      <4>. QED  BY <1>0, <4>1, <4>2, JobSteps
    <3>. QED  BY <3>1, <3>2
  <2>3. CASE Playit!Answer(c)
    BY <2>3, IdleJob DEF Playit!Answer
  <2>. QED  BY <2>1, <2>2, <2>3
<1>4. ASSUME meta' \in Noted, lost' \subseteq Ports, lost \subseteq lost',
             \A h \in Hosts : meta[h] \in {0} \cup lost' \/ \E g \in Hosts : meta'[g] = meta[h],
             \A u \in Ports : remote'[u] = remote[u] \/ remote'[u] = Playit!NoTunnel,
             remote' \in [Ports -> {Playit!NoTunnel} \cup [host : Hosts, origin : Origins]]
      PROVE  PlayitInv'
  <2>1. TunnelTypes' /\ JobTypes'
    BY <1>0, <1>3, <1>4 DEF TunnelTypes, JobTypes
  <2>2. \A d \in Callers : job[d].at \in {"read", "write"} => job'[d] = job[d]
    BY <1>0, <1>3 DEF JobTypes
  <2>3. Accounted'
    BY <1>0, <1>4, <2>2, StaysAccounted
  <2>. QED  BY <1>1, <2>1, <2>3 DEF PlayitInv, PlayitTypes
<1>5. CASE Playit!DeleteRemote(c)
  <2>1. x.u \in Ports
    BY <1>0, <1>5 DEF Job, Playit!DeleteRemote, Playit!At
  <2>2. meta' = meta /\ lost' \subseteq Ports /\ lost \subseteq lost'
    BY <1>0, <1>5, <2>1 DEF Playit!DeleteRemote, TunnelTypes
  <2>3. /\ remote' \in [Ports -> {Playit!NoTunnel} \cup [host : Hosts, origin : Origins]]
        /\ \A u \in Ports : remote'[u] = remote[u] \/ remote'[u] = Playit!NoTunnel
    BY <1>0, <1>5 DEF Playit!DeleteRemote, TunnelTypes
  <2>. QED  BY <1>0, <1>4, <2>2, <2>3 DEF TunnelTypes
<1>6. CASE Playit!Forget(c)
  <2>1. /\ meta' = (IF 1 \in row THEN x.copy ELSE meta) /\ lost' = lost \cup Playit!Overwritten(x.copy) /\ remote' = remote
        /\ x.copy \in Noted /\ meta \in Noted /\ lost \subseteq Ports
    BY <1>0, <1>6 DEF Playit!Forget, TunnelTypes, AnyJob
  <2>2. lost' \subseteq Ports
    BY <2>1 DEF Playit!Overwritten, Playit!None, Noted
  <2>3. \A h \in Hosts : meta[h] \in {0} \cup lost' \/ \E g \in Hosts : meta'[g] = meta[h]
    BY <2>1 DEF Playit!Overwritten, Playit!None
  <2>. QED  BY <1>0, <1>4, <2>1, <2>2, <2>3 DEF TunnelTypes
<1>7. CASE Playit!DropRow(c)
  <2>1. /\ meta' \in {meta, Playit!Idle.copy} /\ lost' \in {lost, lost \cup Playit!Overwritten(Playit!Idle.copy)} /\ remote' = remote
        /\ meta' = meta \/ lost' = lost \cup Playit!Overwritten(Playit!Idle.copy)
        /\ Playit!Idle.copy \in Noted /\ meta \in Noted /\ lost \subseteq Ports
    BY <1>0, <1>7, IdleJob DEF Playit!DropRow, TunnelTypes
  <2>2. lost' \subseteq Ports
    BY <2>1 DEF Playit!Overwritten, Playit!None, Noted
  <2>3. \A h \in Hosts : meta[h] \in {0} \cup lost' \/ \E g \in Hosts : meta'[g] = meta[h]
    BY <2>1 DEF Playit!Overwritten, Playit!None
  <2>. QED  BY <1>0, <1>4, <2>1, <2>2, <2>3 DEF TunnelTypes
<1>8. CASE Playit!StartRow(c) \/ Playit!NextRow(c) \/ Playit!StopRow(c) \/ Playit!Answer(c)
  <2>1. UNCHANGED <<meta, lost, remote>>
    BY <1>8 DEF Playit!StartRow, Playit!NextRow, Playit!StopRow, Playit!Answer
  <2>. QED  BY <1>0, <1>4, <2>1 DEF TunnelTypes
<1>. QED  BY <1>5, <1>6, <1>7, <1>8

LEMMA NextPlayit == PlayitInv /\ [Playit!Next]_playitVars => PlayitInv'
<1>. SUFFICES ASSUME PlayitInv, [Playit!Next]_playitVars PROVE PlayitInv'
  OBVIOUS
<1>0. RowTypes /\ TunnelTypes /\ JobTypes /\ Accounted
  BY DEF PlayitInv, PlayitTypes
<1>1. ASSUME NEW c \in Callers, Playit!Handle(c) PROVE PlayitInv'
  BY <1>1, DeploySteps, Creates, Notes, RemovalSteps DEF Playit!Handle
<1>2. CASE Playit!AgentConnects
  <2>1. UNCHANGED <<row, pLastRow, pAccount, pMade, origin, meta, remote, agent, job, lost>> /\ seen' = TRUE
    BY <1>2 DEF Playit!AgentConnects, Playit!rowVars
  <2>. QED  BY <1>0, <2>1 DEF PlayitInv, PlayitTypes, RowTypes, TunnelTypes, JobTypes, Accounted, Recorded,
                              BeingSaved, Playit!Exists
<1>3. CASE Playit!Restart
  <2>1. /\ UNCHANGED <<pMade, pAccount, origin, meta, remote, seen>> /\ job' = [c \in Callers |-> Playit!Idle]
        /\ lost' = lost \cup {u \in Ports : Playit!Exists(u) /\ \A h \in Hosts : meta[h] # u}
    BY <1>3 DEF Playit!Restart
  <2>2. row' \subseteq Rows /\ pLastRow' \in Rows
    BY <1>0, <1>3 DEF Playit!Restart, RowTypes
  <2>3. agent' \in BOOLEAN
    BY <1>0, <1>3 DEF Playit!Restart, RowTypes
  <2>4. RowTypes' /\ TunnelTypes' /\ JobTypes'
    BY <1>0, <2>1, <2>2, <2>3, IdleJob DEF RowTypes, TunnelTypes, JobTypes
  <2>5. Accounted'
    BY <2>1 DEF Accounted, Recorded, Playit!Exists
  <2>. QED  BY <2>4, <2>5 DEF PlayitInv, PlayitTypes
<1>4. CASE UNCHANGED playitVars
  BY <1>0, <1>4 DEF playitVars, PlayitInv, PlayitTypes, RowTypes, TunnelTypes, JobTypes, Accounted, Recorded,
                    BeingSaved, Playit!Exists
<1>. QED  BY <1>1, <1>2, <1>3, <1>4, RequestsBegin DEF Playit!Next

-----------------------------------------------------------------------------
(* What was asked of playit                                                *)

\* A request that no other has met is the only one.
AloneAtPlayit == \A c, d \in Callers : job[c] # Playit!Idle /\ job[c].alone /\ d # c => job[d] = Playit!Idle

\* A tunnel is known to hosts by its number, and stays the tunnel of the host it was
\* created for.
OfHost(u, h) == Playit!Exists(u) => remote[u].host = h
NumbersFit(x) ==
  /\ x.u <= pMade /\ \A h \in Hosts : x.copy[h] <= pMade /\ OfHost(x.copy[h], h)
  /\ x.at \in Deploying => x.op = "deploy" /\ x.ok /\ OfHost(x.u, x.key)
HostsOwn ==
  /\ \A u \in Ports : u > pMade => ~Playit!Exists(u)
  /\ \A h \in Hosts : meta[h] <= pMade /\ OfHost(meta[h], h)
  /\ \A c \in Callers : NumbersFit(job[c])

\* What a deploy that met no other has done so far.
DeploySoFar(x) ==
  LET h == x.key
      as == [host |-> h, origin |-> x.want]
  IN  /\ 1 \in row /\ x.want = origin[h]
      /\ x.at \in {"find", "replace"} => x.u = meta[h]
      /\ x.at = "create" => ~Playit!Exists(meta[h])
      /\ x.at \in {"read", "write"} /\ x.saved => Playit!Exists(x.u)
      /\ x.at \in {"read", "write", "alloc"} /\ Playit!Exists(x.u) => remote[x.u] = as
      /\ x.at = "answer" => Playit!Exists(meta[h]) /\ remote[meta[h]] = as

\* The tunnels of a host that playit still has are lost, or among some.
GoneBut(h, some) == \A u \in Ports : Playit!Exists(u) /\ remote[u].host = h => u \in lost \cup some

\* And any other request.
PlayitSoFar(x) ==
  x # Playit!Idle /\ x.alone /\ x.ok =>
    /\ x.op = "deploy" => x.key \in Hosts /\ x.at \in Deploying \cup {"answer"} /\ DeploySoFar(x)
    /\ x.op = "undeploy" => /\ x.key \in Hosts /\ x.at \in {"remove", "forget", "answer"}
                            /\ x.at \in {"remove", "forget"} => 1 \in row /\ x.copy[x.key] = 0
                            /\ x.at = "remove" => GoneBut(x.key, {x.u})
                            /\ x.at = "forget" => GoneBut(x.key, {})
                            /\ x.at = "answer" => meta[x.key] = 0 /\ GoneBut(x.key, {})
    /\ x.op = "create" => /\ x.at \in {"start", "answer"} /\ x.key \in row
                          /\ x.at = "answer" => agent \/ x.silent
    /\ x.op \in {"delete", "unlink"} =>
         /\ x.at \in {"stop", "drop", "next", "answer"}
         /\ x.at = "drop" /\ row = {x.key} => ~agent \/ x.silent
    /\ x.op # "none"

PlayitAsked == AloneAtPlayit /\ HostsOwn /\ \A c \in Callers : PlayitSoFar(job[c])

LEMMA PlayitNumbers ==
  ASSUME PlayitInv
  PROVE  /\ pMade \in Nat /\ Ports \subseteq Nat \ {0} /\ 0 \notin Ports
         /\ \A h \in Hosts : meta[h] \in {0} \cup Ports
         /\ \A c \in Callers : job[c] \in Job /\ job[c] \in AnyJob
BY StoresAssumption DEF PlayitInv, PlayitTypes, TunnelTypes, JobTypes, Job, Noted

LEMMA InitAsked == Playit!Init => PlayitAsked
<1>. SUFFICES ASSUME Playit!Init PROVE PlayitAsked
  OBVIOUS
<1>1. Playit!Idle.alone /\ Playit!Idle.op = "none" /\ \A c \in Callers : job[c] = Playit!Idle
  BY DEF Playit!Init, Playit!Idle
<1>2. NumbersFit(Playit!Idle)
  BY IdleJob DEF Playit!Init, NumbersFit, OfHost, Playit!Exists, Playit!None, Deploying
<1>3. HostsOwn
  BY <1>1, <1>2 DEF Playit!Init, HostsOwn, OfHost, Playit!Exists, Playit!None
<1>. QED  BY <1>1, <1>3 DEF PlayitAsked, AloneAtPlayit, PlayitSoFar

\* A step after which every number is one that was known before.
LEMMA OwnKept ==
  ASSUME PlayitInv, HostsOwn, pMade' = pMade,
         \A u \in Ports : remote'[u] = remote[u] \/ remote'[u] = Playit!NoTunnel,
         \A h \in Hosts : meta'[h] \in {0} \cup Ports /\ meta'[h] <= pMade /\ OfHost(meta'[h], h),
         \A c \in Callers : job'[c] \in AnyJob /\ NumbersFit(job'[c])
  PROVE  HostsOwn'
<1>1. ASSUME NEW u \in {0} \cup Ports, NEW h, OfHost(u, h) PROVE OfHost(u, h)'
  BY <1>1 DEF OfHost, Playit!Exists, Playit!None
<1>2. \A u \in Ports : ~Playit!Exists(u) => ~Playit!Exists(u)'
  BY DEF Playit!Exists, Playit!None
<1>3. ASSUME NEW c \in Callers PROVE NumbersFit(job[c])'
  <2>1. job'[c].u \in {0} \cup Ports /\ \A h \in Hosts : job'[c].copy[h] \in {0} \cup Ports
    BY DEF AnyJob, Noted
  <2>. QED  BY <1>1, <2>1 DEF NumbersFit
<1>4. \A h \in Hosts : OfHost(meta[h], h)'
  BY <1>1
<1>. QED  BY <1>2, <1>3, <1>4 DEF HostsOwn

\* A request that begins.
LEMMA BeginsAsked ==
  ASSUME PlayitInv, PlayitAsked, NEW c \in Callers, NEW x \in AnyJob, Playit!Begin(c, x), x.op # "none", x.alone,
         meta' = meta, remote' = remote, pMade' = pMade,
         \A b \in BOOLEAN : [x EXCEPT !.alone = b] \in AnyJob,
         NumbersFit(x), (\A d \in Callers : job[d] = Playit!Idle) => PlayitSoFar(x)'
  PROVE  PlayitAsked'
<1>. DEFINE active == {d \in Callers : job[d] # Playit!Idle}
            new == [x EXCEPT !.alone = (active = {})]
<1>1. \A d \in Callers : job[d] \in AnyJob
  BY PlayitNumbers
<1>2. /\ job[c] = Playit!Idle /\ job'[c] = new
      /\ \A d \in Callers \ {c} : job'[d] = IF d \in active THEN [job[d] EXCEPT !.alone = FALSE] ELSE job[d]
  BY DEF Playit!Begin
<1>3. /\ new \in AnyJob /\ new.u = x.u /\ new.copy = x.copy /\ new.op = x.op /\ new.at = x.at /\ new.key = x.key
      /\ new.want = x.want /\ new.saved = x.saved /\ new.ok = x.ok /\ new.alone = (active = {})
      /\ new.silent = x.silent
  <2>. DEFINE b == (active = {})
  <2>1. b \in BOOLEAN
    OBVIOUS
  <2>. HIDE DEF active, b
  <2>. QED  BY <2>1 DEF AnyJob
<1>4. ASSUME NEW d \in active, d # c
      PROVE  /\ job'[d] \in AnyJob /\ ~job'[d].alone /\ job'[d].u = job[d].u /\ job'[d].copy = job[d].copy
             /\ job'[d].op = job[d].op /\ job'[d].at = job[d].at /\ job'[d].key = job[d].key /\ job'[d].ok = job[d].ok
  <2>1. job'[d] = [job[d] EXCEPT !.alone = FALSE] /\ job[d] \in AnyJob
    BY <1>1, <1>2, <1>4
  <2>. QED  BY <2>1 DEF AnyJob
<1>. HIDE DEF new
<1>5. \A d \in Callers : job'[d] \in AnyJob /\ NumbersFit(job'[d])
  <2>1. NumbersFit(new)
    BY <1>3 DEF NumbersFit
  <2>2. ASSUME NEW d \in Callers \ {c} PROVE job'[d] \in AnyJob /\ NumbersFit(job'[d])
    <3>1. NumbersFit(job[d])
      BY DEF PlayitAsked, HostsOwn
    <3>. QED  BY <1>1, <1>2, <1>4, <3>1 DEF NumbersFit
  <2>. QED  BY <1>2, <1>3, <2>1, <2>2
<1>6. HostsOwn'
  BY <1>5, OwnKept, PlayitNumbers DEF PlayitAsked, HostsOwn
<1>7. AloneAtPlayit'
  <2>1. ASSUME NEW e \in Callers, NEW d \in Callers, job'[e] # Playit!Idle, job'[e].alone, d # e PROVE job'[d] = Playit!Idle
    <3>1. CASE e = c
      BY <1>2, <1>3, <2>1, <3>1
    <3>2. CASE e # c
      BY <1>2, <1>4, <2>1, <3>2
    <3>. QED  BY <3>1, <3>2
  <2>. QED  BY <2>1 DEF AloneAtPlayit, Playit!Idle, Playit!None
<1>8. ASSUME NEW d \in Callers PROVE PlayitSoFar(job[d])'
  <2>1. CASE d = c
    <3>1. x # Playit!Idle
      BY DEF Playit!Idle
    <3>2. PICK n \in AnyJob : n = new
      BY <1>3
    <3>3. /\ n.u = x.u /\ n.copy = x.copy /\ n.op = x.op /\ n.at = x.at /\ n.key = x.key /\ n.want = x.want
          /\ n.saved = x.saved /\ n.ok = x.ok /\ n.alone = (active = {}) /\ n.silent = x.silent
      BY <1>3, <3>2
    <3>4. n.alone => PlayitSoFar(x)'
      BY <3>3
    <3>. HIDE DEF active
    <3>5. n.alone => PlayitSoFar(n)'
      BY <3>1, <3>3, <3>4 DEF PlayitSoFar, DeploySoFar
    <3>6. ~n.alone => PlayitSoFar(n)'
      BY DEF PlayitSoFar
    <3>. QED  BY <1>2, <2>1, <3>2, <3>5, <3>6
  <2>2. CASE d # c
    BY <1>2, <1>4, <2>2 DEF PlayitSoFar, Playit!Idle, Playit!None
  <2>. QED  BY <2>1, <2>2
<1>. QED  BY <1>6, <1>7, <1>8 DEF PlayitAsked

\* A request that goes on or is answered.
LEMMA GoesOnAsked ==
  ASSUME PlayitInv, PlayitAsked, NEW c \in Callers, NEW y \in AnyJob, job[c].at # "idle",
         job' = [job EXCEPT ![c] = y], y = Playit!Idle \/ y.alone = job[c].alone,
         HostsOwn', PlayitSoFar(y)'
  PROVE  PlayitAsked'
<1>1. /\ job[c] # Playit!Idle /\ job'[c] = y /\ \A d \in Callers \ {c} : job'[d] = job[d]
  BY IdleJob, PlayitNumbers DEF PlayitInv, PlayitTypes, JobTypes
<1>2. AloneAtPlayit'
  <2>1. \A d, e \in Callers : job'[d] # Playit!Idle /\ job'[d].alone /\ e # d => job'[e] = Playit!Idle
    BY <1>1 DEF PlayitAsked, AloneAtPlayit
  <2>. QED  BY <2>1 DEF AloneAtPlayit, Playit!Idle, Playit!None
<1>3. ASSUME NEW d \in Callers PROVE PlayitSoFar(job[d])'
  <2>1. CASE d = c
    BY <1>1, <2>1 DEF PlayitSoFar, DeploySoFar, GoneBut
  <2>2. CASE d # c /\ job[d] # Playit!Idle
    <3>1. ~job[d].alone /\ job'[d] = job[d]
      BY <1>1, <2>2 DEF PlayitAsked, AloneAtPlayit
    <3>. QED  BY <3>1 DEF PlayitSoFar, Playit!Idle, Playit!None
  <2>3. CASE d # c /\ job[d] = Playit!Idle
    <3>1. job'[d] = Playit!Idle
      BY <1>1, <2>3
    <3>. QED  BY <3>1 DEF PlayitSoFar, Playit!Idle, Playit!None
  <2>. QED  BY <2>1, <2>2, <2>3
<1>. QED  BY <1>2, <1>3 DEF PlayitAsked

\* The same for a step that creates no tunnel.
LEMMA AskedKept ==
  ASSUME PlayitInv, PlayitAsked, NEW c \in Callers, NEW y \in AnyJob, job[c].at # "idle",
         job' = [job EXCEPT ![c] = y], y = Playit!Idle \/ y.alone = job[c].alone,
         pMade' = pMade, \A u \in Ports : remote'[u] = remote[u] \/ remote'[u] = Playit!NoTunnel,
         \A h \in Hosts : meta'[h] \in {0} \cup Ports /\ meta'[h] <= pMade /\ OfHost(meta'[h], h),
         NumbersFit(y), PlayitSoFar(y)'
  PROVE  PlayitAsked'
<1>1. \A d \in Callers : job'[d] \in AnyJob /\ NumbersFit(job'[d])
  <2>1. \A d \in Callers : job[d] \in AnyJob /\ NumbersFit(job[d]) /\ job'[d] = IF d = c THEN y ELSE job[d]
    BY PlayitNumbers DEF PlayitAsked, HostsOwn, PlayitInv, PlayitTypes, JobTypes
  <2>. QED  BY <2>1
<1>2. HostsOwn'
  BY <1>1, OwnKept DEF PlayitAsked
<1>. QED  BY <1>2, GoesOnAsked

\* Nothing is known of tunnel 0.
LEMMA NoNumber == PlayitInv => 0 <= pMade /\ \A h : OfHost(0, h)
BY PlayitNumbers DEF OfHost, Playit!Exists, Playit!None

\* A step of a deploy that leaves the rows as they are.
LEMMA DeployGoes ==
  ASSUME PlayitInv, PlayitAsked, NEW c \in Callers, NEW y \in AnyJob, job[c].at \in Deploying,
         job' = [job EXCEPT ![c] = y], NumbersFit(y),
         y.op = job[c].op, y.key = job[c].key, y.alone = job[c].alone, y.ok => job[c].ok,
         y.at \in Deploying \cup {"answer"},
         pMade' = pMade, \A u \in Ports : remote'[u] = remote[u] \/ remote'[u] = Playit!NoTunnel,
         \A h \in Hosts : meta'[h] \in {0} \cup Ports /\ meta'[h] <= pMade /\ OfHost(meta'[h], h),
         y.ok /\ DeploySoFar(job[c]) => DeploySoFar(y)'
  PROVE  PlayitAsked'
<1>. DEFINE x == job[c]
<1>1. /\ x \in Job /\ NumbersFit(x) /\ PlayitSoFar(x) /\ x.at # "idle"
  BY PlayitNumbers DEF PlayitAsked, HostsOwn, Deploying
<1>2. x.key \in Hosts /\ x.op = "deploy" /\ x # Playit!Idle
  BY <1>1 DEF Job, NumbersFit, Playit!Idle, Deploying
<1>3. PlayitSoFar(y)'
  <2>1. SUFFICES ASSUME y.alone, y.ok PROVE DeploySoFar(y)'
    BY <1>2 DEF PlayitSoFar
  <2>2. DeploySoFar(x)
    BY <1>1, <1>2, <2>1 DEF PlayitSoFar
  <2>. QED  BY <2>1, <2>2
<1>. QED  BY <1>1, <1>3, AskedKept

\* And one that gives up.
LEMMA DeployFails ==
  ASSUME PlayitInv, PlayitAsked, NEW c \in Callers, job[c].at \in Deploying, Playit!Fail(c),
         UNCHANGED <<meta, pMade>>, \A u \in Ports : remote'[u] = remote[u] \/ remote'[u] = Playit!NoTunnel
  PROVE  PlayitAsked'
<1>. DEFINE x == job[c]
<1>1. x \in AnyJob /\ NumbersFit(x) /\ HostsOwn
  BY PlayitNumbers DEF PlayitAsked, HostsOwn
<1>2. PICK y \in AnyJob : y = [x EXCEPT !.ok = FALSE, !.at = "answer"]
  BY <1>1 DEF AnyJob, Places
<1>3. job' = [job EXCEPT ![c] = y]
  BY <1>2 DEF Playit!Fail, Playit!Goto
<1>4. /\ y.u = x.u /\ y.copy = x.copy /\ y.op = x.op /\ y.key = x.key /\ y.alone = x.alone /\ y.at = "answer"
      /\ ~y.ok
  BY <1>1, <1>2 DEF AnyJob
<1>5. NumbersFit(y)
  BY <1>1, <1>4 DEF NumbersFit, Deploying
<1>. QED  BY <1>1, <1>3, <1>4, <1>5, DeployGoes, PlayitNumbers DEF HostsOwn

LEMMA DeployAsked ==
  ASSUME PlayitInv, PlayitAsked, NEW c \in Callers,
         \/ Playit!Load(c) \/ Playit!Find(c) \/ Playit!Replace(c) \/ Playit!StartAgent(c)
         \/ Playit!ReadMeta(c) \/ Playit!WriteMeta(c) \/ Playit!Allocated(c)
  PROVE  PlayitAsked'
<1>. DEFINE x == job[c]
<1>1. /\ x \in Job /\ x \in AnyJob /\ NumbersFit(x) /\ HostsOwn
      /\ pMade \in Nat /\ 0 \notin Ports /\ \A h \in Hosts : meta[h] \in {0} \cup Ports
      /\ \A h \in Hosts : meta[h] <= pMade /\ OfHost(meta[h], h)
  BY PlayitNumbers DEF PlayitAsked, HostsOwn
<1>2. job \in [Callers -> Job] /\ remote \in [Ports -> {Playit!NoTunnel} \cup [host : Hosts, origin : Origins]]
  BY DEF PlayitInv, PlayitTypes, JobTypes, TunnelTypes
<1>3. x.at \in Deploying => x.key \in Hosts /\ x.want \in Origins /\ x.op = "deploy"
  BY <1>1 DEF Job, NumbersFit
<1>. USE DEF Playit!At, Playit!Goto, Playit!rowVars
\* A step that touches nothing but the request itself.
<1>4. ASSUME NEW y \in AnyJob, x.at \in Deploying, job' = [job EXCEPT ![c] = y],
             UNCHANGED <<row, origin, meta, pMade, remote>>,
             y.op = x.op, y.key = x.key, y.want = x.want, y.copy = x.copy, y.alone = x.alone, y.ok = x.ok,
             y.u \in {0} \cup Ports, y.u <= pMade, OfHost(y.u, y.key), y.at \in Deploying,
             DeploySoFar(x) => DeploySoFar(y)
      PROVE  PlayitAsked'
  <2>1. NumbersFit(y)
    BY <1>1, <1>3, <1>4 DEF NumbersFit
  <2>2. DeploySoFar(y) => DeploySoFar(y)'
    BY <1>4 DEF DeploySoFar, Playit!Exists
  <2>. QED  BY <1>1, <1>4, <2>1, <2>2, DeployGoes
<1>5. CASE Playit!Load(c)
  <2>1. x.at = "load"
    BY <1>5 DEF Playit!Load
  <2>2. CASE 1 \in row /\ pAccount
    <3>1. PICK y \in AnyJob : y = [x EXCEPT !.u = meta[x.key], !.at = IF meta[x.key] = 0 THEN "create" ELSE "find"]
      BY <1>1, <1>3, <2>1 DEF AnyJob, Deploying, Places
    <3>2. job' = [job EXCEPT ![c] = y] /\ UNCHANGED <<row, origin, meta, pMade, remote>>
      BY <1>5, <2>2, <3>1 DEF Playit!Load, Playit!None
    <3>3. /\ y.u = meta[x.key] /\ y.at = (IF meta[x.key] = 0 THEN "create" ELSE "find")
          /\ y.op = x.op /\ y.key = x.key /\ y.want = x.want /\ y.copy = x.copy /\ y.alone = x.alone /\ y.ok = x.ok
      BY <1>1, <3>1 DEF AnyJob
    <3>4. DeploySoFar(x) => DeploySoFar(y)
      BY <2>1, <3>3 DEF DeploySoFar, Playit!Exists, Playit!None
    <3>. QED  BY <1>1, <1>3, <1>4, <2>1, <3>2, <3>3, <3>4 DEF Deploying
  <2>3. CASE ~(1 \in row /\ pAccount)
    BY <1>5, <2>1, <2>3, DeployFails DEF Playit!Load, Deploying
  <2>. QED  BY <2>2, <2>3
\* A step that only moves the request on.
<1>6. ASSUME NEW p \in {"alloc", "replace", "create"}, x.at \in Deploying, Playit!Goto(c, x, p),
             UNCHANGED <<row, origin, meta, pMade, remote>>,
             DeploySoFar(x) => DeploySoFar([x EXCEPT !.at = p])
      PROVE  PlayitAsked'
  <2>1. PICK y \in AnyJob : y = [x EXCEPT !.at = p]
    BY <1>1, <1>6 DEF AnyJob, Places
  <2>2. /\ job' = [job EXCEPT ![c] = y] /\ y.at = p /\ y.u = x.u
        /\ y.op = x.op /\ y.key = x.key /\ y.want = x.want /\ y.copy = x.copy /\ y.alone = x.alone /\ y.ok = x.ok
    BY <1>1, <1>6, <2>1 DEF AnyJob
  <2>3. x.u \in {0} \cup Ports /\ x.u <= pMade /\ OfHost(x.u, x.key)
    BY <1>1, <1>6 DEF AnyJob, NumbersFit
  <2>. QED  BY <1>4, <1>6, <2>1, <2>2, <2>3 DEF Deploying
<1>7. CASE Playit!Find(c)
  <2>1. x.at = "find" /\ UNCHANGED <<row, origin, meta, pMade, remote>>
    BY <1>7 DEF Playit!Find
  <2>2. OfHost(x.u, x.key)
    BY <1>1, <2>1 DEF NumbersFit, Deploying
  <2>3. CASE Playit!Exists(x.u) /\ remote[x.u].origin = x.want /\ Playit!Goto(c, x, "alloc")
    <3>1. remote[x.u] = [host |-> x.key, origin |-> x.want]
      BY <1>1, <1>2, <2>2, <2>3 DEF OfHost, Playit!Exists, AnyJob, Playit!None
    <3>. QED  BY <1>1, <1>6, <2>1, <2>3, <3>1 DEF DeploySoFar, Deploying, AnyJob
  <2>4. CASE Playit!Goto(c, x, "replace")
    BY <1>1, <1>6, <2>1, <2>4 DEF DeploySoFar, Deploying, AnyJob
  <2>5. CASE ~Playit!Exists(x.u) /\ Playit!Goto(c, x, "create")
    BY <1>1, <1>6, <2>1, <2>5 DEF DeploySoFar, Deploying, AnyJob
  <2>6. CASE Playit!Fail(c)
    BY <2>1, <2>6, DeployFails DEF Deploying
  <2>. QED  BY <1>7, <2>3, <2>4, <2>5, <2>6 DEF Playit!Find
<1>8. CASE Playit!Allocated(c)
  <2>1. x.at = "alloc" /\ UNCHANGED <<row, origin, meta, pMade, remote>>
    BY <1>8 DEF Playit!Allocated
  <2>2. CASE Playit!Exists(x.u) /\ Playit!Goto(c, [x EXCEPT !.saved = TRUE], "read")
    <3>1. PICK y \in AnyJob : y = [x EXCEPT !.saved = TRUE, !.at = "read"]
      BY <1>1 DEF AnyJob, Places
    <3>2. /\ job' = [job EXCEPT ![c] = y] /\ y.at = "read" /\ y.u = x.u
          /\ y.op = x.op /\ y.key = x.key /\ y.want = x.want /\ y.copy = x.copy /\ y.alone = x.alone /\ y.ok = x.ok
      BY <1>1, <2>2, <3>1 DEF AnyJob
    <3>3. DeploySoFar(x) => DeploySoFar(y)
      BY <2>1, <2>2, <3>2 DEF DeploySoFar
    <3>4. x.u \in {0} \cup Ports /\ x.u <= pMade /\ OfHost(x.u, x.key)
      BY <1>1, <2>1 DEF AnyJob, NumbersFit, Deploying
    <3>. QED  BY <1>4, <2>1, <3>2, <3>3, <3>4 DEF Deploying
  <2>3. CASE Playit!Fail(c)
    BY <2>1, <2>3, DeployFails DEF Deploying
  <2>. QED  BY <1>8, <2>2, <2>3 DEF Playit!Allocated
<1>10. CASE Playit!Replace(c)
  <2>1. x.at = "replace" /\ UNCHANGED <<row, origin, meta, pMade>>
    BY <1>10 DEF Playit!Replace
  <2>2. CASE /\ Playit!Exists(x.u) /\ remote' = [remote EXCEPT ![x.u] = Playit!NoTunnel]
             /\ Playit!Goto(c, x, "create")
    <3>1. PICK y \in AnyJob : y = [x EXCEPT !.at = "create"]
      BY <1>1 DEF AnyJob, Places
    <3>2. /\ job' = [job EXCEPT ![c] = y] /\ y.at = "create" /\ y.u = x.u
          /\ y.op = x.op /\ y.key = x.key /\ y.want = x.want /\ y.copy = x.copy /\ y.alone = x.alone /\ y.ok = x.ok
      BY <1>1, <2>2, <3>1 DEF AnyJob
    <3>3. \A u \in Ports : remote'[u] = IF u = x.u THEN Playit!NoTunnel ELSE remote[u]
      BY <1>2, <2>2
    <3>4. NumbersFit(y)
      BY <1>1, <2>1, <3>2 DEF NumbersFit, Deploying
    <3>5. DeploySoFar(x) => DeploySoFar(y)'
      <4>1. x.u \in {0} \cup Ports
        BY <1>1 DEF AnyJob
      <4>. QED  BY <2>1, <3>2, <3>3, <4>1 DEF DeploySoFar, Playit!Exists, Playit!None
    <3>. QED  BY <1>1, <2>1, <3>2, <3>3, <3>4, <3>5, DeployGoes DEF Deploying
  <2>3. CASE Playit!Fail(c)
    <3>1. \A u \in Ports : remote'[u] = remote[u] \/ remote'[u] = Playit!NoTunnel
      BY <1>2, <1>10 DEF Playit!Replace
    <3>. QED  BY <2>1, <2>3, <3>1, DeployFails DEF Deploying
  <2>. QED  BY <1>10, <2>2, <2>3 DEF Playit!Replace
<1>11. CASE Playit!StartAgent(c)
  <2>1. x.at = "create" /\ UNCHANGED <<row, origin, meta, pMade, remote>>
    BY <1>11 DEF Playit!StartAgent
  <2>2. CASE job' = job
    <3>1. job' = [job EXCEPT ![c] = x]
      BY <1>2, <2>2
    <3>2. PICK y \in AnyJob : y = x
      BY <1>1
    <3>3. x.u \in {0} \cup Ports /\ x.u <= pMade /\ OfHost(x.u, x.key)
      BY <1>1, <2>1 DEF AnyJob, NumbersFit, Deploying
    <3>. QED  BY <1>4, <2>1, <3>1, <3>2, <3>3 DEF Deploying
  <2>3. CASE Playit!Fail(c)
    BY <2>1, <2>3, DeployFails DEF Deploying
  <2>. QED  BY <1>11, <2>2, <2>3 DEF Playit!StartAgent
<1>12. CASE Playit!ReadMeta(c)
  <2>1. x.at = "read" /\ UNCHANGED <<row, origin, meta, pMade, remote>>
    BY <1>12 DEF Playit!ReadMeta
  <2>2. meta \in Noted
    BY DEF PlayitInv, PlayitTypes, TunnelTypes
  <2>3. x.u \in {0} \cup Ports /\ x.u <= pMade /\ OfHost(x.u, x.key)
    BY <1>1, <2>1 DEF AnyJob, NumbersFit, Deploying
  <2>4. CASE 1 \in row
    <3>1. PICK y \in AnyJob : y = [x EXCEPT !.copy = meta, !.at = "write"]
      BY <1>1, <2>2 DEF AnyJob, Places
    <3>2. /\ job' = [job EXCEPT ![c] = y] /\ y.at = "write" /\ y.u = x.u /\ y.copy = meta /\ y.saved = x.saved
          /\ y.op = x.op /\ y.key = x.key /\ y.want = x.want /\ y.alone = x.alone /\ y.ok = x.ok
      BY <1>1, <1>12, <2>4, <3>1 DEF AnyJob, Playit!ReadMeta
    <3>3. NumbersFit(y)
      BY <1>1, <1>3, <2>1, <2>3, <3>2 DEF NumbersFit, Deploying
    <3>4. DeploySoFar(x) => DeploySoFar(y)'
      BY <2>1, <3>2 DEF DeploySoFar, Playit!Exists
    <3>. QED  BY <1>1, <2>1, <3>2, <3>3, <3>4, DeployGoes DEF Deploying
  <2>5. CASE 1 \notin row
    <3>1. PICK y \in AnyJob : y = [x EXCEPT !.saved = TRUE, !.at = IF x.saved THEN "answer" ELSE "alloc"]
      BY <1>1 DEF AnyJob, Places
    <3>2. /\ job' = [job EXCEPT ![c] = y] /\ y.at \in {"answer", "alloc"} /\ y.u = x.u /\ y.copy = x.copy
          /\ y.op = x.op /\ y.key = x.key /\ y.want = x.want /\ y.alone = x.alone /\ y.ok = x.ok
      BY <1>1, <1>12, <2>5, <3>1 DEF AnyJob, Playit!ReadMeta
    <3>3. NumbersFit(y)
      BY <1>1, <1>3, <2>1, <2>3, <3>2 DEF NumbersFit, Deploying
    <3>4. ~DeploySoFar(x)
      BY <2>5 DEF DeploySoFar
    <3>. QED  BY <1>1, <2>1, <3>2, <3>3, <3>4, DeployGoes DEF Deploying
  <2>. QED  BY <2>4, <2>5
<1>13. CASE Playit!WriteMeta(c)
  <2>. DEFINE new == [x.copy EXCEPT ![x.key] = x.u]
  <2>1. /\ x.at = "write" /\ UNCHANGED <<row, origin, pMade, remote>> /\ meta' = IF 1 \in row THEN new ELSE meta
    BY <1>13 DEF Playit!WriteMeta
  <2>2. x.u \in {0} \cup Ports /\ x.u <= pMade /\ OfHost(x.u, x.key) /\ x.copy \in Noted /\ x.key \in Hosts
    BY <1>1, <1>3, <2>1 DEF AnyJob, NumbersFit, Deploying
  <2>3. new \in Noted /\ \A h \in Hosts : new[h] = IF h = x.key THEN x.u ELSE x.copy[h]
    BY <2>2 DEF Noted
  <2>. HIDE DEF new
  <2>4. \A h \in Hosts : meta'[h] \in {0} \cup Ports /\ meta'[h] <= pMade /\ OfHost(meta'[h], h)
    BY <1>1, <2>1, <2>2, <2>3 DEF NumbersFit, Noted
  <2>5. PICK y \in AnyJob : y = [x EXCEPT !.saved = TRUE, !.copy = Playit!Idle.copy,
                                         !.at = IF x.saved THEN "answer" ELSE "alloc"]
    <3>. DEFINE k == Playit!Idle.copy
    <3>1. k \in Noted
      BY IdleJob
    <3>. HIDE DEF k
    <3>2. CASE x.saved
      <4>1. [x EXCEPT !.saved = TRUE, !.copy = k, !.at = "answer"] \in AnyJob
        BY <1>1, <3>1 DEF AnyJob, Places
      <4>. QED  BY <3>2, <4>1 DEF k
    <3>3. CASE ~x.saved
      <4>1. [x EXCEPT !.saved = TRUE, !.copy = k, !.at = "alloc"] \in AnyJob
        BY <1>1, <3>1 DEF AnyJob, Places
      <4>. QED  BY <3>3, <4>1 DEF k
    <3>. QED  BY <3>2, <3>3
  <2>6. /\ job' = [job EXCEPT ![c] = y] /\ y.at = (IF x.saved THEN "answer" ELSE "alloc") /\ y.u = x.u
        /\ y.copy = Playit!Idle.copy
        /\ y.op = x.op /\ y.key = x.key /\ y.want = x.want /\ y.alone = x.alone /\ y.ok = x.ok
    BY <1>1, <1>13, <2>5 DEF AnyJob, Playit!WriteMeta
  <2>7. NumbersFit(y)
    BY <1>1, <1>3, <2>1, <2>2, <2>6, IdleJob, NoNumber DEF NumbersFit, Deploying
  <2>8. DeploySoFar(x) => DeploySoFar(y)'
    BY <2>1, <2>2, <2>3, <2>6 DEF DeploySoFar, Playit!Exists
  <2>. QED  BY <1>1, <2>1, <2>4, <2>6, <2>7, <2>8, DeployGoes DEF Deploying
<1>. QED  BY <1>5, <1>7, <1>8, <1>10, <1>11, <1>12, <1>13

\* A tunnel that appears at playit is nobody else's.
LEMMA AppearsAsked ==
  ASSUME PlayitInv, PlayitAsked, NEW c \in Callers, job[c].at = "create", pMade + 1 \in Ports, pMade' = pMade + 1,
         remote' = [remote EXCEPT ![pMade + 1] = [host |-> job[c].key, origin |-> job[c].want]],
         UNCHANGED <<row, origin, meta>>, NEW y \in AnyJob, job' = [job EXCEPT ![c] = y],
         y.copy = job[c].copy, y.key = job[c].key, y.op = job[c].op, y.want = job[c].want, y.alone = job[c].alone,
         \/ y.at = "read" /\ y.u = pMade + 1 /\ y.ok = job[c].ok /\ ~y.saved
         \/ y.at = "answer" /\ y.u = job[c].u /\ ~y.ok
  PROVE  PlayitAsked'
<1>. DEFINE x == job[c]
            as == [host |-> x.key, origin |-> x.want]
<1>1. /\ x \in Job /\ x \in AnyJob /\ NumbersFit(x) /\ PlayitSoFar(x) /\ HostsOwn
      /\ pMade \in Nat /\ Ports \subseteq Nat \ {0} /\ \A h \in Hosts : meta[h] \in {0} \cup Ports
      /\ \A h \in Hosts : meta[h] <= pMade /\ OfHost(meta[h], h)
  BY PlayitNumbers DEF PlayitAsked, HostsOwn
<1>2. job \in [Callers -> Job] /\ remote \in [Ports -> {Playit!NoTunnel} \cup [host : Hosts, origin : Origins]]
  BY DEF PlayitInv, PlayitTypes, JobTypes, TunnelTypes
<1>3. /\ x.at = "create" /\ pMade + 1 \in Ports /\ pMade' = pMade + 1 /\ UNCHANGED <<row, origin, meta>>
      /\ remote' = [remote EXCEPT ![pMade + 1] = as]
  OBVIOUS
<1>4. x.key \in Hosts /\ x.op = "deploy" /\ x.ok /\ x # Playit!Idle
  BY <1>1, <1>3 DEF Job, NumbersFit, Deploying, Playit!Idle
<1>7. \A u \in Ports : remote'[u] = IF u = pMade + 1 THEN as ELSE remote[u]
  BY <1>2, <1>3
\* No number that was in use is the new one.
<1>8. ASSUME NEW u \in {0} \cup Ports, u <= pMade PROVE \A h : OfHost(u, h) => OfHost(u, h)'
  BY <1>1, <1>7, <1>8 DEF OfHost, Playit!Exists, Playit!None
<1>9. HostsOwn'
  <2>1. \A u \in Ports : u > pMade' => ~Playit!Exists(u)'
    BY <1>1, <1>3, <1>7 DEF HostsOwn, Playit!Exists, Playit!None
  <2>2. \A h \in Hosts : meta'[h] <= pMade' /\ OfHost(meta[h], h)'
    <3>1. \A u \in {0} \cup Ports : u <= pMade => u <= pMade + 1
      BY <1>1
    <3>. QED  BY <1>1, <1>3, <1>8, <3>1
  <2>3. ASSUME NEW z \in AnyJob, NumbersFit(z) PROVE NumbersFit(z)' \/ (z.at \in Deploying /\ ~(z.u <= pMade))
    <3>1. z.u \in {0} \cup Ports /\ \A h \in Hosts : z.copy[h] \in {0} \cup Ports
      BY DEF AnyJob, Noted
    <3>2. \A u \in {0} \cup Ports : u <= pMade => u <= pMade + 1
      BY <1>1
    <3>. QED  BY <1>3, <1>8, <2>3, <3>1, <3>2 DEF NumbersFit
  <2>4. ASSUME NEW d \in Callers PROVE NumbersFit(job[d])'
    <3>1. CASE d # c
      <4>1. job'[d] = job[d] /\ job[d] \in AnyJob /\ NumbersFit(job[d])
        BY <1>2, <3>1, PlayitNumbers DEF HostsOwn, PlayitAsked
      <4>2. NumbersFit(job'[d])
        BY <4>1
      <4>. QED  BY <2>3, <4>1, <4>2 DEF NumbersFit
    <3>2. CASE d = c
      <4>1. job'[c] = y
        BY <1>2
      <4>2. \A h \in Hosts : x.copy[h] \in {0} \cup Ports /\ x.copy[h] <= pMade /\ OfHost(x.copy[h], h)
        BY <1>1 DEF AnyJob, Noted, NumbersFit
      <4>3. \A h \in Hosts : y.copy[h] <= pMade' /\ OfHost(y.copy[h], h)'
        <5>1. \A u \in {0} \cup Ports : u <= pMade => u <= pMade + 1
          BY <1>1
        <5>. QED  BY <1>3, <1>8, <4>2, <5>1
      <4>4. ASSUME y.at = "read", y.u = pMade + 1, y.ok = x.ok PROVE NumbersFit(y)'
        <5>1. remote'[y.u] = as /\ y.u <= pMade'
          BY <1>1, <1>3, <1>7, <4>4
        <5>2. OfHost(y.u, y.key)' /\ y.op = "deploy" /\ y.ok
          BY <1>4, <4>4, <5>1 DEF OfHost
        <5>. QED  BY <4>3, <5>1, <5>2 DEF NumbersFit
      <4>5. ASSUME y.at = "answer", y.u = x.u PROVE NumbersFit(y)'
        <5>1. PICK v \in {0} \cup Ports : v = y.u /\ v <= pMade
          BY <1>1, <4>5 DEF NumbersFit, AnyJob
        <5>2. v <= pMade'
          <6>1. \A u \in {0} \cup Ports : u <= pMade => u <= pMade + 1
            BY <1>1
          <6>. QED  BY <1>3, <5>1, <6>1
        <5>. QED  BY <4>3, <4>5, <5>1, <5>2 DEF NumbersFit, Deploying
      <4>6. NumbersFit(y)'
        BY <4>4, <4>5
      <4>. QED  BY <3>2, <4>1, <4>6 DEF NumbersFit, OfHost
    <3>. QED  BY <3>1, <3>2
  <2>. QED  BY <2>1, <2>2, <2>4 DEF HostsOwn
<1>10. PlayitSoFar(y)'
  <2>1. SUFFICES ASSUME y.alone, y.ok PROVE DeploySoFar(y)'
    BY <1>4 DEF PlayitSoFar, Deploying
  <2>2. DeploySoFar(x) /\ y.at = "read" /\ y.u = pMade + 1 /\ ~y.saved
    BY <1>1, <1>4, <2>1 DEF PlayitSoFar
  <2>. QED  BY <1>3, <1>7, <2>2 DEF DeploySoFar
<1>. QED  BY <1>3, <1>9, <1>10, GoesOnAsked

LEMMA CreateAsked ==
  ASSUME PlayitInv, PlayitAsked, NEW c \in Callers, Playit!CreateRemote(c) \/ Playit!CreateFails(c)
  PROVE  PlayitAsked'
<1>. DEFINE x == job[c]
<1>1. x \in AnyJob /\ x.at = "create" /\ UNCHANGED <<row, origin, meta>>
  BY PlayitNumbers DEF Playit!CreateRemote, Playit!CreateFails, Playit!At
<1>2. CASE Playit!CreateRemote(c)
  <2>1. /\ pMade + 1 \in Ports /\ pMade' = pMade + 1
        /\ remote' = [remote EXCEPT ![pMade + 1] = [host |-> x.key, origin |-> x.want]]
        /\ job' = [job EXCEPT ![c] = [x EXCEPT !.u = pMade + 1, !.saved = FALSE, !.at = "read"]]
    BY <1>2 DEF Playit!CreateRemote, Playit!Goto
  <2>2. PICK y \in AnyJob : y = [x EXCEPT !.u = pMade + 1, !.saved = FALSE, !.at = "read"]
    BY <1>1, <2>1 DEF AnyJob, Places
  <2>3. /\ y.at = "read" /\ y.u = pMade + 1 /\ y.copy = x.copy /\ ~y.saved
        /\ y.op = x.op /\ y.key = x.key /\ y.want = x.want /\ y.alone = x.alone /\ y.ok = x.ok
    BY <1>1, <2>2 DEF AnyJob
  <2>. QED  BY <1>1, <2>1, <2>2, <2>3, AppearsAsked
<1>3. CASE Playit!CreateFails(c)
  <2>1. CASE UNCHANGED <<pMade, remote, lost>>
    BY <1>1, <1>3, <2>1, DeployFails DEF Playit!CreateFails, Deploying
  <2>2. CASE /\ pMade + 1 \in Ports /\ pMade' = pMade + 1
             /\ remote' = [remote EXCEPT ![pMade + 1] = [host |-> x.key, origin |-> x.want]]
    <3>1. PICK y \in AnyJob : y = [x EXCEPT !.ok = FALSE, !.at = "answer"]
      BY <1>1 DEF AnyJob, Places
    <3>2. job' = [job EXCEPT ![c] = y]
      BY <1>3, <3>1 DEF Playit!CreateFails, Playit!Fail, Playit!Goto
    <3>3. /\ y.at = "answer" /\ y.u = x.u /\ y.copy = x.copy /\ ~y.ok
          /\ y.op = x.op /\ y.key = x.key /\ y.want = x.want /\ y.alone = x.alone
      BY <1>1, <3>1 DEF AnyJob
    <3>. QED  BY <1>1, <2>2, <3>2, <3>3, AppearsAsked
  <2>. QED  BY <1>3, <2>1, <2>2 DEF Playit!CreateFails
<1>. QED  BY <1>2, <1>3

\* The removal of a host, and what happens to rows and the agent.
LEMMA RemovalAsked ==
  ASSUME PlayitInv, PlayitAsked, NEW c \in Callers,
         \/ Playit!DeleteRemote(c) \/ Playit!Forget(c) \/ Playit!StartRow(c) \/ Playit!NextRow(c)
         \/ Playit!StopRow(c) \/ Playit!DropRow(c) \/ Playit!Answer(c)
  PROVE  PlayitAsked'
<1>. DEFINE x == job[c]
<1>1. /\ x \in AnyJob /\ NumbersFit(x) /\ PlayitSoFar(x)
      /\ pMade \in Nat /\ \A h \in Hosts : meta[h] \in {0} \cup Ports /\ meta[h] <= pMade /\ OfHost(meta[h], h)
      /\ x.at \in {"remove", "forget", "start", "next", "stop", "drop", "answer"}
      /\ pMade' = pMade /\ origin' = origin
  BY PlayitNumbers DEF PlayitAsked, HostsOwn, Playit!At, Playit!rowVars, Playit!DeleteRemote, Playit!Forget,
     Playit!StartRow, Playit!NextRow, Playit!StopRow, Playit!DropRow, Playit!Answer
<1>2. remote \in [Ports -> {Playit!NoTunnel} \cup [host : Hosts, origin : Origins]]
  BY DEF PlayitInv, PlayitTypes, TunnelTypes
<1>3. \A h \in Hosts : x.copy[h] \in {0} \cup Ports /\ x.copy[h] <= pMade /\ OfHost(x.copy[h], h)
  BY <1>1 DEF AnyJob, Noted, NumbersFit
<1>4. x # Playit!Idle
  BY <1>1 DEF Playit!Idle
<1>5. ASSUME NEW y \in AnyJob, job' = [job EXCEPT ![c] = y], y.alone = x.alone, y.u = x.u, y.copy = x.copy,
             y.at \in {"forget", "next", "stop", "drop", "answer"},
             meta' = meta \/ (\A h \in Hosts : meta'[h] = x.copy[h]) \/ (\A h \in Hosts : meta'[h] = 0),
             \A u \in Ports : remote'[u] = remote[u] \/ remote'[u] = Playit!NoTunnel,
             PlayitSoFar(y)'
      PROVE  PlayitAsked'
  <2>1. \A h \in Hosts : meta'[h] \in {0} \cup Ports /\ meta'[h] <= pMade /\ OfHost(meta'[h], h)
    BY <1>1, <1>3, <1>5, NoNumber
  <2>2. NumbersFit(y)
    BY <1>1, <1>5 DEF NumbersFit, Deploying
  <2>. QED  BY <1>1, <1>5, <2>1, <2>2, AskedKept
<1>6. CASE Playit!DeleteRemote(c)
  <2>1. /\ x.at = "remove" /\ UNCHANGED <<row, meta>>
        /\ remote' \in {remote, [remote EXCEPT ![x.u] = Playit!NoTunnel]} /\ lost \subseteq lost'
        /\ remote' = [remote EXCEPT ![x.u] = Playit!NoTunnel] \/ x.u \in lost'
        /\ \/ job' = [job EXCEPT ![c] = [x EXCEPT !.at = "forget"]]
           \/ job' = [job EXCEPT ![c] = [x EXCEPT !.silent = TRUE, !.at = "forget"]]
    BY <1>6 DEF Playit!DeleteRemote, Playit!At, Playit!Goto, Playit!Silently, Playit!rowVars
  <2>2. PICK y \in AnyJob : /\ job' = [job EXCEPT ![c] = y] /\ y.at = "forget" /\ y.alone = x.alone /\ y.u = x.u
                            /\ y.copy = x.copy /\ y.op = x.op /\ y.key = x.key /\ y.ok = x.ok
    <3>1. /\ [x EXCEPT !.at = "forget"] \in AnyJob /\ [x EXCEPT !.silent = TRUE, !.at = "forget"] \in AnyJob
      BY <1>1 DEF AnyJob, Places
    <3>. QED  BY <1>1, <2>1, <3>1 DEF AnyJob
  <2>3. \A u \in Ports : remote'[u] = remote[u] \/ (remote'[u] = Playit!NoTunnel /\ u = x.u)
    BY <1>2, <2>1
  <2>4. PICK v : v = x.u /\ (v \in Ports => v \in lost' \/ ~Playit!Exists(v)')
    <3>1. PICK v : v = x.u
      OBVIOUS
    <3>. QED  BY <1>2, <2>1, <3>1 DEF Playit!Exists
  <2>5. \A h : GoneBut(h, {x.u}) => GoneBut(h, {})'
    BY <2>1, <2>3, <2>4 DEF GoneBut, Playit!Exists
  <2>6. PlayitSoFar(y)'
    BY <1>1, <1>4, <2>1, <2>2, <2>5 DEF PlayitSoFar, AnyJob, Deploying
  <2>. QED  BY <1>2, <1>5, <2>2, <2>3, <2>1, <2>6
<1>7. CASE Playit!Forget(c)
  <2>1. /\ x.at = "forget" /\ remote' = remote /\ row' = row /\ meta' = (IF 1 \in row THEN x.copy ELSE meta)
        /\ job' = [job EXCEPT ![c] = [x EXCEPT !.at = "answer"]]
    BY <1>7 DEF Playit!Forget, Playit!At, Playit!Goto, Playit!rowVars
  <2>2. PICK y \in AnyJob : /\ job' = [job EXCEPT ![c] = y] /\ y.at = "answer" /\ y.alone = x.alone /\ y.u = x.u
                            /\ y.copy = x.copy /\ y.op = x.op /\ y.key = x.key /\ y.ok = x.ok
    <3>1. [x EXCEPT !.at = "answer"] \in AnyJob
      BY <1>1 DEF AnyJob, Places
    <3>. QED  BY <1>1, <2>1, <3>1 DEF AnyJob
  <2>3. \A h : GoneBut(h, {}) => GoneBut(h, {})'
    BY <1>7, <2>1 DEF GoneBut, Playit!Exists, Playit!Forget
  <2>4. PlayitSoFar(y)'
    BY <1>1, <1>4, <2>1, <2>2, <2>3 DEF PlayitSoFar, AnyJob, Deploying
  <2>. QED  BY <1>5, <2>1, <2>2, <2>4
<1>8. CASE Playit!StartRow(c)
  <2>1. /\ x.at = "start" /\ UNCHANGED <<meta, remote, row>>
        /\ \/ agent' = TRUE /\ job' = [job EXCEPT ![c] = [x EXCEPT !.at = "answer"]]
           \/ job' = [job EXCEPT ![c] = [x EXCEPT !.silent = TRUE, !.at = "answer"]]
    BY <1>8 DEF Playit!StartRow, Playit!At, Playit!Goto, Playit!Silently, Playit!rowVars
  <2>2. PICK y \in AnyJob : /\ job' = [job EXCEPT ![c] = y] /\ y.at = "answer" /\ y.alone = x.alone /\ y.u = x.u
                            /\ y.copy = x.copy /\ y.op = x.op /\ y.key = x.key /\ y.ok = x.ok /\ (agent' \/ y.silent)
    <3>1. /\ [x EXCEPT !.at = "answer"] \in AnyJob /\ [x EXCEPT !.silent = TRUE, !.at = "answer"] \in AnyJob
      BY <1>1 DEF AnyJob, Places
    <3>. QED  BY <1>1, <2>1, <3>1 DEF AnyJob
  <2>3. PlayitSoFar(y)'
    BY <1>1, <1>4, <2>1, <2>2 DEF PlayitSoFar, AnyJob, Deploying
  <2>. QED  BY <1>5, <2>1, <2>2, <2>3
<1>9. CASE Playit!NextRow(c)
  <2>1. x.at = "next" /\ UNCHANGED <<meta, remote, row>>
    BY <1>9 DEF Playit!NextRow, Playit!At
  <2>2. PICK y \in AnyJob : /\ job' = [job EXCEPT ![c] = y] /\ y.at \in {"answer", "stop"} /\ y.alone = x.alone /\ y.u = x.u
                            /\ y.copy = x.copy /\ y.op = x.op /\ y.ok = x.ok
    <3>1. CASE x.more = {}
      <4>1. [x EXCEPT !.at = "answer"] \in AnyJob
        BY <1>1 DEF AnyJob, Places
      <4>. QED  BY <1>1, <1>9, <3>1, <4>1 DEF AnyJob, Playit!NextRow, Playit!Goto
    <3>2. CASE x.more # {}
      <4>1. PICK r \in x.more : job' = [job EXCEPT ![c] = [x EXCEPT !.key = r, !.more = x.more \ {r}, !.at = "stop"]]
        BY <1>1, <1>9, <3>2 DEF Playit!NextRow, Playit!Goto, AnyJob
      <4>2. [x EXCEPT !.key = r, !.more = x.more \ {r}, !.at = "stop"] \in AnyJob
        BY <1>1, <4>1 DEF AnyJob, Places
      <4>. QED  BY <1>1, <4>1, <4>2 DEF AnyJob
    <3>. QED  BY <3>1, <3>2
  <2>3. PlayitSoFar(y)'
    BY <1>1, <1>4, <2>1, <2>2 DEF PlayitSoFar, AnyJob, Deploying
  <2>. QED  BY <1>5, <2>1, <2>2, <2>3
<1>10. CASE Playit!StopRow(c)
  <2>1. /\ x.at = "stop" /\ UNCHANGED <<meta, remote, row>>
        /\ \/ job' = [job EXCEPT ![c] = [x EXCEPT !.at = "drop"]] /\ (row = {x.key} => ~agent')
           \/ job' = [job EXCEPT ![c] = [x EXCEPT !.silent = TRUE, !.at = "drop"]]
    BY <1>10 DEF Playit!StopRow, Playit!At, Playit!Goto, Playit!Silently, Playit!rowVars
  <2>2. PICK y \in AnyJob : /\ job' = [job EXCEPT ![c] = y] /\ y.at = "drop" /\ y.alone = x.alone /\ y.u = x.u
                            /\ y.copy = x.copy /\ y.op = x.op /\ y.key = x.key /\ y.ok = x.ok
                            /\ (row = {x.key} => ~agent' \/ y.silent)
    <3>1. [x EXCEPT !.at = "drop"] \in AnyJob /\ [x EXCEPT !.silent = TRUE, !.at = "drop"] \in AnyJob
      BY <1>1 DEF AnyJob, Places
    <3>. QED  BY <1>1, <2>1, <3>1 DEF AnyJob
  <2>3. PlayitSoFar(y)'
    BY <1>1, <1>4, <2>1, <2>2 DEF PlayitSoFar, AnyJob, Deploying
  <2>. QED  BY <1>5, <2>1, <2>2, <2>3
<1>11. CASE Playit!DropRow(c)
  <2>. DEFINE p == IF x.op = "unlink" THEN "next" ELSE "answer"
  <2>1. /\ x.at = "drop" /\ remote' = remote /\ meta' \in {meta, Playit!Idle.copy}
        /\ job' = [job EXCEPT ![c] = [x EXCEPT !.at = p]]
    BY <1>11 DEF Playit!DropRow, Playit!At, Playit!Goto
  <2>2. PICK y \in AnyJob : /\ job' = [job EXCEPT ![c] = y] /\ y.at \in {"next", "answer"} /\ y.alone = x.alone /\ y.u = x.u
                            /\ y.copy = x.copy /\ y.op = x.op /\ y.ok = x.ok
    <3>1. [x EXCEPT !.at = "next"] \in AnyJob /\ [x EXCEPT !.at = "answer"] \in AnyJob
      BY <1>1 DEF AnyJob, Places
    <3>. QED  BY <1>1, <2>1, <3>1 DEF AnyJob
  <2>3. PlayitSoFar(y)'
    BY <1>1, <1>4, <2>1, <2>2 DEF PlayitSoFar, AnyJob, Deploying
  <2>4. meta' = meta \/ \A h \in Hosts : meta'[h] = 0
    BY <2>1, IdleJob
  <2>. QED  BY <1>5, <2>1, <2>2, <2>3, <2>4
<1>12. CASE Playit!Answer(c)
  <2>1. job' = [job EXCEPT ![c] = Playit!Idle] /\ UNCHANGED <<meta, remote>>
    BY <1>12 DEF Playit!Answer
  <2>2. Playit!Idle \in AnyJob /\ NumbersFit(Playit!Idle) /\ PlayitSoFar(Playit!Idle)'
    BY IdleJob, NoNumber DEF Job, NumbersFit, Deploying, PlayitSoFar, Playit!Idle, Playit!None
  <2>. QED  BY <1>1, <2>1, <2>2, AskedKept
<1>. QED  BY <1>6, <1>7, <1>8, <1>9, <1>10, <1>11, <1>12

\* The requests on the account.
LEMMA RequestsAsked ==
  ASSUME PlayitInv, PlayitAsked, NEW c \in Callers,
         \/ \E h \in Hosts : Playit!Deploy(c, h) \/ Playit!Undeploy(c, h)
         \/ Playit!CreateRow(c) \/ Playit!Unlink(c) \/ \E r \in Rows : Playit!DeleteRow(c, r)
  PROVE  PlayitAsked'
<1>1. /\ UNCHANGED <<meta, remote, pMade>> /\ meta \in Noted /\ pMade \in Nat /\ row \subseteq Rows
      /\ \A h \in Hosts : meta[h] \in {0} \cup Ports /\ meta[h] <= pMade /\ OfHost(meta[h], h)
  BY PlayitNumbers DEF PlayitAsked, HostsOwn, PlayitInv, PlayitTypes, TunnelTypes, RowTypes, Playit!rowVars,
     Playit!Deploy, Playit!Undeploy, Playit!CreateRow, Playit!Unlink, Playit!DeleteRow
<1>2. /\ Playit!Idle.copy = [h \in Hosts |-> 0] /\ Playit!Idle.u = 0 /\ Playit!Idle.alone
      /\ \A h : OfHost(0, h) /\ 0 <= pMade
  BY IdleJob, NoNumber DEF Playit!Idle
<1>3. ASSUME NEW x \in Job, \A b \in BOOLEAN : [x EXCEPT !.alone = b] \in Job, Playit!Begin(c, x),
             x.op # "none", x.alone, NumbersFit(x), (\A d \in Callers : job[d] = Playit!Idle) => PlayitSoFar(x)'
      PROVE  PlayitAsked'
  <2>1. x \in AnyJob /\ \A b \in BOOLEAN : [x EXCEPT !.alone = b] \in AnyJob
    BY <1>3 DEF Job
  <2>. QED  BY <1>1, <1>3, <2>1, BeginsAsked
\* A request that finds no other finds nothing half done.
<1>9. ASSUME \A d \in Callers : job[d] = Playit!Idle, NEW h \in Hosts PROVE GoneBut(h, {meta[h]})
  <2>1. \A u \in Ports : Recorded(u)
    BY <1>9, IdleJob DEF PlayitInv, Accounted, BeingSaved
  <2>. QED  BY <1>1, <2>1 DEF GoneBut, Recorded, OfHost
<1>4. ASSUME NEW h \in Hosts, Playit!Deploy(c, h) PROVE PlayitAsked'
  <2>1. PICK o \in Origins : /\ Playit!Begin(c, [Playit!Idle EXCEPT !.op = "deploy", !.at = "load", !.key = h, !.want = o])
                             /\ origin' = [origin EXCEPT ![h] = o] /\ 1 \in row /\ row' = row
    BY <1>4 DEF Playit!Deploy, Playit!rowVars
  <2>2. PICK x \in Job : x = [Playit!Idle EXCEPT !.op = "deploy", !.at = "load", !.key = h, !.want = o]
    BY NewJobs
  <2>3. /\ x.op = "deploy" /\ x.at = "load" /\ x.key = h /\ x.want = o /\ x.u = 0 /\ x.copy = Playit!Idle.copy /\ x.alone /\ x.ok
        /\ \A b \in BOOLEAN : [x EXCEPT !.alone = b] \in Job
    BY <2>2, NewJobs, IdleJob DEF Playit!Idle
  <2>4. NumbersFit(x)
    BY <1>2, <2>3 DEF NumbersFit
  <2>5. origin'[h] = o
    BY <2>1 DEF PlayitInv, PlayitTypes, TunnelTypes
  <2>6. PlayitSoFar(x)'
    BY <2>1, <2>3, <2>5 DEF PlayitSoFar, DeploySoFar, Deploying
  <2>. QED  BY <1>3, <2>1, <2>2, <2>3, <2>4, <2>6
<1>5. ASSUME NEW h \in Hosts, Playit!Undeploy(c, h) PROVE PlayitAsked'
  <2>1. 1 \in row /\ row' = row /\ lost' = lost
    BY <1>5 DEF Playit!Undeploy, Playit!rowVars
  <2>4. \A some : GoneBut(h, some) => GoneBut(h, some)'
    BY <1>1, <2>1 DEF GoneBut, Playit!Exists
  <2>2. CASE meta[h] = 0
    <3>1. PICK x \in Job : x = [Playit!Idle EXCEPT !.op = "undeploy", !.at = "answer", !.key = h]
      BY NewJobs
    <3>2. /\ x.op = "undeploy" /\ x.at = "answer" /\ x.key = h /\ x.u = 0 /\ x.copy = Playit!Idle.copy /\ x.alone
          /\ \A b \in BOOLEAN : [x EXCEPT !.alone = b] \in Job
      BY <3>1, NewJobs, IdleJob DEF Playit!Idle
    <3>3. Playit!Begin(c, x)
      BY <1>5, <2>2, <3>1 DEF Playit!Undeploy, Playit!None
    <3>4. ASSUME \A d \in Callers : job[d] = Playit!Idle PROVE GoneBut(h, {})'
      <4>1. 0 \notin Ports
        BY PlayitNumbers
      <4>2. GoneBut(h, {})
        BY <1>9, <2>2, <3>4, <4>1 DEF GoneBut
      <4>. QED  BY <2>4, <4>2
    <3>5. NumbersFit(x) /\ ((\A d \in Callers : job[d] = Playit!Idle) => PlayitSoFar(x)')
      BY <1>1, <1>2, <2>2, <3>2, <3>4 DEF NumbersFit, PlayitSoFar, Deploying
    <3>. QED  BY <1>3, <3>2, <3>3, <3>5
  <2>3. CASE meta[h] # 0
    <3>. DEFINE k == [meta EXCEPT ![h] = 0]
    <3>1. meta[h] \in Ports /\ k \in Noted /\ \A g \in Hosts : k[g] = IF g = h THEN 0 ELSE meta[g]
      BY <1>1, <2>3 DEF Noted
    <3>2. Playit!Begin(c, [Playit!Idle EXCEPT !.op = "undeploy", !.at = "remove", !.key = h, !.u = meta[h], !.copy = k])
      BY <1>5, <2>3 DEF Playit!Undeploy, Playit!None
    <3>. HIDE DEF k
    <3>3. PICK x \in Job : x = [Playit!Idle EXCEPT !.op = "undeploy", !.at = "remove", !.key = h, !.u = meta[h], !.copy = k]
      BY <3>1, NewJobs
    <3>4. /\ x.op = "undeploy" /\ x.at = "remove" /\ x.key = h /\ x.u = meta[h] /\ x.copy = k /\ x.alone
          /\ \A b \in BOOLEAN : [x EXCEPT !.alone = b] \in Job
      <4>1. \A b \in BOOLEAN : [x EXCEPT !.alone = b] \in Job
        BY <3>1, <3>3, NewJobs
      <4>. QED  BY <3>3, <4>1 DEF Playit!Idle
    <3>5. NumbersFit(x) /\ ((\A d \in Callers : job[d] = Playit!Idle) => PlayitSoFar(x)')
      BY <1>1, <1>2, <1>9, <2>1, <2>4, <3>1, <3>4 DEF NumbersFit, PlayitSoFar, Deploying
    <3>. QED  BY <1>3, <3>2, <3>3, <3>4, <3>5
  <2>. QED  BY <2>2, <2>3
<1>6. CASE Playit!CreateRow(c)
  <2>1. /\ pLastRow + 1 \in Rows /\ pLastRow + 1 \in row'
        /\ Playit!Begin(c, [Playit!Idle EXCEPT !.op = "create", !.at = "start", !.key = pLastRow + 1])
    BY <1>6 DEF Playit!CreateRow
  <2>2. PICK x \in Job : x = [Playit!Idle EXCEPT !.op = "create", !.at = "start", !.key = pLastRow + 1]
    BY <2>1, NewJobs
  <2>3. /\ x.op = "create" /\ x.at = "start" /\ x.key = pLastRow + 1 /\ x.u = 0 /\ x.copy = Playit!Idle.copy /\ x.alone
        /\ \A b \in BOOLEAN : [x EXCEPT !.alone = b] \in Job
    BY <2>1, <2>2, NewJobs, IdleJob DEF Playit!Idle
  <2>4. NumbersFit(x) /\ PlayitSoFar(x)'
    BY <1>2, <2>1, <2>3 DEF NumbersFit, PlayitSoFar, Deploying
  <2>. QED  BY <1>3, <2>1, <2>2, <2>3, <2>4
<1>7. CASE Playit!Unlink(c)
  <2>1. row \in SUBSET Rows /\ Playit!Begin(c, [Playit!Idle EXCEPT !.op = "unlink", !.at = "next", !.more = row])
    BY <1>1, <1>7 DEF Playit!Unlink
  <2>2. PICK x \in Job : x = [Playit!Idle EXCEPT !.op = "unlink", !.at = "next", !.more = row]
    BY <2>1, NewJobs
  <2>3. /\ x.op = "unlink" /\ x.at = "next" /\ x.u = 0 /\ x.copy = Playit!Idle.copy /\ x.alone
        /\ \A b \in BOOLEAN : [x EXCEPT !.alone = b] \in Job
    BY <2>1, <2>2, NewJobs, IdleJob DEF Playit!Idle
  <2>4. NumbersFit(x) /\ PlayitSoFar(x)'
    BY <1>2, <2>3 DEF NumbersFit, PlayitSoFar, Deploying
  <2>. QED  BY <1>3, <2>1, <2>2, <2>3, <2>4
<1>8. ASSUME NEW r \in Rows, Playit!DeleteRow(c, r) PROVE PlayitAsked'
  <2>1. Playit!Begin(c, [Playit!Idle EXCEPT !.op = "delete", !.at = "stop", !.key = r])
    BY <1>8 DEF Playit!DeleteRow
  <2>2. PICK x \in Job : x = [Playit!Idle EXCEPT !.op = "delete", !.at = "stop", !.key = r]
    BY NewJobs
  <2>3. /\ x.op = "delete" /\ x.at = "stop" /\ x.u = 0 /\ x.copy = Playit!Idle.copy /\ x.alone
        /\ \A b \in BOOLEAN : [x EXCEPT !.alone = b] \in Job
    BY <2>2, NewJobs, IdleJob DEF Playit!Idle
  <2>4. NumbersFit(x) /\ PlayitSoFar(x)'
    BY <1>2, <2>3 DEF NumbersFit, PlayitSoFar, Deploying
  <2>. QED  BY <1>3, <2>1, <2>2, <2>3, <2>4
<1>. QED  BY <1>4, <1>5, <1>6, <1>7, <1>8

LEMMA NextAsked == PlayitInv /\ PlayitAsked /\ [Playit!Next]_playitVars => PlayitAsked'
<1>. SUFFICES ASSUME PlayitInv, PlayitAsked, [Playit!Next]_playitVars PROVE PlayitAsked'
  OBVIOUS
<1>1. ASSUME NEW c \in Callers, Playit!Handle(c) PROVE PlayitAsked'
  BY <1>1, DeployAsked, CreateAsked, RemovalAsked DEF Playit!Handle
<1>2. CASE Playit!AgentConnects
  <2>1. UNCHANGED <<row, pLastRow, pAccount, pMade, origin, meta, remote, agent, job, lost>>
    BY <1>2 DEF Playit!AgentConnects, Playit!rowVars
  <2>. QED  BY <2>1 DEF PlayitAsked, AloneAtPlayit, HostsOwn, NumbersFit, OfHost, Playit!Exists, PlayitSoFar, DeploySoFar,
                    GoneBut
<1>3. CASE Playit!Restart
  <2>1. UNCHANGED <<pMade, origin, meta, remote>> /\ \A c \in Callers : job'[c] = Playit!Idle
    BY <1>3 DEF Playit!Restart
  <2>2. Playit!Idle \in AnyJob /\ NumbersFit(Playit!Idle)
    BY IdleJob, NoNumber DEF Job, NumbersFit, Deploying
  <2>3. HostsOwn'
    BY <2>1, <2>2, OwnKept, PlayitNumbers DEF PlayitAsked, HostsOwn
  <2>4. AloneAtPlayit'
    BY <2>1 DEF AloneAtPlayit, Playit!Idle, Playit!None
  <2>5. \A c \in Callers : PlayitSoFar(job[c])'
    BY <2>1 DEF PlayitSoFar, Playit!Idle, Playit!None
  <2>. QED  BY <2>3, <2>4, <2>5 DEF PlayitAsked
<1>4. CASE UNCHANGED playitVars
  BY <1>4 DEF playitVars, PlayitAsked, AloneAtPlayit, HostsOwn, NumbersFit, OfHost, Playit!Exists, PlayitSoFar, DeploySoFar,
                    GoneBut
<1>. QED  BY <1>1, <1>2, <1>3, <1>4, RequestsAsked DEF Playit!Next

\* What the answer of a request that met no other says is so.
PlayitDone(c) ==
  (Playit!Answer(c) \/ Playit!DropRow(c)) /\ job[c].ok /\ job[c].alone =>
    LET h == job[c].key
    IN CASE job[c].op = "deploy" -> Playit!Exists(meta[h]) /\ remote[meta[h]].host = h
                                      /\ remote[meta[h]].origin = origin[h]
         [] job[c].op = "undeploy" ->
              meta[h] = 0 /\ \A u \in Ports : Playit!Exists(u) /\ remote[u].host = h => u \in lost
         [] job[c].op = "create" -> h \in row /\ (agent \/ job[c].silent)
         [] OTHER -> row' = {} /\ row # {} => ~ agent \/ job[c].silent

LEMMA PlayitDoneStep == PlayitInv /\ PlayitAsked => \A c \in Callers : PlayitDone(c)
<1>. SUFFICES ASSUME PlayitInv, PlayitAsked, NEW c \in Callers, Playit!Answer(c) \/ Playit!DropRow(c),
                     job[c].ok, job[c].alone
              PROVE  PlayitDone(c)
  BY DEF PlayitDone
<1>. DEFINE x == job[c]
<1>1. x \in AnyJob /\ PlayitSoFar(x) /\ x.at \in {"answer", "drop"}
  BY PlayitNumbers DEF PlayitAsked, Playit!Answer, Playit!DropRow, Playit!At
<1>2. x # Playit!Idle
  BY <1>1 DEF Playit!Idle
<1>3. CASE x.op = "deploy"
  BY <1>1, <1>2, <1>3 DEF PlayitDone, PlayitSoFar, DeploySoFar, Deploying
<1>4. CASE x.op = "undeploy"
  BY <1>1, <1>2, <1>4 DEF PlayitDone, PlayitSoFar, GoneBut
<1>5. CASE x.op = "create"
  BY <1>1, <1>2, <1>5 DEF PlayitDone, PlayitSoFar
<1>6. CASE x.op \in {"delete", "unlink"}
  <2>1. ASSUME row' = {}, row # {} PROVE ~agent \/ x.silent
    <3>1. CASE Playit!Answer(c)
      BY <2>1, <3>1 DEF Playit!Answer, Playit!rowVars
    <3>2. CASE Playit!DropRow(c)
      <4>1. row' = row \ {x.key} /\ x.at = "drop"
        BY <3>2 DEF Playit!DropRow, Playit!At
      <4>2. row = {x.key}
        BY <2>1, <4>1
      <4>. QED  BY <1>2, <1>6, <4>1, <4>2 DEF PlayitSoFar, PlayitAsked
    <3>. QED  BY <3>1, <3>2
  <2>. QED  BY <1>6, <2>1 DEF PlayitDone
<1>. QED  BY <1>1, <1>2, <1>3, <1>4, <1>5, <1>6 DEF PlayitSoFar, AnyJob

\* A create of a request that met no other finds no tunnel to take up.
Reuses(c) ==
  Playit!CreateRemote(c) /\ job[c].alone =>
    LET u == meta[job[c].key] IN ~ (Playit!Exists(u) /\ remote[u].origin = job[c].want)

LEMMA ReuseStep == PlayitInv /\ PlayitAsked => \A c \in Callers : Reuses(c)
<1>. SUFFICES ASSUME PlayitInv, PlayitAsked, NEW c \in Callers, Playit!CreateRemote(c), job[c].alone
              PROVE  ~Playit!Exists(meta[job[c].key])
  BY DEF Reuses
<1>. DEFINE x == job[c]
<1>1. x.at = "create" /\ NumbersFit(x) /\ PlayitSoFar(x)
  BY DEF PlayitAsked, HostsOwn, Playit!CreateRemote, Playit!At
<1>. QED  BY <1>1 DEF PlayitSoFar, DeploySoFar, NumbersFit, Deploying, Playit!Idle

-----------------------------------------------------------------------------
(* Tunnels at Cloudflare: what the requests are                            *)

\* In a script the credentials are written right after the row has been read, which names
\* the tunnel they are of.
CfSteps == {"stop", "cfDelete", "cfCreate", "insert", "swap", "read", "creds", "launch", "target", "dns", "drop"}
Orderly(s) == s \in Seq(CfSteps) /\ \A i \in 1 .. Len(s) - 1 : s[i + 1] = "creds" => s[i] = "read"
Fresh(s) == Orderly(s) /\ (s # <<>> => s[1] # "creds")
AnyCall == [op : Ops \cup {"none"}, row : {0} \cup Rows, todo : Seq(CfSteps), more : SUBSET Rows,
            u : {0} \cup Uuids, old : {0} \cup Uuids, alone : BOOLEAN, ok : BOOLEAN, silent : BOOLEAN]
\* Whoever is about to write credentials has a tunnel, and only the creation of one works
\* without a row.
Ready(x) ==
  x.todo # <<>> =>
    /\ x.todo[1] = "creds" => x.u \in Uuids
    /\ x.row \notin Rows => /\ x.op = "create"
                            /\ \/ x.todo[1] = "insert"
                               \/ Len(x.todo) > 1 /\ x.todo[1] = "cfCreate" /\ x.todo[2] = "insert"
Call == {x \in AnyCall : /\ Orderly(x.todo) /\ Ready(x) /\ (x.more # {} => x.op \in OverAll)
                         /\ x.op \in {"delete", "account"} =>
                              \A i \in 1 .. Len(x.todo) : x.todo[i] \notin {"read", "creds", "launch"}}

CfTypes ==
  /\ uuid \in [Rows -> {0} \cup Uuids] /\ account \in BOOLEAN
  /\ alive \subseteq Uuids /\ files \subseteq Uuids
  /\ slot \in [Rows -> {0} \cup Uuids] /\ dns \in [Rows -> {0} \cup Uuids]
  /\ purge \subseteq [at : {"select", "delete"}, keep : SUBSET Uuids]
  /\ made \in Uuids /\ lastRow \in Rows /\ asked \in 0 .. MaxRequests
CallTypes == call \in [Callers -> Call]
CfInv == CfTypes /\ CallTypes

LEMMA CfBounds == MaxUuid \in Nat \ {0} /\ 1 \in Uuids /\ MaxRequests \in Nat /\ 1 \in Rows /\ 0 \notin Uuids
BY StoresAssumption DEF Uuids

LEMMA CfSuffices == CfInv => TypeOK
<1>. SUFFICES ASSUME CfInv PROVE TypeOK
  OBVIOUS
<1>1. \A c \in Callers : call[c] \in AnyCall
  BY DEF CfInv, CallTypes, Call
<1>2. CfTypes
  BY DEF CfInv
<1>3. ASSUME NEW c \in Callers
      PROVE  /\ call[c].op \in Ops \cup {"none"} /\ call[c].row \in Rows \cup {None}
             /\ call[c].more \subseteq Rows /\ call[c].u \in {None} \cup Uuids /\ call[c].old \in {None} \cup Uuids
  BY <1>1 DEF AnyCall, None
<1>4. ASSUME NEW c \in Callers PROVE {call[c].alone, call[c].ok, call[c].silent} \subseteq BOOLEAN
  <2>1. call[c].alone \in BOOLEAN /\ call[c].ok \in BOOLEAN /\ call[c].silent \in BOOLEAN
    BY <1>1 DEF AnyCall
  <2>. QED  BY <2>1
<1>. QED  BY <1>2, <1>3, <1>4 DEF CfTypes, TypeOK, None

LEMMA FreshConcat ==
  ASSUME NEW s, NEW t, Fresh(s), Fresh(t)
  PROVE  Fresh(s \o t)
<1>1. s \in Seq(CfSteps) /\ t \in Seq(CfSteps) /\ Len(s) \in Nat /\ Len(t) \in Nat
  BY DEF Fresh, Orderly, CfSteps
<1>2. /\ s \o t \in Seq(CfSteps) /\ Len(s \o t) = Len(s) + Len(t)
      /\ \A i \in 1 .. Len(s) + Len(t) : (s \o t)[i] = IF i <= Len(s) THEN s[i] ELSE t[i - Len(s)]
  BY <1>1, ConcatProperties
<1>3. ASSUME NEW i \in 1 .. Len(s \o t) - 1, (s \o t)[i + 1] = "creds" PROVE (s \o t)[i] = "read"
  <2>1. CASE i + 1 <= Len(s)
    <3>1. (s \o t)[i + 1] = s[i + 1] /\ (s \o t)[i] = s[i] /\ i \in 1 .. Len(s) - 1
      BY <1>1, <1>2, <2>1
    <3>. QED  BY <1>3, <3>1 DEF Fresh, Orderly
  <2>2. CASE i = Len(s)
    <3>1. (s \o t)[i + 1] = t[1] /\ t # <<>>
      BY <1>1, <1>2, <2>2
    <3>. QED  BY <1>3, <3>1 DEF Fresh
  <2>3. CASE i > Len(s)
    <3>1. (s \o t)[i + 1] = t[i - Len(s) + 1] /\ (s \o t)[i] = t[i - Len(s)] /\ i - Len(s) \in 1 .. Len(t) - 1
      BY <1>1, <1>2, <2>3
    <3>. QED  BY <1>3, <3>1 DEF Fresh, Orderly
  <2>. QED  BY <1>1, <2>1, <2>2, <2>3
<1>4. ASSUME s \o t # <<>> PROVE (s \o t)[1] # "creds"
  <2>1. CASE s = <<>>
    <3>1. (s \o t)[1] = t[1] /\ t # <<>>
      BY <1>1, <1>2, <1>4, <2>1
    <3>. QED  BY <3>1 DEF Fresh
  <2>2. CASE s # <<>>
    <3>1. (s \o t)[1] = s[1]
      BY <1>1, <1>2, <2>2
    <3>. QED  BY <2>2, <3>1 DEF Fresh
  <2>. QED  BY <2>1, <2>2
<1>. QED  BY <1>2, <1>3, <1>4 DEF Fresh, Orderly

LEMMA Scripts ==
  /\ Ops = {"create", "restart", "sync", "redeploy", "recreate", "delete", "account", "network", "boot"}
  /\ \A op \in Ops : Fresh(Script[op])
  /\ Fresh(Redeploy)
  /\ \A op \in {"delete", "account"} : \A i \in 1 .. Len(Script[op]) : Script[op][i] \notin {"read", "creds", "launch"}
  /\ Script["create"] # <<>> /\ Len(Script["create"]) > 1 /\ Script["create"][1] = "cfCreate" /\ Script["create"][2] = "insert"
<1>1. Ops = {"create", "restart", "sync", "redeploy", "recreate", "delete", "account", "network", "boot"}
  BY DEF Ops, Script
<1>2. Fresh(Start) /\ Fresh(Redeploy)
  BY DEF Fresh, Orderly, CfSteps, Start, Redeploy
<1>3. Fresh(<<"cfCreate", "insert">>) /\ Fresh(<<"stop">>)
  BY DEF Fresh, Orderly, CfSteps
<1>4. Fresh(<<"stop", "cfDelete", "cfCreate", "swap">>)
  BY DEF Fresh, Orderly, CfSteps
<1>5. Fresh(<<"stop", "cfDelete", "drop">>)
  BY DEF Fresh, Orderly, CfSteps
<1>6. /\ Fresh(<<"cfCreate", "insert">> \o Start) /\ Fresh(<<"stop">> \o Start)
      /\ Fresh((<<"stop">> \o Start) \o Redeploy)
      /\ Fresh((<<"stop", "cfDelete", "cfCreate", "swap">> \o Start) \o Redeploy)
  BY <1>2, <1>3, <1>4, FreshConcat
<1>7. /\ Script["create"] = <<"cfCreate", "insert">> \o Start /\ Script["restart"] = <<"stop">> \o Start
      /\ Script["sync"] = (<<"stop">> \o Start) \o Redeploy /\ Script["redeploy"] = Redeploy
      /\ Script["recreate"] = (<<"stop", "cfDelete", "cfCreate", "swap">> \o Start) \o Redeploy
      /\ Script["delete"] = <<"stop", "cfDelete", "drop">> /\ Script["account"] = <<"stop", "cfDelete", "drop">>
      /\ Script["network"] = <<"stop">> \o Start /\ Script["boot"] = Start
  BY DEF Script
<1>8. \A op \in Ops : Fresh(Script[op])
  BY <1>1, <1>2, <1>5, <1>6, <1>7
<1>9. \A op \in {"delete", "account"} : \A i \in 1 .. Len(Script[op]) : Script[op][i] \notin {"read", "creds", "launch"}
  <2>1. ASSUME NEW s, s = <<"stop", "cfDelete", "drop">>, NEW i \in 1 .. Len(s) PROVE s[i] \notin {"read", "creds", "launch"}
    <3>1. s[1] = "stop" /\ s[2] = "cfDelete" /\ s[3] = "drop" /\ Len(s) = 3
      BY <2>1
    <3>2. i = 1 \/ i = 2 \/ i = 3
      BY <3>1
    <3>. QED  BY <3>1, <3>2
  <2>. QED  BY <1>7, <2>1
<1>10. /\ Len(<<"cfCreate", "insert">> \o Start) > 1 /\ (<<"cfCreate", "insert">> \o Start)[1] = "cfCreate"
       /\ (<<"cfCreate", "insert">> \o Start)[2] = "insert"
  <2>1. <<"cfCreate", "insert">> \in Seq(CfSteps) /\ Start \in Seq(CfSteps) /\ Len(Start) = 3
    BY DEF Start, CfSteps
  <2>2. ASSUME NEW s \in Seq(CfSteps), s = <<"cfCreate", "insert">>
        PROVE  Len(s \o Start) = 5 /\ (s \o Start)[1] = "cfCreate" /\ (s \o Start)[2] = "insert"
    <3>1. Len(s) = 2 /\ s[1] = "cfCreate" /\ s[2] = "insert"
      BY <2>2
    <3>2. /\ Len(s \o Start) = Len(s) + Len(Start)
          /\ \A i \in 1 .. Len(s) + Len(Start) : (s \o Start)[i] = IF i <= Len(s) THEN s[i] ELSE Start[i - Len(s)]
      BY <2>1, ConcatProperties
    <3>. QED  BY <2>1, <3>1, <3>2
  <2>. QED  BY <2>1, <2>2
<1>11. Script["create"] # <<>>
  BY <1>7, <1>10
<1>. QED  BY <1>1, <1>2, <1>7, <1>8, <1>9, <1>10, <1>11

\* What the rest of a script is.
LEMMA RestOf ==
  ASSUME NEW s \in Seq(CfSteps), s # <<>>, Orderly(s)
  PROVE  /\ Orderly(Tail(s)) /\ Len(s) \in Nat /\ Len(s) > 0 /\ Head(s) = s[1]
         /\ Len(Tail(s)) = Len(s) - 1
         /\ \A i \in 1 .. Len(s) - 1 : Tail(s)[i] = s[i + 1]
         /\ Tail(s) # <<>> => Len(s) > 1 /\ Tail(s)[1] = s[2] /\ (s[2] = "creds" => s[1] = "read")
<1>1. /\ Tail(s) \in Seq(CfSteps) /\ Len(s) \in Nat /\ Len(s) > 0 /\ Head(s) = s[1] /\ Len(Tail(s)) = Len(s) - 1
      /\ \A i \in 1 .. Len(s) - 1 : Tail(s)[i] = s[i + 1]
  OBVIOUS
<1>2. Orderly(Tail(s))
  BY <1>1 DEF Orderly
<1>3. ASSUME Tail(s) # <<>> PROVE Len(s) > 1 /\ Tail(s)[1] = s[2] /\ (s[2] = "creds" => s[1] = "read")
  <2>1. Len(Tail(s)) # 0
    BY <1>1, <1>3
  <2>. QED  BY <1>1, <2>1 DEF Orderly
<1>. QED  BY <1>1, <1>2, <1>3

\* What is left of a script that skips a step or two.
LEMMA EndOf ==
  ASSUME NEW s \in Seq(CfSteps), Orderly(s), NEW k \in {2, 3}, NEW t, t = SubSeq(s, k, Len(s))
  PROVE  /\ t \in Seq(CfSteps) /\ Orderly(t) /\ Len(s) \in Nat
         /\ Len(t) = IF k <= Len(s) THEN Len(s) - k + 1 ELSE 0
         /\ \A i \in 1 .. Len(t) : t[i] = s[i + k - 1] /\ i + k - 1 \in 1 .. Len(s)
<1>1. Len(s) \in Nat /\ k \in Nat
  OBVIOUS
<1>2. /\ t \in Seq(CfSteps) /\ Len(t) = (IF k <= Len(s) THEN Len(s) - k + 1 ELSE 0)
      /\ \A i \in 1 .. Len(t) : t[i] = s[i + k - 1] /\ i + k - 1 \in 1 .. Len(s)
  <2>1. CASE k <= Len(s)
    <3>1. /\ SubSeq(s, k, Len(s)) \in Seq(CfSteps) /\ Len(SubSeq(s, k, Len(s))) = Len(s) - k + 1
          /\ \A i \in 1 .. Len(s) - k + 1 : SubSeq(s, k, Len(s))[i] = s[k + i - 1]
      BY <1>1, <2>1, SubSeqProperties
    <3>. QED  BY <1>1, <2>1, <3>1
  <2>2. CASE k > Len(s)
    <3>1. t = <<>>
      BY <1>1, <2>2, SubSeqEmpty
    <3>. QED  BY <1>1, <2>2, <3>1
  <2>. QED  BY <1>1, <2>1, <2>2
<1>3. ASSUME NEW i \in 1 .. Len(t) - 1, t[i + 1] = "creds" PROVE t[i] = "read"
  <2>1. i \in 1 .. Len(t) /\ i + 1 \in 1 .. Len(t) /\ Len(t) \in Nat
    BY <1>2
  <2>2. t[i] = s[i + k - 1] /\ t[i + 1] = s[i + k - 1 + 1] /\ i + k - 1 \in 1 .. Len(s) - 1
    <3>1. t[i] = s[i + k - 1] /\ t[i + 1] = s[(i + 1) + k - 1] /\ i + k - 1 \in 1 .. Len(s) /\ (i + 1) + k - 1 \in 1 .. Len(s)
      BY <1>2, <2>1
    <3>2. (i + 1) + k - 1 = i + k - 1 + 1
      BY <1>1, <2>1
    <3>. QED  BY <1>1, <2>1, <3>1, <3>2
  <2>. QED  BY <1>3, <2>2 DEF Orderly
<1>. QED  BY <1>1, <1>2, <1>3 DEF Orderly

LEMMA NoCall ==
  /\ Idle \in Call /\ Orderly(<<>>)
  /\ Idle.op = "none" /\ Idle.row = 0 /\ Idle.todo = <<>> /\ Idle.more = {} /\ Idle.u = 0
<1>1. Orderly(<<>>)
  BY DEF Orderly
<1>2. Idle.op = "none" /\ Idle.row = 0 /\ Idle.todo = <<>> /\ Idle.more = {} /\ Idle.u = 0
  BY DEF Idle, None
<1>3. Idle \in AnyCall
  BY DEF AnyCall, Idle, None
<1>. QED  BY <1>1, <1>2, <1>3 DEF Call, Ready

\* A script under way goes on, is abandoned, or begins.
LEMMA GoesOnWith ==
  ASSUME NEW x \in Call, x.todo # <<>>
  PROVE  /\ \A y \in AnyCall :
              /\ y.todo = Tail(x.todo) /\ y.op = x.op /\ y.more = x.more
              /\ x.todo[1] = "read" => y.u \in Uuids \/ x.op \in {"delete", "account"}
              /\ y.row \in Rows \/ (y.row = x.row /\ x.todo[1] = "cfCreate")
              => y \in Call
         /\ \A y \in AnyCall : y.todo = <<>> /\ y.op = x.op /\ y.more \subseteq x.more => y \in Call
         /\ \A y \in AnyCall : /\ y.todo = Redeploy /\ y.op \notin {"delete", "account"} /\ y.row \in Rows
                               /\ y.op = x.op /\ y.more = x.more
                               => y \in Call
<1>. DEFINE s == x.todo
<1>0. s \in Seq(CfSteps) /\ Orderly(s) /\ Ready(x)
  BY DEF Call, AnyCall
<1>1. ASSUME NEW y \in AnyCall, y.todo = Tail(s), y.op = x.op, y.more = x.more,
             s[1] = "read" => y.u \in Uuids \/ x.op \in {"delete", "account"},
             y.row \in Rows \/ (y.row = x.row /\ s[1] = "cfCreate")
      PROVE  y \in Call
  <2>1. Orderly(y.todo)
    BY <1>0, <1>1, RestOf
  <2>2. ASSUME x.op \in {"delete", "account"}, NEW i \in 1 .. Len(y.todo) PROVE y.todo[i] \notin {"read", "creds", "launch"}
    <3>1. Len(s) \in Nat /\ Len(y.todo) = Len(s) - 1 /\ y.todo[i] = s[i + 1]
      BY <1>0, <1>1, <2>2, RestOf
    <3>. QED  BY <2>2, <3>1 DEF Call
  <2>3. Ready(y)
    <3>1. SUFFICES ASSUME y.todo # <<>> PROVE Ready(y)
      BY DEF Ready
    <3>2. Len(s) \in Nat /\ Len(s) > 1 /\ y.todo[1] = s[2] /\ (s[2] = "creds" => s[1] = "read") /\ Len(y.todo) = Len(s) - 1
      BY <1>0, <1>1, <3>1, RestOf
    <3>3. ASSUME y.todo[1] = "creds" PROVE y.u \in Uuids
      <4>1. 1 \in 1 .. Len(y.todo)
        BY <3>2
      <4>. QED  BY <1>1, <2>2, <3>2, <3>3, <4>1
    <3>4. ASSUME y.row \notin Rows PROVE y.op = "create" /\ y.todo[1] = "insert"
      BY <1>0, <1>1, <3>2, <3>4 DEF Ready
    <3>. QED  BY <3>3, <3>4 DEF Ready
  <2>. QED  BY <1>1, <2>1, <2>2, <2>3 DEF Call
<1>2. ASSUME NEW y \in AnyCall, y.todo = <<>>, y.op = x.op, y.more \subseteq x.more PROVE y \in Call
  <2>1. y.more # {} => x.more # {}
    BY <1>2
  <2>2. y.more # {} => y.op \in OverAll
    BY <1>2, <2>1 DEF Call
  <2>. QED  BY <1>2, <2>2, NoCall DEF Call, Ready
<1>3. ASSUME NEW y \in AnyCall, y.todo = Redeploy, y.op \notin {"delete", "account"}, y.row \in Rows,
             y.op = x.op, y.more = x.more
      PROVE  y \in Call
  <2>1. Fresh(Redeploy)
    BY Scripts
  <2>. QED  BY <1>3, <2>1 DEF Call, Ready, Fresh
<1>. QED  BY <1>1, <1>2, <1>3

\* What a call may turn into.
LEMMA CallTurns ==
  ASSUME CallTypes, NEW c \in Callers, NEW y \in Call, call' = [call EXCEPT ![c] = y]
  PROVE  CallTypes'
BY DEF CallTypes

LEMMA StepTurns ==
  ASSUME CallTypes, NEW c \in Callers, NEW y \in AnyCall, call[c].todo # <<>>, Step(c, y),
         y.op = call[c].op, y.more = call[c].more,
         call[c].todo[1] = "read" => y.u \in Uuids \/ call[c].op \in {"delete", "account"},
         y.row \in Rows \/ (y.row = call[c].row /\ call[c].todo[1] = "cfCreate")
  PROVE  CallTypes'
<1>. DEFINE x == call[c]
            z == [y EXCEPT !.todo = Tail(x.todo)]
<1>1. x \in Call /\ x.todo \in Seq(CfSteps) /\ Orderly(x.todo)
  BY DEF CallTypes, Call, AnyCall
<1>2. Tail(x.todo) \in Seq(CfSteps)
  BY <1>1
<1>3. z \in AnyCall /\ z.todo = Tail(x.todo) /\ z.op = y.op /\ z.more = y.more /\ z.u = y.u /\ z.row = y.row
  BY <1>2 DEF AnyCall
<1>4. z \in Call
  <2>. HIDE DEF z
  <2>. QED  BY <1>1, <1>3, GoesOnWith
<1>5. call' = [call EXCEPT ![c] = z]
  BY DEF Step
<1>. HIDE DEF z, x
<1>. QED  BY <1>4, <1>5, CallTurns

LEMMA InRows ==
  ASSUME CallTypes, NEW c \in Callers, call[c].todo # <<>>,
         call[c].op # "create" \/ call[c].todo[1] \notin {"insert", "cfCreate"}
  PROVE  call[c].row \in Rows
<1>. DEFINE x == call[c]
<1>1. x \in Call
  BY DEF CallTypes
<1>. QED  BY <1>1 DEF Call, Ready

\* A step that fails silently leaves some end of the script to do.
LEMMA SilentTurns ==
  ASSUME CallTypes, NEW c \in Callers, call[c].todo # <<>>, NEW rest \in Seq(CfSteps), Silently(c, rest),
         \/ rest = Tail(call[c].todo) /\ call[c].row \in Rows /\ call[c].todo[1] # "read"
         \/ rest = Redeploy /\ call[c].op \in {"sync", "recreate"}
         \/ rest = <<>>
         \/ /\ Orderly(rest) /\ call[c].row \in Rows /\ (rest # <<>> /\ rest[1] = "creds" => call[c].u \in Uuids)
            /\ call[c].todo[1] \in {"creds", "launch"} /\ call[c].op \notin {"delete", "account"}
  PROVE  CallTypes'
<1>1. PICK x : x = call[c]
  OBVIOUS
<1>2. x \in Call /\ x \in AnyCall /\ x.todo # <<>>
  BY <1>1 DEF CallTypes, Call
<1>3. PICK y : y = [x EXCEPT !.silent = TRUE, !.todo = rest]
  OBVIOUS
<1>4. y \in AnyCall /\ y.todo = rest /\ y.op = x.op /\ y.more = x.more /\ y.u = x.u /\ y.row = x.row
  BY <1>2, <1>3 DEF AnyCall
<1>5. call' = [call EXCEPT ![c] = y]
  BY <1>1, <1>3 DEF Silently
<1>6. x.op # "create" => x.row \in Rows
  BY <1>1, <1>2, InRows
<1>7. y \in Call
  <2>1. CASE rest = Tail(x.todo) /\ x.row \in Rows /\ x.todo[1] # "read"
    BY <1>2, <1>4, <1>6, <2>1, GoesOnWith
  <2>2. CASE rest = Redeploy /\ x.op \in {"sync", "recreate"}
    BY <1>2, <1>4, <1>6, <2>2, GoesOnWith
  <2>3. CASE rest = <<>>
    BY <1>2, <1>4, <2>3, GoesOnWith
  <2>4. CASE /\ Orderly(rest) /\ x.row \in Rows /\ (rest # <<>> /\ rest[1] = "creds" => x.u \in Uuids)
             /\ x.op \notin {"delete", "account"}
    BY <1>2, <1>4, <2>4 DEF Call, Ready
  <2>. QED  BY <1>1, <2>1, <2>2, <2>3, <2>4
<1>. QED  BY <1>5, <1>7, CallTurns

LEMMA FailTurns ==
  ASSUME CallTypes, NEW c \in Callers, call[c].todo # <<>>, Fail(c)
  PROVE  CallTypes'
<1>. PICK x : x = call[c]
  OBVIOUS
<1>1. x \in Call /\ x \in AnyCall /\ x.todo \in Seq(CfSteps) /\ Orderly(x.todo)
  BY DEF CallTypes, Call, AnyCall
<1>2. Tail(x.todo) \in Seq(CfSteps) /\ Head(x.todo) = x.todo[1]
  BY <1>1, RestOf
<1>3. <<>> \in Seq(CfSteps) /\ Redeploy \in Seq(CfSteps)
  BY Scripts DEF Fresh, Orderly
<1>4. x.op \in {"delete", "account"} => x.todo[1] # "read" /\ x.row \in Rows
  <2>1. 1 \in 1 .. Len(x.todo)
    BY <1>1, RestOf
  <2>. QED  BY <1>1, <2>1, InRows DEF Call
<1>5. PICK y : y = [x EXCEPT !.ok = FALSE, !.todo = <<>>, !.more = {}]
  OBVIOUS
<1>6. y \in AnyCall /\ y.todo = <<>> /\ y.op = x.op /\ y.more = {}
  BY <1>1, <1>3, <1>5 DEF AnyCall
<1>7. y \in Call
  BY <1>1, <1>6, GoesOnWith
<1>8. CASE x.op \in {"delete", "account"}
  <2>1. Silently(c, Tail(x.todo))
    BY <1>8 DEF Fail
  <2>. QED  BY <1>2, <1>4, <1>8, <2>1, SilentTurns
<1>9. CASE x.op \in {"sync", "recreate"} /\ x.todo[1] = "stop"
  <2>1. Silently(c, Tail(x.todo)) /\ x.row \in Rows /\ x.todo[1] # "read"
    BY <1>2, <1>9, InRows DEF Fail
  <2>. QED  BY <1>2, <2>1, SilentTurns
<1>10. CASE x.op \in {"sync", "recreate"} /\ x.todo[1] = "read"
  <2>1. Silently(c, Redeploy)
    BY <1>2, <1>10 DEF Fail
  <2>. QED  BY <1>3, <1>10, <2>1, SilentTurns
<1>11. CASE x.op = "boot"
  <2>1. Silently(c, <<>>)
    BY <1>11 DEF Fail
  <2>. QED  BY <1>3, <2>1, SilentTurns
<1>12. CASE /\ x.op \notin {"delete", "account", "boot"}
            /\ ~ (x.op \in {"sync", "recreate"} /\ x.todo[1] \in {"stop", "read"})
  <2>1. call' = [call EXCEPT ![c] = y]
    BY <1>2, <1>5, <1>12 DEF Fail
  <2>. QED  BY <1>7, <2>1, CallTurns
<1>. QED  BY <1>8, <1>9, <1>10, <1>11, <1>12

LEMMA InitCf == Init => CfInv
<1>. SUFFICES ASSUME Init PROVE CfInv
  OBVIOUS
<1>. DEFINE first == [r \in Rows |-> IF r = 1 THEN 1 ELSE None]
<1>1. first \in [Rows -> {0} \cup Uuids]
  BY CfBounds DEF None
<1>2. uuid \in [Rows -> {0} \cup Uuids] /\ slot \in [Rows -> {0} \cup Uuids] /\ dns \in [Rows -> {0} \cup Uuids]
  BY <1>1 DEF Init
<1>3. account \in BOOLEAN /\ purge \subseteq [at : {"select", "delete"}, keep : SUBSET Uuids]
  BY DEF Init
<1>4. alive \subseteq Uuids /\ files \subseteq Uuids /\ made \in Uuids /\ lastRow \in Rows /\ asked \in 0 .. MaxRequests
  BY CfBounds DEF Init
<1>5. CallTypes
  BY NoCall DEF Init, CallTypes
<1>. QED  BY <1>2, <1>3, <1>4, <1>5 DEF CfInv, CfTypes

\* A request that begins: its script is whole, or its loop takes the first row.
LEMMA BeginTurns ==
  ASSUME CallTypes, uuid \in [Rows -> {0} \cup Uuids], NEW c \in Callers, NEW op \in Ops, NEW r \in {0} \cup Rows,
         NEW more \in SUBSET Rows, Begin(c, op, r, more),
         r \in Rows \/ op \in OverAll \cup {"create"}, more # {} => op \in OverAll
  PROVE  CallTypes'
<1>. DEFINE meets == {d \in Active : Meet(op, r, d)}
            script == IF op \in OverAll THEN <<>> ELSE Script[op]
            was == IF r = None THEN None ELSE uuid[r]
            new == [Idle EXCEPT !.op = op, !.row = r, !.more = more, !.alone = (meets = {}),
                                !.todo = script, !.old = was]
<1>1. Fresh(script) /\ script \in Seq(CfSteps)
  <2>1. Fresh(<<>>)
    BY NoCall DEF Fresh
  <2>. QED  BY <2>1, Scripts DEF Fresh, Orderly
<1>2. was \in {0} \cup Uuids
  BY DEF None
<1>3. (meets = {}) \in BOOLEAN
  OBVIOUS
<1>4. new \in AnyCall /\ new.op = op /\ new.row = r /\ new.more = more /\ new.todo = script
  <2>. DEFINE lonely == (meets = {})
              mine == [Idle EXCEPT !.op = op, !.row = r, !.more = more, !.alone = lonely,
                                   !.todo = script, !.old = was]
  <2>. HIDE DEF lonely, script, was
  <2>1. lonely \in BOOLEAN
    BY DEF lonely
  <2>2. Idle \in AnyCall
    BY NoCall DEF Call
  <2>3. mine \in AnyCall /\ mine.op = op /\ mine.row = r /\ mine.more = more /\ mine.todo = script
    BY <1>1, <1>2, <2>1, <2>2 DEF AnyCall
  <2>. QED  BY <2>3 DEF lonely
<1>5. new \in Call
  <2>. HIDE DEF new
  <2>1. op \in {"delete", "account"} => \A i \in 1 .. Len(script) : script[i] \notin {"read", "creds", "launch"}
    <3>1. Len(<<>>) = 0
      OBVIOUS
    <3>. QED  BY <3>1, Scripts DEF OverAll
  <2>2. script # <<>> => script[1] # "creds"
    BY <1>1 DEF Fresh
  <2>3. script # <<>> /\ r \notin Rows =>
          op = "create" /\ Len(script) > 1 /\ script[1] = "cfCreate" /\ script[2] = "insert"
    BY Scripts DEF OverAll
  <2>4. Orderly(script)
    BY <1>1 DEF Fresh
  <2>. HIDE DEF script
  <2>. QED  BY <1>4, <2>1, <2>2, <2>3, <2>4 DEF Call, Ready
<1>6. call' = [d \in Callers |-> IF d = c THEN new ELSE IF d \in meets THEN [call[d] EXCEPT !.alone = FALSE] ELSE call[d]]
  BY DEF Begin
<1>7. ASSUME NEW d \in Callers PROVE [call[d] EXCEPT !.alone = FALSE] \in Call
  <2>. DEFINE x == call[d]
              y == [x EXCEPT !.alone = FALSE]
  <2>1. x \in Call /\ x \in AnyCall
    BY DEF CallTypes, Call
  <2>. HIDE DEF x
  <2>2. y \in AnyCall /\ y.op = x.op /\ y.row = x.row /\ y.todo = x.todo /\ y.more = x.more /\ y.u = x.u
    BY <2>1 DEF AnyCall
  <2>. HIDE DEF y
  <2>3. y \in Call
    BY <2>1, <2>2 DEF Call, Ready
  <2>. QED  BY <2>3 DEF x, y
<1>. HIDE DEF new, meets
<1>. QED  BY <1>5, <1>6, <1>7 DEF CallTypes

\* The steps that change no row and no account.
LEMMA PurgeTypes ==
  ASSUME CfTypes, NEW p \in purge, PurgeSelect(p) \/ PurgeDelete(p)
  PROVE  /\ files' \subseteq Uuids /\ purge' \subseteq [at : {"select", "delete"}, keep : SUBSET Uuids]
         /\ UNCHANGED <<uuid, account, alive, slot, dns, call, made, lastRow, asked>>
<1>1. p.keep \subseteq Uuids /\ files \subseteq Uuids /\ purge \subseteq [at : {"select", "delete"}, keep : SUBSET Uuids]
  BY DEF CfTypes
<1>2. Known \subseteq Uuids
  BY DEF CfTypes, Known, None
<1>3. [at |-> "delete", keep |-> p.keep \cup Known] \in [at : {"select", "delete"}, keep : SUBSET Uuids]
  BY <1>1, <1>2
<1>4. CASE PurgeSelect(p)
  BY <1>1, <1>3, <1>4 DEF PurgeSelect
<1>5. CASE PurgeDelete(p)
  BY <1>1, <1>5 DEF PurgeDelete
<1>. QED  BY <1>4, <1>5

\* A request's own steps: what they do to its record.
LEMMA HandleCalls ==
  ASSUME CfTypes, CallTypes, NEW c \in Callers, Handle(c)
  PROVE  CallTypes'
<1>. DEFINE x == call[c]
<1>1. x \in Call /\ x \in AnyCall /\ x.todo \in Seq(CfSteps)
  BY DEF CallTypes, Call, AnyCall
<1>2. ASSUME NEW s, At(c, s) PROVE x.todo # <<>> /\ x.todo[1] = s
  BY <1>1, <1>2 DEF At
<1>3. ASSUME NEW s, At(c, s), s \notin {"cfCreate", "insert"} PROVE x.row \in Rows
  BY <1>2, <1>3, InRows
<1>4. ASSUME NEW s, At(c, s), s \notin {"read", "cfCreate", "insert"}, Step(c, x) PROVE CallTypes'
  BY <1>1, <1>2, <1>3, <1>4, StepTurns
<1>5. ASSUME NEW s, At(c, s), Fail(c) PROVE CallTypes'
  BY <1>2, <1>5, FailTurns
<1>6. CASE Stop(c)
  BY <1>4, <1>5, <1>6 DEF Stop
<1>7. CASE CfDelete(c)
  <2>1. At(c, "cfDelete")
    BY <1>7 DEF CfDelete
  <2>2. CASE Silently(c, Tail(x.todo))
    <3>1. x.todo # <<>> /\ x.todo[1] = "cfDelete" /\ x.row \in Rows /\ Tail(x.todo) \in Seq(CfSteps)
      BY <1>1, <1>2, <1>3, <2>1
    <3>. QED  BY <2>2, <3>1, SilentTurns
  <2>. QED  BY <1>4, <1>7, <2>1, <2>2 DEF CfDelete
<1>8. CASE CfCreate(c)
  <2>1. At(c, "cfCreate")
    BY <1>8 DEF CfCreate
  <2>2. CASE made < MaxUuid /\ Step(c, [x EXCEPT !.u = made + 1])
    <3>. DEFINE y == [x EXCEPT !.u = made + 1]
    <3>1. made + 1 \in Uuids
      BY <2>2, CfBounds DEF CfTypes, Uuids
    <3>2. y \in AnyCall /\ y.op = x.op /\ y.more = x.more /\ y.row = x.row
      BY <1>1, <3>1 DEF AnyCall
    <3>3. Step(c, y)
      BY <2>2
    <3>. HIDE DEF y
    <3>. QED  BY <1>2, <2>1, <3>2, <3>3, StepTurns
  <2>3. CASE Fail(c)
    BY <1>5, <2>1, <2>3
  <2>. QED  BY <1>8, <2>2, <2>3 DEF CfCreate
<1>9. CASE Insert(c)
  <2>1. At(c, "insert")
    BY <1>9 DEF Insert
  <2>2. CASE lastRow + 1 \in Rows /\ Step(c, [x EXCEPT !.row = lastRow + 1])
    <3>. DEFINE y == [x EXCEPT !.row = lastRow + 1]
    <3>1. y \in AnyCall /\ y.op = x.op /\ y.more = x.more /\ y.row \in Rows
      BY <1>1, <2>2 DEF AnyCall
    <3>2. Step(c, y)
      BY <2>2
    <3>. HIDE DEF y
    <3>. QED  BY <1>2, <2>1, <3>1, <3>2, StepTurns
  <2>. QED  BY <1>5, <1>9, <2>1, <2>2 DEF Insert
<1>10. CASE Swap(c)
  BY <1>4, <1>10 DEF Swap
<1>11. ASSUME NEW s, At(c, s), s \in {"read", "target"}, uuid[x.row] # None, Step(c, [x EXCEPT !.u = uuid[x.row]])
       PROVE  CallTypes'
  <2>. DEFINE y == [x EXCEPT !.u = uuid[x.row]]
  <2>1. uuid[x.row] \in Uuids
    BY <1>3, <1>11 DEF CfTypes, None
  <2>2. y \in AnyCall /\ y.op = x.op /\ y.more = x.more /\ y.row = x.row /\ y.u \in Uuids
    BY <1>1, <2>1 DEF AnyCall
  <2>3. Step(c, y)
    BY <1>11
  <2>. HIDE DEF y
  <2>. QED  BY <1>2, <1>3, <1>11, <2>2, <2>3, StepTurns
<1>12. CASE Read(c)
  BY <1>5, <1>11, <1>12 DEF Read
<1>20. CASE ParkTunnel(c)
  <2>1. PICK step \in {"creds", "launch"}, k \in {2, 3} :
          /\ At(c, step) /\ k = (IF step = "creds" THEN 3 ELSE 2)
          /\ Silently(c, SubSeq(x.todo, k, Len(x.todo)))
    BY <1>20 DEF ParkTunnel
  <2>2. x.todo # <<>> /\ x.todo[1] = step /\ x.row \in Rows /\ Orderly(x.todo)
    BY <1>1, <1>2, <1>3, <2>1 DEF Call
  <2>3. PICK rest : rest = SubSeq(x.todo, k, Len(x.todo))
    OBVIOUS
  <2>4. /\ rest \in Seq(CfSteps) /\ Orderly(rest) /\ Len(x.todo) \in Nat
        /\ Len(rest) = IF k <= Len(x.todo) THEN Len(x.todo) - k + 1 ELSE 0
        /\ \A i \in 1 .. Len(rest) : rest[i] = x.todo[i + k - 1] /\ i + k - 1 \in 1 .. Len(x.todo)
    BY <1>1, <2>2, <2>3, EndOf
  <2>5. ASSUME rest # <<>>, rest[1] = "creds" PROVE x.u \in Uuids
    <3>1. 1 \in 1 .. Len(rest)
      BY <2>4, <2>5
    <3>2. rest[1] = x.todo[k] /\ k \in 1 .. Len(x.todo) /\ 1 + k - 1 = k
      BY <2>4, <3>1
    <3>3. CASE step = "creds"
      BY <1>1, <2>2, <3>3 DEF Call, Ready
    <3>4. CASE step = "launch"
      <4>1. k = 2 /\ 1 \in 1 .. Len(x.todo) - 1 /\ x.todo[1 + 1] = "creds"
        BY <2>1, <2>4, <2>5, <3>2, <3>4
      <4>. QED  BY <2>2, <3>4, <4>1 DEF Orderly
    <3>. QED  BY <2>1, <3>3, <3>4
  <2>6. x.op \notin {"delete", "account"}
    <3>1. 1 \in 1 .. Len(x.todo)
      BY <1>1, <2>2, RestOf
    <3>. QED  BY <1>1, <2>1, <2>2, <3>1 DEF Call
  <2>. QED  BY <2>1, <2>2, <2>3, <2>4, <2>5, <2>6, SilentTurns
<1>13. CASE WriteCreds(c)
  BY <1>4, <1>13 DEF WriteCreds
<1>14. CASE Launch(c)
  BY <1>4, <1>14 DEF Launch
<1>15. CASE Target(c)
  <2>1. At(c, "target")
    BY <1>15 DEF Target
  <2>2. CASE call' = [call EXCEPT ![c].todo = <<>>]
    <3>. DEFINE y == [x EXCEPT !.todo = <<>>]
    <3>1. <<>> \in Seq(CfSteps)
      OBVIOUS
    <3>2. y \in AnyCall /\ y.todo = <<>> /\ y.op = x.op /\ y.more = x.more
      BY <1>1, <3>1 DEF AnyCall
    <3>3. call' = [call EXCEPT ![c] = y]
      BY <2>2
    <3>. HIDE DEF y
    <3>4. y \in Call
      BY <1>1, <1>2, <2>1, <3>2, GoesOnWith
    <3>. QED  BY <3>3, <3>4, CallTurns
  <2>. QED  BY <1>11, <1>15, <2>1, <2>2 DEF Target
<1>16. CASE WriteDns(c)
  BY <1>4, <1>5, <1>16 DEF WriteDns
<1>17. CASE Drop(c)
  BY <1>4, <1>17 DEF Drop
<1>18. CASE NextRow(c)
  <2>1. PICK r \in x.more :
          call' = [call EXCEPT ![c] = [x EXCEPT !.row = r, !.more = x.more \ {r}, !.old = uuid[r],
                                                !.todo = Script[x.op]]]
    BY <1>18 DEF NextRow
  <2>. DEFINE y == [x EXCEPT !.row = r, !.more = x.more \ {r}, !.old = uuid[r], !.todo = Script[x.op]]
  <2>2. r \in Rows /\ x.op \in OverAll /\ uuid[r] \in {0} \cup Uuids
    BY <1>1, <2>1 DEF Call, AnyCall, CfTypes
  <2>3. Fresh(Script[x.op]) /\ Script[x.op] \in Seq(CfSteps) /\ x.op \in Ops
    BY <2>2, Scripts DEF OverAll, Fresh, Orderly
  <2>4. /\ y \in AnyCall /\ y.op = x.op /\ y.row = r /\ y.todo = Script[x.op]
    BY <1>1, <2>2, <2>3 DEF AnyCall
  <2>5. y \in Call
    <3>. HIDE DEF y, x
    <3>1. x.op \in {"delete", "account"} => \A i \in 1 .. Len(y.todo) : y.todo[i] \notin {"read", "creds", "launch"}
      BY <2>4, Scripts
    <3>2. y.todo # <<>> => y.todo[1] # "creds"
      BY <2>3, <2>4 DEF Fresh
    <3>3. Orderly(y.todo)
      BY <2>3, <2>4 DEF Fresh
    <3>. QED  BY <2>2, <2>4, <3>1, <3>2, <3>3 DEF Call, Ready
  <2>6. call' = [call EXCEPT ![c] = y]
    BY <2>1
  <2>. HIDE DEF y
  <2>. QED  BY <2>5, <2>6, CallTurns
<1>19. CASE Answer(c)
  <2>1. call' = [call EXCEPT ![c] = Idle]
    BY <1>19 DEF Answer
  <2>. QED  BY <2>1, NoCall, CallTurns
<1>. QED  BY <1>6, <1>7, <1>8, <1>9, <1>10, <1>12, <1>13, <1>14, <1>15, <1>16, <1>17, <1>18, <1>19, <1>20 DEF Handle

\* And to everything else.
LEMMA HandleTypes ==
  ASSUME CfTypes, CallTypes, NEW c \in Callers, Handle(c)
  PROVE  CfTypes'
<1>. DEFINE x == call[c]
<1>1. x \in Call /\ x.u \in {0} \cup Uuids /\ x.todo \in Seq(CfSteps)
  BY DEF CallTypes, Call, AnyCall
<1>2. CASE Stop(c)
  <2>1. slot' \in [Rows -> {0} \cup Uuids]
    BY <1>2 DEF Stop, CfTypes, None
  <2>. QED  BY <1>2, <2>1 DEF Stop, CfTypes
<1>3. CASE CfDelete(c)
  BY <1>3 DEF CfDelete, CfTypes
<1>4. CASE CfCreate(c)
  <2>1. made' \in Uuids /\ alive' \subseteq Uuids
    <3>1. made < MaxUuid => made + 1 \in Uuids
      BY CfBounds DEF CfTypes, Uuids
    <3>. QED  BY <1>4, <3>1 DEF CfCreate, CfTypes
  <2>. QED  BY <1>4, <2>1 DEF CfCreate, CfTypes
<1>5. CASE Insert(c)
  <2>1. uuid' \in [Rows -> {0} \cup Uuids] /\ lastRow' \in Rows
    BY <1>1, <1>5 DEF Insert, CfTypes
  <2>. QED  BY <1>5, <2>1 DEF Insert, CfTypes
<1>6. CASE Swap(c)
  <2>1. uuid' \in [Rows -> {0} \cup Uuids]
    BY <1>1, <1>6 DEF Swap, CfTypes, None
  <2>. QED  BY <1>6, <2>1 DEF Swap, CfTypes
<1>7. CASE Read(c) \/ ParkTunnel(c)
  BY <1>7 DEF Read, ParkTunnel, CfTypes
<1>8. CASE WriteCreds(c)
  <2>1. x.todo # <<>> /\ x.todo[1] = "creds"
    BY <1>1, <1>8 DEF WriteCreds, At
  <2>2. x.u \in Uuids
    BY <1>1, <2>1 DEF Call, Ready
  <2>3. files' \subseteq Uuids /\ purge' \subseteq [at : {"select", "delete"}, keep : SUBSET Uuids]
    BY <1>8, <2>2 DEF WriteCreds, CfTypes
  <2>. QED  BY <1>8, <2>3 DEF WriteCreds, CfTypes
<1>9. CASE Launch(c)
  <2>1. slot' \in [Rows -> {0} \cup Uuids]
    BY <1>1, <1>9 DEF Launch, CfTypes, None
  <2>. QED  BY <1>9, <2>1 DEF Launch, CfTypes
<1>10. CASE Target(c)
  BY <1>10 DEF Target, CfTypes
<1>11. CASE WriteDns(c)
  <2>1. dns' \in [Rows -> {0} \cup Uuids]
    BY <1>1, <1>11 DEF WriteDns, CfTypes
  <2>. QED  BY <1>11, <2>1 DEF WriteDns, CfTypes
<1>12. CASE Drop(c)
  <2>1. uuid' \in [Rows -> {0} \cup Uuids]
    BY <1>12 DEF Drop, CfTypes, None
  <2>. QED  BY <1>12, <2>1 DEF Drop, CfTypes
<1>13. CASE NextRow(c)
  BY <1>13 DEF NextRow, CfTypes
<1>14. CASE Answer(c)
  <2>1. uuid' \in [Rows -> {0} \cup Uuids]
    BY <1>14 DEF Answer, CfTypes, None
  <2>2. account' \in BOOLEAN
    <3>1. account' = (account /\ ~ (call[c].op = "account")) /\ account \in BOOLEAN
      BY <1>14 DEF Answer, CfTypes
    <3>. QED  BY <3>1
  <2>. QED  BY <1>14, <2>1, <2>2 DEF Answer, CfTypes
<1>. QED  BY <1>2, <1>3, <1>4, <1>5, <1>6, <1>7, <1>8, <1>9, <1>10, <1>11, <1>12, <1>13, <1>14 DEF Handle

LEMMA NextCf == CfInv /\ [Next]_vars => CfInv'
<1>. SUFFICES ASSUME CfInv, [Next]_vars PROVE CfInv'
  OBVIOUS
<1>0. CfTypes /\ CallTypes /\ uuid \in [Rows -> {0} \cup Uuids] /\ asked \in 0 .. MaxRequests
  BY DEF CfInv, CfTypes
<1>1. ASSUME NEW c \in Callers, NEW op \in Ops, NEW r \in {0} \cup Rows, NEW more \in SUBSET Rows, Begin(c, op, r, more),
             r \in Rows \/ op \in OverAll \cup {"create"}, more # {} => op \in OverAll
      PROVE  CfInv'
  <2>1. CallTypes'
    BY <1>0, <1>1, BeginTurns
  <2>2. asked' \in 0 .. MaxRequests
    <3>1. asked < MaxRequests /\ asked' = asked + 1
      BY <1>1 DEF Begin
    <3>. QED  BY <1>0, <3>1, CfBounds
  <2>3. UNCHANGED <<uuid, account, alive, files, slot, dns, purge, made, lastRow>>
    BY <1>1 DEF Begin
  <2>. QED  BY <1>0, <2>1, <2>2, <2>3 DEF CfInv, CfTypes
<1>2. CASE \E c \in Callers : CreateTunnel(c)
  <2>1. PICK c \in Callers : Begin(c, "create", 0, {})
    BY <1>2 DEF CreateTunnel, None
  <2>2. "create" \in Ops /\ {} \in SUBSET Rows /\ 0 \in {0} \cup Rows
    BY Scripts
  <2>. QED  BY <1>1, <2>1, <2>2
<1>3. CASE \E c \in Callers : DeleteAccount(c)
  BY <1>1, <1>3, Scripts DEF DeleteAccount, None, OverAll
<1>4. CASE \E c \in Callers : PutNetwork(c)
  BY <1>1, <1>4, Scripts DEF PutNetwork, None, OverAll
<1>5. CASE \E c \in Callers, op \in Ops, r \in Rows : OnTunnel(c, op, r)
  <2>1. PICK c \in Callers, op \in Ops, r \in Rows : OnTunnel(c, op, r)
    BY <1>5
  <2>2. Begin(c, op, r, {})
    BY <2>1 DEF OnTunnel
  <2>3. c \in Callers /\ op \in Ops /\ r \in {0} \cup Rows /\ {} \in SUBSET Rows /\ r \in Rows
    BY <2>1
  <2>. QED  BY <1>1, <2>2, <2>3
<1>6. CASE \E c \in Callers : Handle(c)
  BY <1>0, <1>6, HandleCalls, HandleTypes DEF CfInv
<1>7. CASE \E p \in purge : PurgeSelect(p) \/ PurgeDelete(p)
  <2>1. /\ files' \subseteq Uuids /\ purge' \subseteq [at : {"select", "delete"}, keep : SUBSET Uuids]
        /\ UNCHANGED <<uuid, account, alive, slot, dns, call, made, lastRow, asked>>
    BY <1>0, <1>7, PurgeTypes
  <2>. QED  BY <1>0, <2>1 DEF CfInv, CfTypes, CallTypes
<1>8. CASE Restart
  <2>1. PICK b \in Callers :
          call' = [c \in Callers |-> IF c = b THEN [Idle EXCEPT !.op = "boot", !.more = {r \in Rows : uuid[r] # None}]
                                              ELSE Idle]
    BY <1>8 DEF Restart
  <2>. DEFINE new == [Idle EXCEPT !.op = "boot", !.more = {r \in Rows : uuid[r] # None}]
  <2>2. new \in AnyCall /\ new.op = "boot" /\ new.todo = <<>>
    <3>1. Idle \in AnyCall /\ Idle.todo = <<>>
      BY NoCall DEF Call
    <3>2. "boot" \in Ops
      BY Scripts
    <3>. QED  BY <3>1, <3>2 DEF AnyCall
  <2>. HIDE DEF new
  <2>3. new \in Call
    BY <2>2, NoCall DEF Call, Ready, OverAll
  <2>4. CallTypes'
    BY <2>1, <2>3, NoCall DEF CallTypes, new
  <2>5. slot' \in [Rows -> {0} \cup Uuids] /\ asked' \in 0 .. MaxRequests /\ purge' = {}
    <3>1. asked < MaxRequests /\ asked' = asked + 1 /\ slot' = [r \in Rows |-> None] /\ purge' = {}
      BY <1>8 DEF Restart
    <3>2. asked' \in 0 .. MaxRequests
      BY <1>0, <3>1, CfBounds
    <3>. QED  BY <3>1, <3>2 DEF None
  <2>. QED  BY <1>0, <1>8, <2>4, <2>5 DEF Restart, CfInv, CfTypes
<1>9. CASE UNCHANGED vars
  BY <1>0, <1>9 DEF vars, CfInv, CfTypes, CallTypes
<1>. QED  BY <1>2, <1>3, <1>4, <1>5, <1>6, <1>7, <1>8, <1>9 DEF Next

-----------------------------------------------------------------------------
(* What was asked of the tunnels at Cloudflare                             *)

\* What a request still has to do is the end of its script.
Follows(s, t) == Len(s) <= Len(t) /\ \A i \in 1 .. Len(s) : s[i] = t[Len(t) - Len(s) + i]
OnScript(x) == IF x.op \in Ops THEN Follows(x.todo, Script[x.op]) ELSE x.todo = <<>>

\* The rows above the last one given have never been one.
RowsGiven ==
  /\ \A r \in Rows : r > lastRow => uuid[r] = 0 /\ slot[r] = 0
  /\ \A c \in Callers : call[c].row <= lastRow /\ \A r \in call[c].more : r <= lastRow

\* A tunnel created at Cloudflare that no row names yet.
Minted(x) == (x.op = "create" /\ Len(x.todo) = 4) \/ (x.op = "recreate" /\ Len(x.todo) = 6)
Unseen(u) == u # 0 /\ (\A r \in Rows : uuid[r] # u) /\ \A d \in Callers : call[d].old # u

\* One tunnel, one row; and who deletes a tunnel does so for the row that had it.
Numbers == (\A r \in Rows : uuid[r] <= made) /\ \A u \in alive : u <= made
CallNumbers(x) == x.u <= made /\ x.old <= made
OfRow(x) == (x.op = "create" => x.old = 0) /\ \A r \in Rows : uuid[r] = x.old /\ uuid[r] # 0 => r = x.row
Owned ==
  /\ \A r, s \in Rows : uuid[r] = uuid[s] /\ uuid[r] # 0 => r = s
  /\ Numbers
  /\ \A c \in Callers : CallNumbers(call[c]) /\ OfRow(call[c])
  /\ \A c \in Callers : Minted(call[c]) =>
       Unseen(call[c].u) /\ \A d \in Callers \ {c} : Minted(call[d]) => call[d].u # call[c].u

\* Who has met no other is the only one at its row, and the only one if it is at all.
AloneAtRow ==
  \A c, d \in Callers : call[c] # Idle /\ call[c].alone /\ d # c /\ call[d] # Idle =>
    call[d].op \notin OverAll /\ call[c].op \notin OverAll /\ call[d].row # call[c].row

\* How far the scripts have come that end with a daemon; those of a force-sync and a
\* recreate go on with the hosts' records.
Redeploys(x) == x.op \in {"sync", "recreate"}
Launching(x) == Len(x.todo) - (IF Redeploys(x) THEN 2 ELSE 0)
Started(x) ==
  LET r == x.row
      n == Len(x.todo)
  IN /\ (x.op = "create" /\ n > 3) \/ (r \in Rows /\ uuid[r] # 0)
     /\ Launching(x) \in 1 .. 3 \/ (x.op = "recreate" /\ n \in 6 .. 8) => slot[r] = 0
     /\ Launching(x) \in 1 .. 2 => x.u = uuid[r]
     /\ Launching(x) <= 0 => slot[r] = uuid[r] \/ (x.silent /\ slot[r] = 0)
     /\ Redeploys(x) => (n = 1 => x.u = uuid[r]) /\ (n = 0 => dns[r] = uuid[r])
     /\ x.op = "recreate" => /\ n <= 7 => x.silent \/ x.old \notin alive
                             /\ n = 6 => x.u \in alive
                             /\ n <= 5 => uuid[r] \in alive
\* And those that end with nothing left.
Ended(x) ==
  LET r == x.row
      n == Len(x.todo)
  IN /\ n >= 1 => uuid[r] # 0
     /\ n <= 2 => slot[r] = 0
     /\ n <= 1 => x.silent \/ x.old \notin alive
     /\ n = 0 => uuid[r] = 0
CfSoFar(x) ==
  x.alone /\ x.ok =>
    /\ x.op \in {"create", "restart", "sync", "recreate"} => Started(x)
    /\ x.op \in {"delete", "account"} /\ x.row # 0 => Ended(x)
    /\ x.op = "account" => \A r \in x.more : uuid[r] # 0 /\ r # x.row

CfAsked ==
  /\ \A c \in Callers : OnScript(call[c]) /\ CfSoFar(call[c])
  /\ RowsGiven /\ Owned /\ AloneAtRow

LEMMA ConcatAt ==
  ASSUME NEW s \in Seq(CfSteps), NEW t \in Seq(CfSteps), NEW v, v = s \o t
  PROVE  /\ v \in Seq(CfSteps) /\ Len(v) = Len(s) + Len(t) /\ Len(s) \in Nat /\ Len(t) \in Nat
         /\ \A i \in 1 .. Len(s) : v[i] = s[i]
         /\ \A i \in 1 .. Len(t) : v[Len(s) + i] = t[i]
<1>1. /\ s \o t \in Seq(CfSteps) /\ Len(s \o t) = Len(s) + Len(t) /\ Len(s) \in Nat /\ Len(t) \in Nat
      /\ \A i \in 1 .. Len(s) + Len(t) : (s \o t)[i] = IF i <= Len(s) THEN s[i] ELSE t[i - Len(s)]
  BY ConcatProperties DEF CfSteps
<1>2. \A i \in 1 .. Len(t) : v[Len(s) + i] = t[i]
  <2>. TAKE i \in 1 .. Len(t)
  <2>1. Len(s) + i \in 1 .. Len(s) + Len(t) /\ ~(Len(s) + i <= Len(s)) /\ Len(s) + i - Len(s) = i
    BY <1>1
  <2>2. (s \o t)[Len(s) + i] = t[Len(s) + i - Len(s)]
    BY <1>1, <2>1
  <2>. QED  BY <2>1, <2>2
<1>. QED  BY <1>1, <1>2

LEMMA ThenStart ==
  ASSUME NEW s \in Seq(CfSteps), NEW v, v = s \o Start
  PROVE  /\ v \in Seq(CfSteps) /\ Len(v) = Len(s) + 3 /\ Len(s) \in Nat /\ \A i \in 1 .. Len(s) : v[i] = s[i]
         /\ v[Len(s) + 1] = "read" /\ v[Len(s) + 2] = "creds" /\ v[Len(s) + 3] = "launch"
<1>1. Start \in Seq(CfSteps) /\ Len(Start) = 3 /\ Start[1] = "read" /\ Start[2] = "creds" /\ Start[3] = "launch"
  BY DEF Start, CfSteps
<1>2. PICK t \in Seq(CfSteps) : t = Start
  BY <1>1
<1>3. /\ v \in Seq(CfSteps) /\ Len(v) = Len(s) + Len(t) /\ Len(s) \in Nat
      /\ \A i \in 1 .. Len(s) : v[i] = s[i]
      /\ \A i \in 1 .. Len(t) : v[Len(s) + i] = t[i]
  BY <1>2, ConcatAt
<1>4. Len(t) = 3 /\ t[1] = "read" /\ t[2] = "creds" /\ t[3] = "launch" /\ 1 \in 1 .. 3 /\ 2 \in 1 .. 3 /\ 3 \in 1 .. 3
  BY <1>1, <1>2
<1>. QED  BY <1>3, <1>4

LEMMA ThenRedeploy ==
  ASSUME NEW s \in Seq(CfSteps), NEW v, v = s \o Redeploy
  PROVE  /\ v \in Seq(CfSteps) /\ Len(v) = Len(s) + 2 /\ Len(s) \in Nat /\ \A i \in 1 .. Len(s) : v[i] = s[i]
         /\ v[Len(s) + 1] = "target" /\ v[Len(s) + 2] = "dns"
<1>1. Redeploy \in Seq(CfSteps) /\ Len(Redeploy) = 2 /\ Redeploy[1] = "target" /\ Redeploy[2] = "dns"
  BY DEF Redeploy, CfSteps
<1>2. PICK t \in Seq(CfSteps) : t = Redeploy
  BY <1>1
<1>3. /\ v \in Seq(CfSteps) /\ Len(v) = Len(s) + Len(t) /\ Len(s) \in Nat
      /\ \A i \in 1 .. Len(s) : v[i] = s[i]
      /\ \A i \in 1 .. Len(t) : v[Len(s) + i] = t[i]
  BY <1>2, ConcatAt
<1>4. Len(t) = 2 /\ t[1] = "target" /\ t[2] = "dns" /\ 1 \in 1 .. 2 /\ 2 \in 1 .. 2
  BY <1>1, <1>2
<1>. QED  BY <1>3, <1>4

\* The scripts, step by step.
StopStart(v) ==
  v \in Seq(CfSteps) /\ Len(v) = 4 /\ v[1] = "stop" /\ v[2] = "read" /\ v[3] = "creds" /\ v[4] = "launch"
CreateStart(v) ==
  v \in Seq(CfSteps) /\ Len(v) = 5 /\ v[1] = "cfCreate" /\ v[2] = "insert" /\ v[3] = "read" /\ v[4] = "creds" /\ v[5] = "launch"
SyncAll(v) ==
  /\ v \in Seq(CfSteps) /\ Len(v) = 6 /\ v[1] = "stop" /\ v[2] = "read" /\ v[3] = "creds" /\ v[4] = "launch"
  /\ v[5] = "target" /\ v[6] = "dns"
RecreateAll(v) ==
  /\ v \in Seq(CfSteps) /\ Len(v) = 9 /\ v[1] = "stop" /\ v[2] = "cfDelete" /\ v[3] = "cfCreate" /\ v[4] = "swap"
  /\ v[5] = "read" /\ v[6] = "creds" /\ v[7] = "launch" /\ v[8] = "target" /\ v[9] = "dns"
Teardown(v) == v \in Seq(CfSteps) /\ Len(v) = 3 /\ v[1] = "stop" /\ v[2] = "cfDelete" /\ v[3] = "drop"
StartOnly(v) == v \in Seq(CfSteps) /\ Len(v) = 3 /\ v[1] = "read" /\ v[2] = "creds" /\ v[3] = "launch"
RedeployOnly(v) == v \in Seq(CfSteps) /\ Len(v) = 2 /\ v[1] = "target" /\ v[2] = "dns"

LEMMA StepByStep ==
  /\ CreateStart(Script["create"]) /\ StopStart(Script["restart"]) /\ SyncAll(Script["sync"])
  /\ RedeployOnly(Script["redeploy"]) /\ RecreateAll(Script["recreate"]) /\ Teardown(Script["delete"])
  /\ Teardown(Script["account"]) /\ StopStart(Script["network"]) /\ StartOnly(Script["boot"])
<1>1. \A v : v = <<"stop">> \o Start => StopStart(v)
  <2>0. <<"stop">> \in Seq(CfSteps)
    BY DEF CfSteps
  <2>1. PICK s \in Seq(CfSteps) : s = <<"stop">>
    BY <2>0
  <2>2. Len(s) = 1 /\ s[1] = "stop"
    BY <2>1
  <2>3. ASSUME NEW v, v = s \o Start PROVE StopStart(v)
    <3>1. /\ v \in Seq(CfSteps) /\ Len(v) = Len(s) + 3 /\ \A i \in 1 .. Len(s) : v[i] = s[i]
          /\ v[Len(s) + 1] = "read" /\ v[Len(s) + 2] = "creds" /\ v[Len(s) + 3] = "launch"
      BY <2>3, ThenStart
    <3>. QED  BY <2>2, <3>1 DEF StopStart
  <2>. QED  BY <2>1, <2>3
<1>2. \A v : v = <<"cfCreate", "insert">> \o Start => CreateStart(v)
  <2>0. <<"cfCreate", "insert">> \in Seq(CfSteps)
    BY DEF CfSteps
  <2>1. PICK s \in Seq(CfSteps) : s = <<"cfCreate", "insert">>
    BY <2>0
  <2>2. Len(s) = 2 /\ s[1] = "cfCreate" /\ s[2] = "insert"
    BY <2>1
  <2>3. ASSUME NEW v, v = s \o Start PROVE CreateStart(v)
    <3>1. /\ v \in Seq(CfSteps) /\ Len(v) = Len(s) + 3 /\ \A i \in 1 .. Len(s) : v[i] = s[i]
          /\ v[Len(s) + 1] = "read" /\ v[Len(s) + 2] = "creds" /\ v[Len(s) + 3] = "launch"
      BY <2>3, ThenStart
    <3>. QED  BY <2>2, <3>1 DEF CreateStart
  <2>. QED  BY <2>1, <2>3
<1>3. \A v : v = (<<"stop">> \o Start) \o Redeploy => SyncAll(v)
  <2>1. PICK t \in Seq(CfSteps) : t = <<"stop">> \o Start /\ StopStart(t)
    BY <1>1 DEF StopStart
  <2>2. ASSUME NEW v, v = t \o Redeploy PROVE SyncAll(v)
    <3>1. /\ v \in Seq(CfSteps) /\ Len(v) = Len(t) + 2 /\ \A i \in 1 .. Len(t) : v[i] = t[i]
          /\ v[Len(t) + 1] = "target" /\ v[Len(t) + 2] = "dns"
      BY <2>2, ThenRedeploy
    <3>. QED  BY <2>1, <3>1 DEF SyncAll, StopStart
  <2>. QED  BY <2>1, <2>2
<1>4. \A v : v = (<<"stop", "cfDelete", "cfCreate", "swap">> \o Start) \o Redeploy => RecreateAll(v)
  <2>0. <<"stop", "cfDelete", "cfCreate", "swap">> \in Seq(CfSteps)
    BY DEF CfSteps
  <2>1. PICK s \in Seq(CfSteps) : s = <<"stop", "cfDelete", "cfCreate", "swap">>
    BY <2>0
  <2>2. Len(s) = 4 /\ s[1] = "stop" /\ s[2] = "cfDelete" /\ s[3] = "cfCreate" /\ s[4] = "swap"
    BY <2>1
  <2>3. PICK t : t = s \o Start
    OBVIOUS
  <2>4. /\ t \in Seq(CfSteps) /\ Len(t) = Len(s) + 3 /\ \A i \in 1 .. Len(s) : t[i] = s[i]
        /\ t[Len(s) + 1] = "read" /\ t[Len(s) + 2] = "creds" /\ t[Len(s) + 3] = "launch"
    BY <2>3, ThenStart
  <2>5. ASSUME NEW v, v = t \o Redeploy PROVE RecreateAll(v)
    <3>1. /\ v \in Seq(CfSteps) /\ Len(v) = Len(t) + 2 /\ \A i \in 1 .. Len(t) : v[i] = t[i]
          /\ v[Len(t) + 1] = "target" /\ v[Len(t) + 2] = "dns"
      BY <2>4, <2>5, ThenRedeploy
    <3>2. Len(t) = 7 /\ t[1] = "stop" /\ t[2] = "cfDelete" /\ t[3] = "cfCreate" /\ t[4] = "swap"
          /\ t[5] = "read" /\ t[6] = "creds" /\ t[7] = "launch"
      BY <2>2, <2>4
    <3>. QED  BY <3>1, <3>2 DEF RecreateAll
  <2>. QED  BY <2>1, <2>3, <2>5
<1>5. /\ Script["create"] = <<"cfCreate", "insert">> \o Start /\ Script["restart"] = <<"stop">> \o Start
      /\ Script["sync"] = (<<"stop">> \o Start) \o Redeploy /\ Script["network"] = <<"stop">> \o Start
      /\ Script["recreate"] = (<<"stop", "cfDelete", "cfCreate", "swap">> \o Start) \o Redeploy
      /\ Script["delete"] = <<"stop", "cfDelete", "drop">> /\ Script["account"] = <<"stop", "cfDelete", "drop">>
      /\ Script["boot"] = Start /\ Script["redeploy"] = Redeploy
  BY DEF Script
<1>6. Teardown(<<"stop", "cfDelete", "drop">>) /\ StartOnly(Start) /\ RedeployOnly(Redeploy)
  BY DEF Teardown, StartOnly, RedeployOnly, Start, Redeploy, CfSteps
<1>. QED  BY <1>1, <1>2, <1>3, <1>4, <1>5, <1>6

LEMMA FollowsOn ==
  ASSUME NEW s \in Seq(CfSteps), NEW t \in Seq(CfSteps)
  PROVE  /\ Follows(t, t) /\ Follows(<<>>, t)
         /\ Follows(s, t) /\ s # <<>> => Follows(Tail(s), t)
         /\ Follows(s, t) /\ s # <<>> => Len(s) \in 1 .. Len(t) /\ s[1] = t[Len(t) - Len(s) + 1]
<1>1. Len(s) \in Nat /\ Len(t) \in Nat /\ Len(<<>>) = 0
  OBVIOUS
<1>2. s # <<>> => /\ Len(s) > 0 /\ Tail(s) \in Seq(CfSteps) /\ Len(Tail(s)) = Len(s) - 1
                  /\ \A i \in 1 .. Len(s) - 1 : Tail(s)[i] = s[i + 1]
  OBVIOUS
<1>3. Follows(t, t)
  <2>1. \A i \in 1 .. Len(t) : Len(t) - Len(t) + i = i
    BY <1>1
  <2>. QED  BY <1>1, <2>1 DEF Follows
<1>4. Follows(<<>>, t)
  BY <1>1 DEF Follows
<1>5. ASSUME Follows(s, t), s # <<>> PROVE Len(s) \in 1 .. Len(t) /\ s[1] = t[Len(t) - Len(s) + 1]
  BY <1>1, <1>2, <1>5 DEF Follows
<1>6. ASSUME Follows(s, t), s # <<>> PROVE Follows(Tail(s), t)
  <2>1. PICK v \in Seq(CfSteps) : v = Tail(s)
    BY <1>2, <1>6
  <2>2. Len(v) = Len(s) - 1 /\ \A i \in 1 .. Len(s) - 1 : v[i] = s[i + 1]
    BY <1>2, <1>6, <2>1
  <2>3. \A i \in 1 .. Len(v) : v[i] = t[Len(t) - Len(v) + i]
    <3>. TAKE i \in 1 .. Len(v)
    <3>1. i + 1 \in 1 .. Len(s) /\ Len(t) - Len(s) + (i + 1) = Len(t) - Len(v) + i
      BY <1>1, <2>2
    <3>2. s[i + 1] = t[Len(t) - Len(s) + (i + 1)]
      BY <1>6, <3>1 DEF Follows
    <3>3. v[i] = s[i + 1]
      BY <1>1, <2>2
    <3>. QED  BY <3>1, <3>2, <3>3
  <2>4. Len(v) <= Len(t)
    BY <1>1, <1>6, <2>2 DEF Follows
  <2>. QED  BY <2>1, <2>3, <2>4 DEF Follows
<1>. QED  BY <1>3, <1>4, <1>5, <1>6

\* A force-sync and a recreate that could not start the daemon go on at the same place.
LEMMA RedeployFollows == \A op \in {"sync", "recreate"} : Follows(Redeploy, Script[op])
<1>1. Redeploy \in Seq(CfSteps) /\ Len(Redeploy) = 2 /\ Redeploy[1] = "target" /\ Redeploy[2] = "dns"
  BY DEF Redeploy, CfSteps
<1>2. PICK s \in Seq(CfSteps) : s = Redeploy
  BY <1>1
<1>3. Len(s) = 2 /\ s[1] = "target" /\ s[2] = "dns" /\ \A i \in 1 .. 2 : i = 1 \/ i = 2
  BY <1>1, <1>2
<1>4. ASSUME NEW v \in Seq(CfSteps), Len(v) >= 2, v[Len(v) - 1] = "target", v[Len(v)] = "dns" PROVE Follows(s, v)
  <2>1. Len(v) \in Nat /\ Len(v) - 2 + 1 = Len(v) - 1 /\ Len(v) - 2 + 2 = Len(v)
    OBVIOUS
  <2>2. \A i \in 1 .. 2 : s[i] = v[Len(v) - 2 + i]
    BY <1>3, <1>4, <2>1
  <2>. QED  BY <1>3, <1>4, <2>2 DEF Follows
<1>5. PICK v, w : v = Script["sync"] /\ w = Script["recreate"]
  OBVIOUS
<1>6. SyncAll(v) /\ RecreateAll(w)
  BY <1>5, StepByStep
<1>7. Len(v) = 6 /\ v \in Seq(CfSteps) /\ v[5] = "target" /\ v[6] = "dns" /\ 6 - 1 = 5
  BY <1>6 DEF SyncAll
<1>8. Len(w) = 9 /\ w \in Seq(CfSteps) /\ w[8] = "target" /\ w[9] = "dns" /\ 9 - 1 = 8
  BY <1>6 DEF RecreateAll
<1>9. Follows(s, v) /\ Follows(s, w)
  <2>1. Len(v) >= 2 /\ v[Len(v) - 1] = "target" /\ v[Len(v)] = "dns"
    BY <1>7
  <2>2. Len(w) >= 2 /\ w[Len(w) - 1] = "target" /\ w[Len(w)] = "dns"
    BY <1>8
  <2>. QED  BY <1>4, <1>7, <1>8, <2>1, <2>2
<1>. QED  BY <1>2, <1>5, <1>9

\* Which step comes next tells how much is left.
LEMMA WhatIsLeft ==
  ASSUME NEW x \in AnyCall, OnScript(x), x.todo # <<>>
  PROVE  LET n == Len(x.todo)
             h == x.todo[1]
         IN  /\ x.op \in Ops /\ n \in Nat /\ n > 0
             /\ h = "stop" => (x.op \in {"restart", "network"} /\ n = 4) \/ (x.op = "sync" /\ n = 6)
                              \/ (x.op = "recreate" /\ n = 9) \/ (x.op \in {"delete", "account"} /\ n = 3)
             /\ h = "cfDelete" => (x.op = "recreate" /\ n = 8) \/ (x.op \in {"delete", "account"} /\ n = 2)
             /\ h = "cfCreate" => (x.op = "create" /\ n = 5) \/ (x.op = "recreate" /\ n = 7)
             /\ h = "insert" => x.op = "create" /\ n = 4
             /\ h = "swap" => x.op = "recreate" /\ n = 6
             /\ h = "read" => (x.op \in {"create", "restart", "network", "boot"} /\ n = 3)
                              \/ (x.op \in {"sync", "recreate"} /\ n = 5)
             /\ h = "creds" => (x.op \in {"create", "restart", "network", "boot"} /\ n = 2)
                               \/ (x.op \in {"sync", "recreate"} /\ n = 4)
             /\ h = "launch" => (x.op \in {"create", "restart", "network", "boot"} /\ n = 1)
                                \/ (x.op \in {"sync", "recreate"} /\ n = 3)
             /\ h = "target" => x.op \in {"sync", "redeploy", "recreate"} /\ n = 2
             /\ h = "dns" => x.op \in {"sync", "redeploy", "recreate"} /\ n = 1
             /\ h = "drop" => x.op \in {"delete", "account"} /\ n = 1
<1>1. x.op \in Ops /\ Follows(x.todo, Script[x.op]) /\ x.todo \in Seq(CfSteps)
  BY DEF OnScript, AnyCall
<1>2. PICK v, n, h : v = Script[x.op] /\ n = Len(x.todo) /\ h = x.todo[1]
  OBVIOUS
<1>3. ASSUME v \in Seq(CfSteps) PROVE Len(v) \in Nat /\ n \in 1 .. Len(v) /\ h = v[Len(v) - n + 1]
  <2>1. PICK s \in Seq(CfSteps) : s = x.todo
    BY <1>1
  <2>2. Follows(s, v) /\ s # <<>> /\ n = Len(s) /\ h = s[1]
    BY <1>1, <1>2, <2>1
  <2>3. Len(s) \in 1 .. Len(v) /\ s[1] = v[Len(v) - Len(s) + 1]
    BY <1>3, <2>2, FollowsOn
  <2>. QED  BY <1>3, <2>2, <2>3
<1>4. CASE x.op = "create"
  <2>1. CreateStart(v)
    BY <1>2, <1>4, StepByStep
  <2>2. n \in 1 .. 5 /\ h = v[6 - n]
    BY <1>3, <2>1 DEF CreateStart
  <2>3. <<n, h>> \in {<<5, "cfCreate">>, <<4, "insert">>, <<3, "read">>, <<2, "creds">>, <<1, "launch">>}
    BY <2>1, <2>2 DEF CreateStart
  <2>. QED  BY <1>1, <1>2, <1>4, <2>3
<1>5. CASE x.op \in {"restart", "network"}
  <2>1. StopStart(v)
    BY <1>2, <1>5, StepByStep
  <2>2. n \in 1 .. 4 /\ h = v[5 - n]
    BY <1>3, <2>1 DEF StopStart
  <2>3. <<n, h>> \in {<<4, "stop">>, <<3, "read">>, <<2, "creds">>, <<1, "launch">>}
    BY <2>1, <2>2 DEF StopStart
  <2>. QED  BY <1>1, <1>2, <1>5, <2>3
<1>6. CASE x.op = "sync"
  <2>1. SyncAll(v)
    BY <1>2, <1>6, StepByStep
  <2>2. n \in 1 .. 6 /\ h = v[7 - n]
    BY <1>3, <2>1 DEF SyncAll
  <2>3. <<n, h>> \in {<<6, "stop">>, <<5, "read">>, <<4, "creds">>, <<3, "launch">>, <<2, "target">>, <<1, "dns">>}
    BY <2>1, <2>2 DEF SyncAll
  <2>. QED  BY <1>1, <1>2, <1>6, <2>3
<1>7. CASE x.op = "recreate"
  <2>1. RecreateAll(v)
    BY <1>2, <1>7, StepByStep
  <2>2. n \in 1 .. 9 /\ h = v[10 - n]
    BY <1>3, <2>1 DEF RecreateAll
  <2>3. <<n, h>> \in {<<9, "stop">>, <<8, "cfDelete">>, <<7, "cfCreate">>, <<6, "swap">>, <<5, "read">>, <<4, "creds">>,
                      <<3, "launch">>, <<2, "target">>, <<1, "dns">>}
    BY <2>1, <2>2 DEF RecreateAll
  <2>. QED  BY <1>1, <1>2, <1>7, <2>3
<1>8. CASE x.op \in {"delete", "account"}
  <2>1. Teardown(v)
    BY <1>2, <1>8, StepByStep
  <2>2. n \in 1 .. 3 /\ h = v[4 - n]
    BY <1>3, <2>1 DEF Teardown
  <2>3. <<n, h>> \in {<<3, "stop">>, <<2, "cfDelete">>, <<1, "drop">>}
    BY <2>1, <2>2 DEF Teardown
  <2>. QED  BY <1>1, <1>2, <1>8, <2>3
<1>9. CASE x.op = "boot"
  <2>1. StartOnly(v)
    BY <1>2, <1>9, StepByStep
  <2>2. n \in 1 .. 3 /\ h = v[4 - n]
    BY <1>3, <2>1 DEF StartOnly
  <2>3. <<n, h>> \in {<<3, "read">>, <<2, "creds">>, <<1, "launch">>}
    BY <2>1, <2>2 DEF StartOnly
  <2>. QED  BY <1>1, <1>2, <1>9, <2>3
<1>10. CASE x.op = "redeploy"
  <2>1. RedeployOnly(v)
    BY <1>2, <1>10, StepByStep
  <2>2. n \in 1 .. 2 /\ h = v[3 - n]
    BY <1>3, <2>1 DEF RedeployOnly
  <2>3. <<n, h>> \in {<<2, "target">>, <<1, "dns">>}
    BY <2>1, <2>2 DEF RedeployOnly
  <2>. QED  BY <1>1, <1>2, <1>10, <2>3
<1>. QED  BY <1>1, <1>4, <1>5, <1>6, <1>7, <1>8, <1>9, <1>10, Scripts

\* How long the scripts are.
LEMMA ScriptLengths ==
  /\ Len(Script["create"]) = 5 /\ Len(Script["restart"]) = 4 /\ Len(Script["sync"]) = 6 /\ Len(Script["redeploy"]) = 2
  /\ Len(Script["recreate"]) = 9 /\ Len(Script["delete"]) = 3 /\ Len(Script["account"]) = 3
BY StepByStep DEF CreateStart, StopStart, SyncAll, RedeployOnly, RecreateAll, Teardown

LEMMA CfNumbers ==
  ASSUME CfInv
  PROVE  /\ made \in Nat /\ lastRow \in Nat /\ Rows \subseteq Nat /\ 0 \notin Rows /\ Uuids \subseteq Nat /\ 0 \notin Uuids
         /\ \A r \in Rows : uuid[r] \in {0} \cup Uuids /\ slot[r] \in {0} \cup Uuids
         /\ alive \subseteq Uuids
         /\ \A c \in Callers : call[c] \in Call /\ call[c] \in AnyCall
         /\ DOMAIN call = Callers /\ call = [c \in Callers |-> call[c]]
<1>1. made \in Uuids /\ lastRow \in Rows
  BY DEF CfInv, CfTypes
<1>2. Uuids \subseteq Nat /\ Rows \subseteq Nat \ {0}
  BY StoresAssumption, CfBounds DEF Uuids
<1>. QED  BY <1>1, <1>2, CfBounds DEF CfInv, CfTypes, CallTypes, Call

\* A turn: one request goes on, at its row or one that is new, or is done.
Turns(c, y) ==
  LET x == call[c]
  IN /\ y \in AnyCall /\ call' = [call EXCEPT ![c] = y] /\ x # Idle /\ y.more \subseteq x.more
     /\ \/ y = Idle
        \/ y.op = x.op /\ y.alone = x.alone /\ (y.row = x.row \/ y.row > lastRow \/ x.op \in OverAll)
     /\ lastRow' \in Nat /\ lastRow' >= lastRow
     /\ y.row <= lastRow'
RowsTurn(c, y) ==
  LET x == call[c]
  IN  \A r \in Rows :
        /\ r \notin {x.row, y.row} /\ x.op \notin OverAll => uuid'[r] = uuid[r] /\ slot'[r] = slot[r] /\ dns'[r] = dns[r]
        /\ r > lastRow' => uuid'[r] \in {0, uuid[r]} /\ slot'[r] \in {0, slot[r]}
TunnelsTurn(c, y) ==
  LET x == call[c]
  IN /\ made' \in {made, made + 1} /\ alive' \subseteq alive \cup {made'}
     /\ made' = made => alive' \subseteq alive
     /\ alive \ {x.old} \subseteq alive'
     /\ \A r \in Rows : uuid'[r] \in {0, uuid[r]} \/ (Minted(x) /\ ~Minted(y) /\ r = y.row /\ uuid'[r] = x.u)
     /\ y.u <= made'
     /\ \/ y.old = x.old /\ y.row = x.row
        \/ y.old = 0
        \/ x.op \in OverAll /\ uuid' = uuid /\ y.row \in Rows /\ y.old = uuid[y.row]
     /\ Minted(y) => made' = made + 1 /\ y.u = made' /\ uuid' = uuid

LEMMA OthersOwn ==
  ASSUME CfInv, CfAsked, NEW c \in Callers, NEW y, Turns(c, y), RowsTurn(c, y), TunnelsTurn(c, y),
         NEW d \in Callers \ {c}
  PROVE  CfSoFar(call[d])'
<1>. PICK x, z : x = call[c] /\ z = call[d]
  OBVIOUS
<1>1. call'[d] = z /\ z \in AnyCall /\ x \in AnyCall
  BY CfNumbers DEF Turns
<1>. SUFFICES ASSUME z.alone, z.ok,
                     z.op \in {"create", "restart", "sync", "recreate", "account"} \/ (z.op = "delete" /\ z.row # 0)
              PROVE  CfSoFar(z)'
  BY <1>1 DEF CfSoFar, Started, Ended, Launching, Redeploys
<1>2. z # Idle /\ x # Idle
  BY DEF Idle, Turns
<1>3. x.op \notin OverAll /\ z.op \notin OverAll /\ x.row # z.row
  BY <1>2 DEF CfAsked, AloneAtRow
<1>4. z.row # y.row \/ z.row = 0
  <2>1. z.row <= lastRow
    BY DEF CfAsked, RowsGiven
  <2>2. z.row \in Nat /\ y.row \in Nat
    BY <1>1, CfNumbers DEF AnyCall, Turns
  <2>. QED  BY <1>3, <2>1, <2>2, CfNumbers, NoCall DEF Turns
<1>5. z.row \in Rows => uuid'[z.row] = uuid[z.row] /\ slot'[z.row] = slot[z.row] /\ dns'[z.row] = dns[z.row]
  BY <1>3, <1>4, CfNumbers DEF RowsTurn
<1>6. CfSoFar(z) /\ CallNumbers(z) /\ OfRow(x) /\ (Minted(z) => Unseen(z.u))
  BY DEF CfAsked, Owned
<1>7. z.old \notin alive => z.old \notin alive'
  <2>1. z.old \in Nat /\ z.old <= made
    BY <1>1, <1>6, CfNumbers DEF AnyCall, CallNumbers
  <2>. QED  BY <2>1, CfNumbers DEF TunnelsTurn
<1>8. Minted(z) /\ z.u \in alive => z.u \in alive'
  BY <1>6 DEF TunnelsTurn, Unseen
<1>9. z.row \in Rows /\ uuid[z.row] \in alive => uuid[z.row] \in alive'
  BY <1>3, <1>6, CfNumbers DEF TunnelsTurn, OfRow
<1>10. CASE z.op = "delete"
  BY <1>1, <1>5, <1>6, <1>7, <1>10 DEF CfSoFar, Ended, AnyCall
<1>11. CASE z.op \in {"create", "restart", "sync", "recreate"}
  <2>1. Started(z)
    BY <1>6, <1>11 DEF CfSoFar
  <2>2. CASE z.op = "create" /\ z.row \notin Rows
    <3>1. Len(z.todo) > 3
      BY <2>1, <2>2 DEF Started
    <3>2. Len(z.todo) \in Nat
      BY <1>1 DEF AnyCall
    <3>3. Started(z)'
      <4>1. ~Redeploys(z) /\ z.op # "recreate" /\ Launching(z) = Len(z.todo)
        BY <2>2, <3>2 DEF Redeploys, Launching
      <4>2. Launching(z) \notin 1 .. 3 /\ Launching(z) \notin 1 .. 2 /\ ~(Launching(z) <= 0)
        <5>1. \A m \in Nat : m > 3 => m \notin 1 .. 3 /\ m \notin 1 .. 2 /\ ~(m <= 0)
          OBVIOUS
        <5>. QED  BY <3>1, <3>2, <4>1, <5>1
      <4>. QED  BY <2>2, <3>1, <4>1, <4>2 DEF Started
    <3>. QED  BY <2>2, <3>3 DEF CfSoFar
  <2>3. CASE z.row \in Rows
    <3>1. Started(z)'
      BY <1>5, <1>7, <1>8, <1>9, <2>1, <2>3 DEF Started, Launching, Redeploys, Minted
    <3>. QED  BY <1>11, <3>1 DEF CfSoFar
  <2>. QED  BY <2>1, <2>2, <2>3 DEF Started
<1>. QED  BY <1>3, <1>10, <1>11 DEF OverAll

LEMMA AloneTurn ==
  ASSUME CfInv, CfAsked, NEW c \in Callers, NEW y, Turns(c, y)
  PROVE  AloneAtRow'
<1>. SUFFICES ASSUME NEW e \in Callers, NEW d \in Callers, call'[e] # Idle, call'[e].alone, d # e, call'[d] # Idle
              PROVE  call'[d].op \notin OverAll /\ call'[e].op \notin OverAll /\ call'[d].row # call'[e].row
  BY DEF AloneAtRow, Idle, None
<1>. PICK x : x = call[c]
  OBVIOUS
<1>1. call'[c] = y /\ y \in AnyCall /\ x # Idle /\ \A f \in Callers \ {c} : call'[f] = call[f]
  BY CfNumbers DEF Turns
<1>2. lastRow \in Nat /\ \A f \in Callers \ {c} : call[f] \in AnyCall /\ call[f].row <= lastRow
  BY CfNumbers DEF CfAsked, RowsGiven
<1>3. y # Idle => y.op = x.op /\ y.alone = x.alone /\ (y.row = x.row \/ y.row > lastRow \/ x.op \in OverAll)
  BY DEF Turns
<1>4. \A f, g \in Callers : call[f] # Idle /\ call[f].alone /\ g # f /\ call[g] # Idle =>
         call[g].op \notin OverAll /\ call[f].op \notin OverAll /\ call[g].row # call[f].row
  BY DEF CfAsked, AloneAtRow
<1>5. y.row \in Nat /\ \A f \in Callers \ {c} : call[f].row \in Nat
  BY <1>1, <1>2, CfNumbers DEF AnyCall
<1>6. ASSUME y # Idle, NEW f \in Callers \ {c}, call[f] # Idle, call[f].alone \/ y.alone
      PROVE  call[f].op \notin OverAll /\ y.op \notin OverAll /\ call[f].row # y.row
  <2>1. call[f].op \notin OverAll /\ x.op \notin OverAll /\ call[f].row # x.row
    BY <1>1, <1>3, <1>4, <1>6
  <2>. QED  BY <1>2, <1>3, <1>5, <1>6, <2>1
<1>7. CASE e = c
  BY <1>1, <1>6, <1>7
<1>8. CASE d = c
  BY <1>1, <1>6, <1>8
<1>9. CASE e # c /\ d # c
  BY <1>1, <1>4, <1>9
<1>. QED  BY <1>7, <1>8, <1>9

LEMMA OwnedTurn ==
  ASSUME CfInv, CfAsked, NEW c \in Callers, NEW y, Turns(c, y), TunnelsTurn(c, y)
  PROVE  Owned'
<1>. PICK x : x = call[c]
  OBVIOUS
<1>. DEFINE New(u) == u # 0 /\ (\A r \in Rows : uuid'[r] # u) /\ \A e \in Callers : call'[e].old # u
<1>1. x \in AnyCall /\ y \in AnyCall /\ call'[c] = y /\ \A d \in Callers \ {c} : call'[d] = call[d] /\ call[d] \in AnyCall
  BY CfNumbers DEF Turns
<1>2. made \in Nat /\ (made' = made \/ made' = made + 1) /\ made' \in Nat
  BY CfNumbers DEF TunnelsTurn
<1>3. ASSUME NEW z \in AnyCall PROVE z.u \in Nat /\ z.old \in Nat
  BY <1>3, CfNumbers DEF AnyCall
<1>4. \A r \in Rows : uuid'[r] \in {0, uuid[r]} \/ (Minted(x) /\ ~Minted(y) /\ r = y.row /\ uuid'[r] = x.u)
  BY DEF TunnelsTurn
<1>5. /\ \A r, s \in Rows : uuid[r] = uuid[s] /\ uuid[r] # 0 => r = s
      /\ \A r \in Rows : uuid[r] \in Nat /\ uuid[r] <= made
      /\ \A u \in alive : u \in Nat /\ u <= made
      /\ CallNumbers(x) /\ OfRow(x)
      /\ \A d \in Callers \ {c} : CallNumbers(call[d]) /\ OfRow(call[d])
  BY CfNumbers DEF CfAsked, Owned, Numbers
<1>6. Minted(x) => /\ x.u # 0 /\ (\A r \in Rows : uuid[r] # x.u) /\ x.old # x.u
                   /\ \A d \in Callers \ {c} : call[d].old # x.u /\ (Minted(call[d]) => call[d].u # x.u)
  BY DEF CfAsked, Owned, Unseen
<1>7. ASSUME NEW d \in Callers \ {c}, Minted(call[d])
      PROVE  /\ call[d].u # 0 /\ (\A r \in Rows : uuid[r] # call[d].u) /\ x.old # call[d].u
             /\ (Minted(x) => x.u # call[d].u)
             /\ \A e \in Callers \ {c} : call[e].old # call[d].u /\ (Minted(call[e]) /\ e # d => call[e].u # call[d].u)
  BY <1>7 DEF CfAsked, Owned, Unseen
<1>8. y.old = 0 \/ y.old = x.old \/ \E r \in Rows : y.old = uuid[r]
  BY DEF TunnelsTurn
<1>9. ASSUME NEW r \in Rows, NEW s \in Rows, uuid'[r] = uuid'[s], uuid'[r] # 0 PROVE r = s
  BY <1>4, <1>5, <1>6, <1>9
<1>10. /\ \A r \in Rows : uuid'[r] <= made'
       /\ \A u \in alive' : u <= made'
  <2>1. CallNumbers(x) /\ x.u \in Nat
    BY <1>1, <1>3, <1>5
  <2>2. alive' \subseteq alive \cup {made'}
    BY DEF TunnelsTurn
  <2>. QED  BY <1>2, <1>4, <1>5, <2>1, <2>2 DEF CallNumbers
<1>11. CallNumbers(y)' /\ \A d \in Callers \ {c} : CallNumbers(call[d])'
  <2>1. y.u <= made'
    BY DEF TunnelsTurn
  <2>2. y.old <= made'
    BY <1>1, <1>2, <1>3, <1>5, <1>8 DEF CallNumbers
  <2>3. ASSUME NEW d \in Callers \ {c} PROVE CallNumbers(call[d])'
    BY <1>1, <1>2, <1>3, <1>5 DEF CallNumbers
  <2>. QED  BY <2>1, <2>2, <2>3 DEF CallNumbers
<1>12. OfRow(y)'
  <2>1. y.op = "create" => y.old = 0
    <3>1. y.op = "create" => x.op = "create" /\ x.op \notin OverAll
      BY NoCall DEF Turns, OverAll
    <3>. QED  BY <1>5, <3>1 DEF OfRow, TunnelsTurn
  <2>2. ASSUME NEW r \in Rows, uuid'[r] = y.old, uuid'[r] # 0 PROVE r = y.row
    <3>1. CASE y.old = x.old /\ y.row = x.row
      BY <1>4, <1>5, <1>6, <2>2, <3>1 DEF OfRow
    <3>2. CASE uuid' = uuid /\ y.row \in Rows /\ y.old = uuid[y.row]
      BY <1>5, <2>2, <3>2
    <3>. QED  BY <2>2, <3>1, <3>2 DEF TunnelsTurn
  <2>. QED  BY <2>1, <2>2 DEF OfRow
<1>13. ASSUME NEW d \in Callers \ {c} PROVE OfRow(call[d])'
  BY <1>1, <1>4, <1>5, <1>6 DEF OfRow
<1>14. ASSUME NEW d \in Callers \ {c}, Minted(call[d])
       PROVE  /\ New(call[d].u)
              /\ Minted(y) => y.u # call[d].u
  <2>1. \A r \in Rows : uuid'[r] # call[d].u
    BY <1>4, <1>7, <1>14
  <2>2. y.old # call[d].u
    BY <1>7, <1>8, <1>14
  <2>3. \A e \in Callers : call'[e].old # call[d].u
    BY <1>1, <1>7, <1>14, <2>2
  <2>4. Minted(y) => y.u # call[d].u
    BY <1>1, <1>2, <1>3, <1>5 DEF TunnelsTurn, CallNumbers
  <2>. QED  BY <1>1, <1>7, <1>14, <2>1, <2>3, <2>4
<1>15. ASSUME Minted(y) PROVE New(y.u)
  <2>1. y.u = made + 1 /\ uuid' = uuid
    BY <1>15 DEF TunnelsTurn
  <2>2. \A r \in Rows : uuid'[r] # y.u
    BY <1>2, <1>5, <2>1
  <2>3. \A e \in Callers \ {c} : call[e].old # y.u
    BY <1>1, <1>2, <1>3, <1>5, <2>1 DEF CallNumbers
  <2>4. y.old # y.u
    BY <1>1, <1>2, <1>3, <1>5, <1>8, <2>1 DEF CallNumbers
  <2>. QED  BY <1>1, <1>2, <2>1, <2>2, <2>3, <2>4
<1>16. ASSUME NEW d \in Callers, Minted(call'[d]) PROVE New(call'[d].u) /\ \A e \in Callers \ {d} : Minted(call'[e]) => call'[e].u # call'[d].u
  <2>1. CASE d = c
    BY <1>1, <1>14, <1>15, <1>16, <2>1
  <2>2. CASE d # c
    <3>1. ASSUME NEW e \in Callers \ {d}, Minted(call'[e]) PROVE call'[e].u # call'[d].u
      <4>1. CASE e = c
        BY <1>1, <1>14, <1>16, <2>2, <3>1, <4>1
      <4>2. CASE e # c
        BY <1>1, <1>7, <1>16, <2>2, <3>1, <4>2
      <4>. QED  BY <4>1, <4>2
    <3>. QED  BY <1>1, <1>14, <1>16, <2>2, <3>1
  <2>. QED  BY <2>1, <2>2
<1>17. \A d \in Callers : CallNumbers(call[d])' /\ OfRow(call[d])'
  BY <1>1, <1>11, <1>12, <1>13 DEF CallNumbers, OfRow
<1>18. \A d \in Callers : Minted(call[d])' =>
         Unseen(call[d].u)' /\ \A e \in Callers \ {d} : Minted(call[e])' => (call[e].u # call[d].u)'
  BY <1>16 DEF Minted, Unseen
<1>. QED  BY <1>9, <1>10, <1>17, <1>18 DEF Owned, Numbers

LEMMA RowsGivenTurn ==
  ASSUME CfInv, CfAsked, NEW c \in Callers, NEW y, Turns(c, y), RowsTurn(c, y)
  PROVE  RowsGiven'
<1>1. call'[c] = y /\ \A d \in Callers \ {c} : call'[d] = call[d] /\ call[d] \in AnyCall
  BY CfNumbers DEF Turns
<1>2. lastRow \in Nat /\ lastRow' \in Nat /\ lastRow' >= lastRow /\ y.row <= lastRow' /\ y.more \subseteq call[c].more
  BY CfNumbers DEF Turns
<1>3. \A d \in Callers : call[d].row \in Nat /\ call[d].row <= lastRow /\ \A r \in call[d].more : r \in Nat /\ r <= lastRow
  BY CfNumbers DEF CfAsked, RowsGiven, AnyCall
<1>4. \A r \in Rows : r \in Nat /\ (r > lastRow' => uuid'[r] = 0 /\ slot'[r] = 0)
  BY <1>2, CfNumbers DEF CfAsked, RowsGiven, RowsTurn
<1>. QED  BY <1>1, <1>2, <1>3, <1>4 DEF RowsGiven

LEMMA TurnAsked ==
  ASSUME CfInv, CfAsked, NEW c \in Callers, NEW y, Turns(c, y), RowsTurn(c, y), TunnelsTurn(c, y),
         OnScript(y), CfSoFar(y)'
  PROVE  CfAsked'
<1>1. call'[c] = y /\ \A d \in Callers \ {c} : call'[d] = call[d]
  BY CfNumbers DEF Turns
<1>2. \A d \in Callers : OnScript(call[d])'
  BY <1>1 DEF CfAsked, OnScript
<1>3. ASSUME NEW d \in Callers PROVE CfSoFar(call[d])'
  <2>1. CASE d = c
    BY <1>1, <2>1 DEF CfSoFar, Started, Ended, Launching, Redeploys
  <2>2. CASE d # c
    BY <2>2, OthersOwn
  <2>. QED  BY <2>1, <2>2
<1>. QED  BY <1>2, <1>3, AloneTurn, OwnedTurn, RowsGivenTurn DEF CfAsked

\* What one step does to the record of its request.
GoesTo(x, y) == y \in AnyCall /\ y.op = x.op /\ y.alone = x.alone /\ y.old = x.old /\ y.more \subseteq x.more

LEMMA StepOn ==
  ASSUME CfInv, CfAsked, NEW c \in Callers, NEW s \in CfSteps, At(c, s), NEW z, GoesTo(call[c], z), Step(c, z)
  PROVE  \E y \in AnyCall : /\ call' = [call EXCEPT ![c] = y] /\ GoesTo(call[c], y) /\ OnScript(y) /\ call[c] # Idle
                            /\ y.row = z.row /\ y.u = z.u /\ y.ok = z.ok /\ y.silent = z.silent /\ y.more = z.more
                            /\ Len(y.todo) = Len(call[c].todo) - 1 /\ Len(y.todo) \in Nat
<1>. DEFINE x == call[c]
            y == [z EXCEPT !.todo = Tail(x.todo)]
<1>1. x \in AnyCall /\ x.todo \in Seq(CfSteps) /\ x.todo # <<>> /\ z \in AnyCall /\ z.op = x.op
  BY CfNumbers DEF At, AnyCall, GoesTo
<1>2. Tail(x.todo) \in Seq(CfSteps) /\ Len(Tail(x.todo)) = Len(x.todo) - 1 /\ Len(Tail(x.todo)) \in Nat
  BY <1>1
<1>3. OnScript(x) /\ x.op \in Ops
  BY <1>1 DEF CfAsked, OnScript
<1>4. Script[x.op] \in Seq(CfSteps)
  BY <1>3, Scripts DEF Fresh, Orderly
<1>5. Follows(Tail(x.todo), Script[x.op])
  <2>1. PICK t \in Seq(CfSteps) : t = x.todo
    BY <1>1
  <2>2. Follows(t, Script[x.op]) /\ t # <<>>
    BY <1>1, <1>3, <2>1 DEF OnScript
  <2>3. Follows(Tail(t), Script[x.op])
    BY <1>4, <2>2, FollowsOn
  <2>. QED  BY <2>1, <2>3
<1>6. /\ y \in AnyCall /\ y.todo = Tail(x.todo) /\ y.op = z.op /\ y.alone = z.alone /\ y.old = z.old /\ y.more = z.more
      /\ y.row = z.row /\ y.u = z.u /\ y.ok = z.ok /\ y.silent = z.silent
  BY <1>1, <1>2 DEF AnyCall
<1>7. call' = [call EXCEPT ![c] = y]
  BY DEF Step
<1>8. x # Idle
  BY <1>1, NoCall
<1>. HIDE DEF y
<1>9. OnScript(y)
  BY <1>1, <1>3, <1>5, <1>6 DEF OnScript
<1>. QED  BY <1>2, <1>6, <1>7, <1>8, <1>9 DEF GoesTo

\* A step that fails silently.
LEMMA SilentlyOn ==
  ASSUME CfInv, CfAsked, NEW c \in Callers, NEW rest \in Seq(CfSteps), call[c].op \in Ops, Silently(c, rest),
         Follows(rest, Script[call[c].op])
  PROVE  \E y \in AnyCall : /\ call' = [call EXCEPT ![c] = y] /\ GoesTo(call[c], y) /\ OnScript(y) /\ call[c] # Idle
                            /\ y.row = call[c].row /\ y.u = call[c].u /\ y.ok = call[c].ok /\ y.silent
                            /\ y.more = call[c].more /\ y.todo = rest
<1>1. PICK x : x = call[c]
  OBVIOUS
<1>2. x \in AnyCall /\ x # Idle
  BY <1>1, CfNumbers, NoCall, Scripts
<1>3. PICK y : y = [x EXCEPT !.silent = TRUE, !.todo = rest]
  OBVIOUS
<1>4. /\ y \in AnyCall /\ y.todo = rest /\ y.op = x.op /\ y.alone = x.alone /\ y.old = x.old /\ y.more = x.more
      /\ y.row = x.row /\ y.u = x.u /\ y.ok = x.ok /\ y.silent
  BY <1>2, <1>3 DEF AnyCall
<1>5. call' = [call EXCEPT ![c] = y]
  BY <1>1, <1>3 DEF Silently
<1>6. GoesTo(x, y) /\ OnScript(y)
  BY <1>1, <1>4 DEF GoesTo, OnScript
<1>. QED  BY <1>1, <1>2, <1>4, <1>5, <1>6

\* A failure is in the answer, but for the requests that go on.
CarriesOn(x, s) ==
  x.op \in {"delete", "account", "boot"} \/ (x.op \in {"sync", "recreate"} /\ s \in {"stop", "read"})

LEMMA FailOn ==
  ASSUME CfInv, CfAsked, NEW c \in Callers, NEW s \in CfSteps, At(c, s), Fail(c)
  PROVE  \E y \in AnyCall : /\ call' = [call EXCEPT ![c] = y] /\ GoesTo(call[c], y) /\ OnScript(y) /\ call[c] # Idle
                            /\ y.row = call[c].row /\ y.u = call[c].u /\ ~Minted(y)
                            /\ y.ok => call[c].ok /\ CarriesOn(call[c], s)
<1>1. PICK x : x = call[c]
  OBVIOUS
<1>2. x \in AnyCall /\ x.todo \in Seq(CfSteps) /\ x.todo # <<>> /\ x # Idle
  BY <1>1, CfNumbers, NoCall DEF At, AnyCall
<1>3. OnScript(x) /\ x.op \in Ops /\ Head(x.todo) = s /\ x.todo[1] = s
  BY <1>1, <1>2 DEF CfAsked, OnScript, At
<1>4. Script[x.op] \in Seq(CfSteps)
  BY <1>3, Scripts DEF Fresh, Orderly
<1>5. PICK t \in Seq(CfSteps) : t = Tail(x.todo) /\ Len(t) = Len(x.todo) - 1 /\ Follows(t, Script[x.op])
  <2>1. PICK v \in Seq(CfSteps) : v = x.todo
    BY <1>2
  <2>2. Follows(v, Script[x.op]) /\ v # <<>>
    BY <1>2, <1>3, <2>1 DEF OnScript
  <2>3. Follows(Tail(v), Script[x.op]) /\ Len(Tail(v)) = Len(v) - 1 /\ Tail(v) \in Seq(CfSteps)
    BY <1>4, <2>2, FollowsOn
  <2>. QED  BY <2>1, <2>3
<1>. DEFINE Good(y) == /\ y \in AnyCall /\ call' = [call EXCEPT ![c] = y] /\ GoesTo(x, y) /\ OnScript(y)
                       /\ y.row = x.row /\ y.u = x.u /\ ~Minted(y) /\ (y.ok => x.ok /\ CarriesOn(x, s))
<1>6. ASSUME NEW v \in Seq(CfSteps), Follows(v, Script[x.op]), Silently(c, v), CarriesOn(x, s),
             x.op = "recreate" => Len(v) # 6
      PROVE  \E y : Good(y)
  <2>1. PICK y \in AnyCall : /\ call' = [call EXCEPT ![c] = y] /\ GoesTo(x, y) /\ OnScript(y)
                             /\ y.row = x.row /\ y.u = x.u /\ y.ok = x.ok /\ y.todo = v
    BY <1>1, <1>3, <1>6, SilentlyOn
  <2>2. y.op = x.op /\ x.op # "create"
    BY <1>6, <2>1 DEF GoesTo, CarriesOn
  <2>. QED  BY <1>6, <2>1, <2>2 DEF Minted
<1>7. <<>> \in Seq(CfSteps) /\ Len(<<>>) # 4 /\ Len(<<>>) # 6 /\ Follows(<<>>, Script[x.op])
  BY <1>4, FollowsOn
<1>. HIDE DEF Good
<1>8. ASSUME x.op \in {"delete", "account"} PROVE \E y : Good(y)
  <2>1. Silently(c, t)
    BY <1>1, <1>5, <1>8 DEF Fail
  <2>. QED  BY <1>5, <1>6, <1>8, <2>1 DEF CarriesOn
<1>9. ASSUME x.op \in {"sync", "recreate"} /\ s = "stop" PROVE \E y : Good(y)
  <2>1. Silently(c, t)
    BY <1>1, <1>3, <1>5, <1>9 DEF Fail
  <2>2. x.op = "recreate" => Len(x.todo) = 9
    BY <1>2, <1>3, <1>9, WhatIsLeft
  <2>3. x.op = "recreate" => Len(t) # 6
    <3>1. PICK m \in Nat, n \in Nat : m = Len(x.todo) /\ n = Len(t) /\ n = m - 1
      BY <1>2, <1>3, <1>5, WhatIsLeft
    <3>2. x.op = "recreate" => m = 9
      BY <2>2, <3>1
    <3>3. \A i \in Nat, j \in Nat : i = 9 /\ j = i - 1 => j # 6
      OBVIOUS
    <3>4. m = 9 => n # 6
      BY <3>1, <3>3
    <3>. QED  BY <3>1, <3>2, <3>4
  <2>. QED  BY <1>5, <1>6, <1>9, <2>1, <2>3 DEF CarriesOn
<1>10. ASSUME x.op \in {"sync", "recreate"} /\ s = "read" PROVE \E y : Good(y)
  <2>1. Silently(c, Redeploy)
    BY <1>1, <1>3, <1>10 DEF Fail
  <2>2. Redeploy \in Seq(CfSteps) /\ Len(Redeploy) # 6
    BY DEF Redeploy, CfSteps
  <2>3. Follows(Redeploy, Script[x.op])
    BY <1>10, RedeployFollows
  <2>. QED  BY <1>6, <1>10, <2>1, <2>2, <2>3 DEF CarriesOn
<1>11. ASSUME x.op = "boot" PROVE \E y : Good(y)
  <2>1. Silently(c, <<>>)
    BY <1>1, <1>11 DEF Fail
  <2>. QED  BY <1>6, <1>7, <1>11, <2>1 DEF CarriesOn
<1>12. ASSUME ~CarriesOn(x, s) PROVE \E y : Good(y)
  <2>1. PICK y : y = [x EXCEPT !.ok = FALSE, !.todo = <<>>, !.more = {}]
    OBVIOUS
  <2>2. call' = [call EXCEPT ![c] = y]
    BY <1>1, <1>3, <1>12, <2>1 DEF Fail, CarriesOn
  <2>3. /\ y \in AnyCall /\ y.todo = <<>> /\ y.op = x.op /\ y.alone = x.alone /\ y.old = x.old /\ y.more = {}
        /\ y.row = x.row /\ y.u = x.u /\ ~y.ok
    BY <1>2, <1>7, <2>1 DEF AnyCall
  <2>4. GoesTo(x, y) /\ OnScript(y) /\ ~Minted(y)
    BY <1>3, <1>7, <2>3 DEF GoesTo, OnScript, Minted
  <2>. QED  BY <2>2, <2>3, <2>4 DEF Good
<1>13. \E y : Good(y)
  BY <1>8, <1>9, <1>10, <1>11, <1>12 DEF CarriesOn
<1>. QED  BY <1>1, <1>2, <1>13 DEF Good

\* A step that stays at its row and leaves the tunnels alone.
LEMMA StaysAsked ==
  ASSUME CfInv, CfAsked, NEW c \in Callers, NEW y, GoesTo(call[c], y), call' = [call EXCEPT ![c] = y], call[c] # Idle,
         y.row = call[c].row, y.u = call[c].u \/ (\E r \in Rows : y.u = uuid[r]), ~Minted(y), OnScript(y), CfSoFar(y)',
         uuid' = uuid, made' = made, lastRow' = lastRow, alive' = alive \/ alive' = alive \ {call[c].old},
         \A r \in Rows \ {call[c].row} : slot'[r] = slot[r] /\ dns'[r] = dns[r]
  PROVE  CfAsked'
<1>. PICK x : x = call[c]
  OBVIOUS
<1>1. x \in AnyCall /\ x.row \in Nat /\ x.row <= lastRow /\ x.u \in Nat /\ x.u <= made
  <2>1. x \in AnyCall
    BY CfNumbers
  <2>2. x.row <= lastRow /\ x.u <= made
    BY DEF CfAsked, RowsGiven, Owned, CallNumbers
  <2>. QED  BY <2>1, <2>2, CfNumbers DEF AnyCall
<1>2. Turns(c, y)
  BY <1>1, CfNumbers DEF Turns, GoesTo
<1>3. RowsTurn(c, y)
  <2>1. \A r \in Rows : r > lastRow => r # x.row
    BY <1>1, CfNumbers
  <2>. QED  BY <2>1 DEF RowsTurn
<1>4. TunnelsTurn(c, y)
  <2>1. y.u <= made
    BY <1>1 DEF CfAsked, Owned, Numbers
  <2>2. alive' \subseteq alive /\ alive \ {x.old} \subseteq alive'
    OBVIOUS
  <2>. QED  BY <2>1, <2>2 DEF TunnelsTurn, GoesTo
<1>. QED  BY <1>2, <1>3, <1>4, TurnAsked

LEMMA FailAsked ==
  ASSUME CfInv, CfAsked, NEW c \in Callers, NEW s \in CfSteps, At(c, s), Fail(c),
         call[c].alone /\ call[c].ok => call[c].op \in {"network", "boot"} \/ ~CarriesOn(call[c], s),
         UNCHANGED <<uuid, slot, dns, alive, made, lastRow>>
  PROVE  CfAsked'
<1>1. PICK y \in AnyCall : /\ call' = [call EXCEPT ![c] = y] /\ GoesTo(call[c], y) /\ OnScript(y) /\ call[c] # Idle
                           /\ y.row = call[c].row /\ y.u = call[c].u /\ ~Minted(y)
                           /\ y.ok => call[c].ok /\ CarriesOn(call[c], s)
  BY FailOn
<1>2. y.alone = call[c].alone /\ y.op = call[c].op
  BY <1>1 DEF GoesTo
<1>3. CfSoFar(y)'
  BY <1>1, <1>2 DEF CfSoFar
<1>. QED  BY <1>1, <1>3, StaysAsked

\* (Said because the provers take numerals for names.)
LEMMA Apart ==
  /\ 0 # 1 /\ 0 # 2 /\ 0 # 3 /\ 0 # 4 /\ 0 # 5 /\ 0 # 6 /\ 0 # 7 /\ 0 # 8 /\ 0 # 9
  /\ 1 # 2 /\ 1 # 3 /\ 1 # 4 /\ 1 # 5 /\ 1 # 6 /\ 1 # 7 /\ 1 # 8 /\ 1 # 9
  /\ 2 # 3 /\ 2 # 4 /\ 2 # 5 /\ 2 # 6 /\ 2 # 7 /\ 2 # 8 /\ 2 # 9
  /\ 3 # 4 /\ 3 # 5 /\ 3 # 6 /\ 3 # 7 /\ 3 # 8 /\ 3 # 9
  /\ 4 # 5 /\ 4 # 6 /\ 4 # 7 /\ 4 # 8 /\ 4 # 9
  /\ 5 # 6 /\ 5 # 7 /\ 5 # 8 /\ 5 # 9
  /\ 6 # 7 /\ 6 # 8 /\ 6 # 9
  /\ 7 # 8 /\ 7 # 9
  /\ 8 # 9
OBVIOUS

\* What is known of a request that is about to make step s.
LEMMA AtStep ==
  ASSUME CfInv, CfAsked, NEW c \in Callers, NEW s \in CfSteps, At(c, s)
  PROVE  /\ call[c] \in AnyCall /\ call[c].todo # <<>> /\ call[c].todo[1] = s /\ OnScript(call[c]) /\ CfSoFar(call[c])
         /\ s \notin {"cfCreate", "insert"} => call[c].row \in Rows
         /\ GoesTo(call[c], call[c])
<1>1. call[c] \in AnyCall /\ call[c].todo # <<>> /\ call[c].todo \in Seq(CfSteps)
  BY CfNumbers DEF At, AnyCall
<1>2. call[c].todo[1] = s
  BY <1>1 DEF At
<1>3. OnScript(call[c]) /\ CfSoFar(call[c])
  BY DEF CfAsked
<1>. QED  BY <1>1, <1>2, <1>3, InRows DEF GoesTo, CfInv

LEMMA StopAsked == \A c \in Callers : CfInv /\ CfAsked /\ Stop(c) => CfAsked'
<1>. SUFFICES ASSUME NEW c \in Callers, CfInv, CfAsked, Stop(c) PROVE CfAsked'
  OBVIOUS
<1>. PICK x : x = call[c]
  OBVIOUS
<1>0. At(c, "stop") /\ "stop" \in CfSteps
  BY DEF Stop, CfSteps
<1>1. x \in AnyCall /\ x.todo # <<>> /\ x.todo[1] = "stop" /\ OnScript(x) /\ CfSoFar(x) /\ x.row \in Rows /\ GoesTo(x, x)
  BY <1>0, AtStep
<1>2. CASE uuid[x.row] = None /\ x.op # "network" /\ Fail(c) /\ UNCHANGED slot
  <2>1. ASSUME x.alone, x.ok PROVE FALSE
    <3>. PICK m \in Nat : m = Len(x.todo)
      BY <1>1, WhatIsLeft
    <3>1. (x.op = "restart" /\ m = 4) \/ (x.op = "sync" /\ m = 6) \/ (x.op = "recreate" /\ m = 9)
          \/ (x.op \in {"delete", "account"} /\ m = 3)
      BY <1>1, <1>2, WhatIsLeft
    <3>2. CASE x.op \in {"restart", "sync", "recreate"}
      BY <1>1, <1>2, <2>1, <3>2 DEF CfSoFar, Started, None
    <3>3. CASE x.op \in {"delete", "account"}
      <4>1. m = 3 /\ x.row # 0
        BY <1>1, <3>1, <3>3, CfNumbers
      <4>. QED  BY <1>1, <1>2, <2>1, <3>3, <4>1 DEF CfSoFar, Ended, None
    <3>. QED  BY <3>1, <3>2, <3>3
  <2>. QED  BY <1>0, <1>2, <2>1, FailAsked DEF Stop
<1>3. CASE slot' = [slot EXCEPT ![x.row] = None] /\ Step(c, x)
  <2>1. PICK y \in AnyCall : /\ call' = [call EXCEPT ![c] = y] /\ GoesTo(x, y) /\ OnScript(y) /\ x # Idle
                             /\ y.row = x.row /\ y.u = x.u /\ y.ok = x.ok /\ y.more = x.more
                             /\ Len(y.todo) = Len(x.todo) - 1 /\ Len(y.todo) \in Nat
    BY <1>0, <1>1, <1>3, StepOn
  <2>. PICK m \in Nat, n \in Nat : m = Len(x.todo) /\ n = Len(y.todo)
    BY <1>1, <2>1, WhatIsLeft
  <2>2. (x.op \in {"restart", "network"} /\ n = 3) \/ (x.op = "sync" /\ n = 5)
        \/ (x.op = "recreate" /\ n = 8) \/ (x.op \in {"delete", "account"} /\ n = 2)
    BY <1>1, <2>1, WhatIsLeft
  <2>3. slot'[x.row] = 0 /\ uuid' = uuid /\ alive' = alive /\ \A r \in Rows \ {x.row} : slot'[r] = slot[r]
    BY <1>1, <1>3 DEF Stop, None, CfInv, CfTypes
  <2>4. CfSoFar(y)'
    <3>1. SUFFICES ASSUME y.alone, y.ok PROVE CfSoFar(y)'
      BY DEF CfSoFar
    <3>2. CASE x.op \in {"restart", "sync", "recreate"}
      <4>1. uuid[x.row] # 0
        BY <1>1, <2>1, <3>1, <3>2 DEF CfSoFar, Started, GoesTo
      <4>2. Started(y)'
        <5>0. y.op = x.op /\ y.row = x.row /\ x.row \in Rows /\ uuid' = uuid /\ slot'[x.row] = 0
          BY <1>1, <2>1, <2>3 DEF GoesTo
        <5>1. CASE x.op = "restart" /\ n = 3
          BY <4>1, <5>0, <5>1 DEF Started, Launching, Redeploys
        <5>2. CASE x.op = "sync" /\ n = 5
          BY <4>1, <5>0, <5>2 DEF Started, Launching, Redeploys
        <5>3. CASE x.op = "recreate" /\ n = 8
          BY <4>1, <5>0, <5>3 DEF Started, Launching, Redeploys
        <5>. QED  BY <2>2, <3>2, <5>1, <5>2, <5>3
      <4>. QED  BY <2>1, <3>2, <4>2 DEF CfSoFar, GoesTo
    <3>3. CASE x.op \in {"delete", "account", "network"}
      <4>1. CASE x.op \in {"delete", "account"}
        <5>1. m = 3 /\ n = 2 /\ x.row # 0 /\ x.alone /\ x.ok
          BY <1>1, <2>1, <2>2, <3>1, <4>1, WhatIsLeft, CfNumbers DEF GoesTo
        <5>2. uuid[x.row] # 0 /\ (x.op = "account" => \A r \in x.more : uuid[r] # 0 /\ r # x.row)
          BY <1>1, <4>1, <5>1 DEF CfSoFar, Ended
        <5>3. Ended(y)'
          <6>1. y.row = x.row /\ slot'[x.row] = 0 /\ uuid'[x.row] # 0
            BY <2>1, <2>3, <5>2
          <6>. QED  BY <5>1, <6>1 DEF Ended
        <5>. QED  BY <2>1, <2>3, <4>1, <5>2, <5>3 DEF CfSoFar, GoesTo
      <4>2. CASE x.op = "network"
        BY <2>1, <4>2 DEF CfSoFar, GoesTo
      <4>. QED  BY <3>3, <4>1, <4>2
    <3>. QED  BY <2>2, <3>2, <3>3
  <2>5. ~Minted(y)
    BY <2>1, <2>2, Apart DEF Minted, GoesTo
  <2>. QED  BY <1>3, <2>1, <2>3, <2>4, <2>5, StaysAsked DEF Stop
<1>. QED  BY <1>2, <1>3 DEF Stop

LEMMA CfDeleteAsked == \A c \in Callers : CfInv /\ CfAsked /\ CfDelete(c) => CfAsked'
<1>. SUFFICES ASSUME NEW c \in Callers, CfInv, CfAsked, CfDelete(c) PROVE CfAsked'
  OBVIOUS
<1>. PICK x : x = call[c]
  OBVIOUS
<1>0. At(c, "cfDelete") /\ "cfDelete" \in CfSteps
  BY DEF CfDelete, CfSteps
<1>1. x \in AnyCall /\ x.todo # <<>> /\ x.todo[1] = "cfDelete" /\ OnScript(x) /\ CfSoFar(x) /\ x.row \in Rows /\ GoesTo(x, x)
  BY <1>0, AtStep
<1>2. alive' = alive \/ alive' = alive \ {x.old}
  BY DEF CfDelete
<1>3. PICK y \in AnyCall : /\ call' = [call EXCEPT ![c] = y] /\ GoesTo(x, y) /\ OnScript(y) /\ x # Idle
                           /\ y.row = x.row /\ y.u = x.u /\ y.ok = x.ok /\ y.more = x.more
                           /\ (y.silent \/ alive' = alive \ {x.old})
                           /\ Len(y.todo) = Len(x.todo) - 1 /\ Len(y.todo) \in Nat
  <2>1. CASE alive' = alive \ {x.old} /\ Step(c, x)
    BY <1>0, <1>1, <2>1, StepOn
  <2>2. CASE Silently(c, Tail(x.todo))
    <3>1. PICK v \in Seq(CfSteps) : v = x.todo
      BY <1>1 DEF AnyCall
    <3>2. v # <<>> /\ x.op \in Ops /\ Follows(v, Script[x.op]) /\ Script[x.op] \in Seq(CfSteps)
      BY <1>1, <3>1, Scripts DEF OnScript, Fresh, Orderly
    <3>3. Follows(Tail(v), Script[x.op])
      BY <3>2, FollowsOn
    <3>4. Tail(v) \in Seq(CfSteps) /\ Len(Tail(v)) = Len(v) - 1 /\ Len(v) - 1 \in Nat
      BY <3>2
    <3>5. PICK rest \in Seq(CfSteps) : rest = Tail(v)
      BY <3>4
    <3>6. Silently(c, rest) /\ Follows(rest, Script[x.op])
      BY <2>2, <3>1, <3>3, <3>5
    <3>7. PICK y \in AnyCall : /\ call' = [call EXCEPT ![c] = y] /\ GoesTo(x, y) /\ OnScript(y) /\ x # Idle
                               /\ y.row = x.row /\ y.u = x.u /\ y.ok = x.ok /\ y.silent /\ y.more = x.more /\ y.todo = rest
      BY <3>2, <3>6, SilentlyOn
    <3>. QED  BY <3>1, <3>4, <3>5, <3>7
  <2>. QED  BY <2>1, <2>2 DEF CfDelete
<1>. PICK m \in Nat, n \in Nat : m = Len(x.todo) /\ n = Len(y.todo)
  BY <1>1, <1>3, WhatIsLeft
<1>4. (x.op = "recreate" /\ m = 8 /\ n = 7) \/ (x.op \in {"delete", "account"} /\ m = 2 /\ n = 1)
  BY <1>1, <1>3, WhatIsLeft
<1>5. UNCHANGED <<uuid, slot, dns, made, lastRow>>
  BY DEF CfDelete
<1>6. CfSoFar(y)'
  <2>1. SUFFICES ASSUME y.alone, y.ok PROVE CfSoFar(y)'
    BY DEF CfSoFar
  <2>2. (y.silent \/ x.old \notin alive') /\ y.old = x.old /\ x.alone /\ x.ok
    BY <1>3, <2>1 DEF GoesTo
  <2>3. CASE x.op = "recreate"
    <3>1. Started(x)
      BY <1>1, <2>2, <2>3 DEF CfSoFar
    <3>2. Started(y)'
      <4>1. m = 8 /\ n = 7 /\ y.op = "recreate" /\ y.row = x.row
        BY <1>3, <1>4, <2>3 DEF GoesTo
      <4>2. x.row \in Rows /\ uuid[x.row] # 0 /\ slot[x.row] = 0
        BY <1>1, <2>3, <3>1, <4>1 DEF Started
      <4>. QED  BY <1>5, <2>2, <4>1, <4>2 DEF Started, Launching, Redeploys
    <3>. QED  BY <1>3, <2>3, <3>2 DEF CfSoFar, GoesTo
  <2>4. CASE x.op \in {"delete", "account"}
    <3>1. m = 2 /\ n = 1 /\ y.op = x.op /\ y.row = x.row /\ x.row # 0
      BY <1>1, <1>3, <1>4, <2>4, CfNumbers DEF GoesTo
    <3>2. slot[x.row] = 0 /\ uuid[x.row] # 0 /\ (x.op = "account" => \A r \in x.more : uuid[r] # 0 /\ r # x.row)
      BY <1>1, <2>2, <2>4, <3>1 DEF CfSoFar, Ended
    <3>3. Ended(y)'
      BY <1>5, <2>2, <3>1, <3>2 DEF Ended
    <3>. QED  BY <1>3, <1>5, <2>4, <3>1, <3>2, <3>3 DEF CfSoFar
  <2>. QED  BY <1>4, <2>3, <2>4
<1>7. ~Minted(y)
  BY <1>3, <1>4, Apart DEF Minted, GoesTo
<1>. QED  BY <1>2, <1>3, <1>5, <1>6, <1>7, StaysAsked

LEMMA ReadAsked == \A c \in Callers : CfInv /\ CfAsked /\ Read(c) => CfAsked'
<1>. SUFFICES ASSUME NEW c \in Callers, CfInv, CfAsked, Read(c) PROVE CfAsked'
  OBVIOUS
<1>. PICK x : x = call[c]
  OBVIOUS
<1>0. At(c, "read") /\ "read" \in CfSteps
  BY DEF Read, CfSteps
<1>1. x \in AnyCall /\ x.todo # <<>> /\ x.todo[1] = "read" /\ OnScript(x) /\ CfSoFar(x) /\ x.row \in Rows /\ GoesTo(x, x)
  BY <1>0, AtStep
<1>2. CASE uuid[x.row] = None /\ Fail(c)
  <2>. PICK m \in Nat : m = Len(x.todo)
    BY <1>1, WhatIsLeft
  <2>1. (x.op \in {"create", "restart", "network", "boot"} /\ m = 3) \/ (x.op \in {"sync", "recreate"} /\ m = 5)
    BY <1>1, WhatIsLeft
  <2>2. ASSUME x.alone, x.ok PROVE x.op \in {"network", "boot"}
    <3>1. SUFFICES ASSUME x.op \in {"create", "restart", "sync", "recreate"} PROVE FALSE
      BY <2>1
    <3>2. Started(x)
      BY <1>1, <2>2, <3>1 DEF CfSoFar
    <3>3. ~(x.op = "create" /\ m > 3)
      <4>1. CASE m = 3
        BY <4>1
      <4>2. CASE m = 5 /\ x.op \in {"sync", "recreate"}
        BY <4>2
      <4>. QED  BY <2>1, <4>1, <4>2
    <3>. QED  BY <1>2, <3>2, <3>3 DEF Started, None
  <2>. QED  BY <1>0, <1>2, <2>2, FailAsked DEF Read
<1>3. CASE uuid[x.row] # None /\ Step(c, [x EXCEPT !.u = uuid[x.row]])
  <2>1. PICK z : z = [x EXCEPT !.u = uuid[x.row]]
    OBVIOUS
  <2>2. GoesTo(x, z) /\ z.row = x.row /\ z.u = uuid[x.row] /\ z.ok = x.ok /\ z.silent = x.silent /\ Step(c, z)
    BY <1>1, <1>3, <2>1, CfNumbers DEF AnyCall, GoesTo
  <2>3. PICK y \in AnyCall : /\ call' = [call EXCEPT ![c] = y] /\ GoesTo(x, y) /\ OnScript(y) /\ x # Idle
                             /\ y.row = x.row /\ y.u = uuid[x.row] /\ y.ok = x.ok /\ y.silent = x.silent
                             /\ Len(y.todo) = Len(x.todo) - 1 /\ Len(y.todo) \in Nat
    BY <1>0, <2>2, StepOn
  <2>. PICK m \in Nat, n \in Nat : m = Len(x.todo) /\ n = Len(y.todo)
    BY <1>1, <2>3, WhatIsLeft
  <2>4. (x.op \in {"create", "restart", "network", "boot"} /\ m = 3 /\ n = 2) \/ (x.op \in {"sync", "recreate"} /\ m = 5 /\ n = 4)
    BY <1>1, <2>3, WhatIsLeft
  <2>5. y.op = x.op /\ y.row = x.row /\ y.alone = x.alone /\ y.u = uuid[x.row] /\ y.old = x.old /\ y.ok = x.ok /\ y.silent = x.silent
    BY <2>3 DEF GoesTo
  <2>6. UNCHANGED <<uuid, alive, slot, dns, made, lastRow>>
    BY DEF Read
  <2>7. CfSoFar(y)'
    <3>1. SUFFICES ASSUME x.alone, x.ok, x.op \in {"create", "restart", "sync", "recreate"} PROVE Started(y)'
      BY <2>4, <2>5 DEF CfSoFar
    <3>2. Started(x) /\ uuid[x.row] # 0
      BY <1>1, <1>3, <3>1 DEF CfSoFar, None
    <3>3. CASE x.op \in {"create", "restart"} /\ m = 3 /\ n = 2
      <4>1. slot[x.row] = 0
        BY <3>2, <3>3 DEF Started, Launching, Redeploys
      <4>. QED  BY <1>1, <2>5, <2>6, <3>2, <3>3, <4>1 DEF Started, Launching, Redeploys
    <3>4. CASE x.op \in {"sync", "recreate"} /\ m = 5 /\ n = 4
      <4>1. slot[x.row] = 0 /\ (x.op = "recreate" => (x.silent \/ x.old \notin alive) /\ uuid[x.row] \in alive)
        BY <3>2, <3>4 DEF Started, Launching, Redeploys
      <4>. QED  BY <1>1, <2>5, <2>6, <3>2, <3>4, <4>1 DEF Started, Launching, Redeploys
    <3>. QED  BY <2>4, <3>1, <3>3, <3>4
  <2>8. ~Minted(y)
    BY <2>4, <2>5, Apart DEF Minted
  <2>. QED  BY <1>1, <2>3, <2>6, <2>7, <2>8, StaysAsked
<1>. QED  BY <1>2, <1>3 DEF Read

LEMMA ParkAsked == \A c \in Callers : CfInv /\ CfAsked /\ ParkTunnel(c) => CfAsked'
<1>. SUFFICES ASSUME NEW c \in Callers, CfInv, CfAsked, ParkTunnel(c) PROVE CfAsked'
  OBVIOUS
<1>. PICK x : x = call[c]
  OBVIOUS
<1>0. PICK step \in {"creds", "launch"}, k \in {2, 3} :
        /\ At(c, step) /\ step \in CfSteps /\ k = (IF step = "creds" THEN 3 ELSE 2)
        /\ Silently(c, SubSeq(x.todo, k, Len(x.todo)))
  BY DEF ParkTunnel, CfSteps
<1>1. x \in AnyCall /\ x.todo # <<>> /\ x.todo[1] = step /\ OnScript(x) /\ CfSoFar(x) /\ x.row \in Rows
  BY <1>0, AtStep
<1>. PICK m \in Nat : m = Len(x.todo)
  BY <1>1, WhatIsLeft
<1>2. \/ x.op \in {"create", "restart", "network", "boot"} /\ m = k - 1
      \/ x.op \in {"sync", "recreate"} /\ m = k + 1
  <2>1. CASE step = "creds"
    BY <1>0, <1>1, <2>1, WhatIsLeft
  <2>2. CASE step = "launch"
    BY <1>0, <1>1, <2>2, WhatIsLeft
  <2>. QED  BY <1>0, <2>1, <2>2
<1>3. PICK s \in Seq(CfSteps), v \in Seq(CfSteps) : s = x.todo /\ v = Script[x.op] /\ Orderly(s) /\ Follows(s, v) /\ x.op \in Ops
  <2>1. x \in Call /\ x.op \in Ops
    BY <1>1, CfNumbers, WhatIsLeft
  <2>2. Orderly(x.todo) /\ x.todo \in Seq(CfSteps) /\ Follows(x.todo, Script[x.op])
    BY <1>1, <2>1 DEF Call, Orderly, OnScript
  <2>3. Script[x.op] \in Seq(CfSteps)
    BY <2>1, Scripts DEF Fresh, Orderly
  <2>. QED  BY <2>1, <2>2, <2>3
<1>4. PICK rest : rest = SubSeq(x.todo, k, Len(x.todo))
  OBVIOUS
<1>5. /\ rest \in Seq(CfSteps) /\ Len(rest) = (IF k <= m THEN m - k + 1 ELSE 0)
      /\ \A i \in 1 .. Len(rest) : rest[i] = s[i + k - 1] /\ i + k - 1 \in 1 .. m
  BY <1>3, <1>4, EndOf
<1>. PICK n \in Nat : n = Len(rest)
  <2>1. rest \in Seq(CfSteps)
    BY <1>5
  <2>2. Len(rest) \in Nat
    BY <2>1
  <2>. QED  BY <2>2
<1>6. (x.op \in {"create", "restart", "network", "boot"} /\ n = 0) \/ (x.op \in {"sync", "recreate"} /\ n = 2)
  BY <1>2, <1>5
<1>7. Follows(rest, v)
  <2>1. n = 0 \/ m - n = k - 1
    BY <1>5
  <2>0. Len(s) = m /\ Len(v) \in Nat
    BY <1>3
  <2>2. Len(v) \in Nat /\ m <= Len(v) /\ \A i \in 1 .. m : s[i] = v[Len(v) - m + i]
    BY <1>3, <2>0 DEF Follows
  <2>3. n <= m
    BY <1>5
  <2>4. ASSUME NEW i \in 1 .. n PROVE rest[i] = v[Len(v) - n + i]
    <3>1. rest[i] = s[i + k - 1] /\ i + k - 1 \in 1 .. m
      BY <1>5
    <3>2. s[i + k - 1] = v[Len(v) - m + (i + k - 1)]
      BY <2>2, <3>1
    <3>3. Len(v) - m + (i + k - 1) = Len(v) - n + i
      <4>1. PICK w \in Nat : w = Len(v)
        BY <2>0
      <4>2. m - n = k - 1 /\ k \in Nat /\ i \in Nat
        BY <2>1
      <4>3. w - m + (i + k - 1) = w - n + i
        <5>1. m = n + k - 1
          BY <4>2
        <5>2. w - (n + k - 1) + (i + k - 1) = w - n + i
          BY <4>1, <4>2
        <5>. QED  BY <5>1, <5>2
      <4>. QED  BY <4>1, <4>3
    <3>. QED  BY <3>1, <3>2, <3>3
  <2>. QED  BY <2>2, <2>3, <2>4 DEF Follows
<1>8. PICK y \in AnyCall : /\ call' = [call EXCEPT ![c] = y] /\ GoesTo(x, y) /\ OnScript(y) /\ x # Idle
                           /\ y.row = x.row /\ y.u = x.u /\ y.ok = x.ok /\ y.silent /\ y.todo = rest
  <2>1. Silently(c, rest) /\ rest \in Seq(CfSteps) /\ Follows(rest, Script[x.op]) /\ x.op \in Ops
    BY <1>0, <1>3, <1>4, <1>5, <1>7
  <2>. QED  BY <2>1, SilentlyOn
<1>9. y.op = x.op /\ y.alone = x.alone /\ y.old = x.old
  BY <1>8 DEF GoesTo
<1>10. UNCHANGED <<uuid, alive, slot, dns, made, lastRow>>
  BY DEF ParkTunnel
<1>11. CfSoFar(y)'
  <2>1. SUFFICES ASSUME x.alone, x.ok, x.op \in {"create", "restart", "sync", "recreate"} PROVE Started(y)'
    BY <1>6, <1>8, <1>9 DEF CfSoFar
  <2>2. Started(x)
    BY <1>1, <2>1 DEF CfSoFar
  <2>3. CASE x.op \in {"create", "restart"} /\ m = k - 1 /\ n = 0
    <3>1. slot[x.row] = 0 /\ uuid[x.row] # 0
      <4>1. m \in 1 .. 3 /\ ~(m > 3)
        BY <2>3
      <4>. QED  BY <2>2, <2>3, <4>1 DEF Started, Launching, Redeploys
    <3>. QED  BY <1>1, <1>8, <1>9, <1>10, <2>3, <3>1 DEF Started, Launching, Redeploys
  <2>4. CASE x.op \in {"sync", "recreate"} /\ m = k + 1 /\ n = 2
    <3>1. slot[x.row] = 0 /\ uuid[x.row] # 0 /\ (x.op = "recreate" => uuid[x.row] \in alive)
      <4>1. m - 2 \in 1 .. 3 /\ m <= 5
        BY <2>4
      <4>. QED  BY <2>2, <2>4, <4>1 DEF Started, Launching, Redeploys
    <3>. QED  BY <1>1, <1>8, <1>9, <1>10, <2>4, <3>1 DEF Started, Launching, Redeploys
  <2>. QED  BY <1>2, <1>6, <2>1, <2>3, <2>4
<1>12. ~Minted(y)
  BY <1>6, <1>8, <1>9, Apart DEF Minted
<1>. QED  BY <1>1, <1>8, <1>10, <1>11, <1>12, StaysAsked

LEMMA WriteCredsAsked == \A c \in Callers : CfInv /\ CfAsked /\ WriteCreds(c) => CfAsked'
<1>. SUFFICES ASSUME NEW c \in Callers, CfInv, CfAsked, WriteCreds(c) PROVE CfAsked'
  OBVIOUS
<1>. PICK x : x = call[c]
  OBVIOUS
<1>0. At(c, "creds") /\ "creds" \in CfSteps /\ Step(c, x)
  BY DEF WriteCreds, CfSteps
<1>1. x \in AnyCall /\ x.todo # <<>> /\ x.todo[1] = "creds" /\ OnScript(x) /\ CfSoFar(x) /\ x.row \in Rows /\ GoesTo(x, x)
  BY <1>0, AtStep
<1>2. PICK y \in AnyCall : /\ call' = [call EXCEPT ![c] = y] /\ GoesTo(x, y) /\ OnScript(y) /\ x # Idle
                           /\ y.row = x.row /\ y.u = x.u /\ y.ok = x.ok /\ y.silent = x.silent
                           /\ Len(y.todo) = Len(x.todo) - 1 /\ Len(y.todo) \in Nat
  BY <1>0, <1>1, StepOn
<1>. PICK m \in Nat, n \in Nat : m = Len(x.todo) /\ n = Len(y.todo)
  BY <1>1, <1>2, WhatIsLeft
<1>3. (x.op \in {"create", "restart", "network", "boot"} /\ m = 2 /\ n = 1) \/ (x.op \in {"sync", "recreate"} /\ m = 4 /\ n = 3)
  BY <1>1, <1>2, WhatIsLeft
<1>4. y.op = x.op /\ y.row = x.row /\ y.alone = x.alone /\ y.u = x.u /\ y.old = x.old /\ y.ok = x.ok /\ y.silent = x.silent
  BY <1>2 DEF GoesTo
<1>5. UNCHANGED <<uuid, alive, slot, dns, made, lastRow>>
  BY DEF WriteCreds
<1>6. CfSoFar(y)'
  <2>1. SUFFICES ASSUME x.alone, x.ok, x.op \in {"create", "restart", "sync", "recreate"} PROVE Started(y)'
    BY <1>3, <1>4 DEF CfSoFar
  <2>2. Started(x)
    BY <1>1, <2>1 DEF CfSoFar
  <2>3. CASE x.op \in {"create", "restart"} /\ m = 2 /\ n = 1
    <3>1. slot[x.row] = 0 /\ x.u = uuid[x.row] /\ uuid[x.row] # 0
      BY <2>2, <2>3 DEF Started, Launching, Redeploys
    <3>. QED  BY <1>1, <1>4, <1>5, <2>3, <3>1 DEF Started, Launching, Redeploys
  <2>4. CASE x.op \in {"sync", "recreate"} /\ m = 4 /\ n = 3
    <3>1. /\ slot[x.row] = 0 /\ x.u = uuid[x.row] /\ uuid[x.row] # 0
          /\ x.op = "recreate" => (x.silent \/ x.old \notin alive) /\ uuid[x.row] \in alive
      BY <2>2, <2>4 DEF Started, Launching, Redeploys
    <3>. QED  BY <1>1, <1>4, <1>5, <2>4, <3>1 DEF Started, Launching, Redeploys
  <2>. QED  BY <1>3, <2>1, <2>3, <2>4
<1>7. ~Minted(y)
  BY <1>3, <1>4, Apart DEF Minted
<1>. QED  BY <1>1, <1>2, <1>5, <1>6, <1>7, StaysAsked

LEMMA LaunchAsked == \A c \in Callers : CfInv /\ CfAsked /\ Launch(c) => CfAsked'
<1>. SUFFICES ASSUME NEW c \in Callers, CfInv, CfAsked, Launch(c) PROVE CfAsked'
  OBVIOUS
<1>. PICK x : x = call[c]
  OBVIOUS
<1>0. At(c, "launch") /\ "launch" \in CfSteps /\ Step(c, x)
  BY DEF Launch, CfSteps
<1>1. x \in AnyCall /\ x.todo # <<>> /\ x.todo[1] = "launch" /\ OnScript(x) /\ CfSoFar(x) /\ x.row \in Rows /\ GoesTo(x, x)
  BY <1>0, AtStep
<1>2. PICK y \in AnyCall : /\ call' = [call EXCEPT ![c] = y] /\ GoesTo(x, y) /\ OnScript(y) /\ x # Idle
                           /\ y.row = x.row /\ y.u = x.u /\ y.ok = x.ok /\ y.silent = x.silent
                           /\ Len(y.todo) = Len(x.todo) - 1 /\ Len(y.todo) \in Nat
  BY <1>0, <1>1, StepOn
<1>. PICK m \in Nat, n \in Nat : m = Len(x.todo) /\ n = Len(y.todo)
  BY <1>1, <1>2, WhatIsLeft
<1>3. (x.op \in {"create", "restart", "network", "boot"} /\ m = 1 /\ n = 0) \/ (x.op \in {"sync", "recreate"} /\ m = 3 /\ n = 2)
  BY <1>1, <1>2, WhatIsLeft
<1>4. y.op = x.op /\ y.row = x.row /\ y.alone = x.alone /\ y.u = x.u /\ y.old = x.old /\ y.ok = x.ok /\ y.silent = x.silent
  BY <1>2 DEF GoesTo
<1>5. /\ UNCHANGED <<uuid, alive, dns, made, lastRow>>
      /\ \A r \in Rows \ {x.row} : slot'[r] = slot[r]
      /\ slot[x.row] = 0 => slot'[x.row] = x.u
  BY <1>1 DEF Launch, None, CfInv, CfTypes
<1>6. CfSoFar(y)'
  <2>1. SUFFICES ASSUME x.alone, x.ok, x.op \in {"create", "restart", "sync", "recreate"} PROVE Started(y)'
    BY <1>3, <1>4 DEF CfSoFar
  <2>2. Started(x)
    BY <1>1, <2>1 DEF CfSoFar
  <2>3. CASE x.op \in {"create", "restart"} /\ m = 1 /\ n = 0
    <3>1. slot[x.row] = 0 /\ x.u = uuid[x.row] /\ uuid[x.row] # 0
      BY <2>2, <2>3 DEF Started, Launching, Redeploys
    <3>2. uuid' = uuid /\ slot'[x.row] = uuid[x.row]
      BY <1>5, <3>1
    <3>. QED  BY <1>1, <1>4, <2>3, <3>1, <3>2 DEF Started, Launching, Redeploys
  <2>4. CASE x.op \in {"sync", "recreate"} /\ m = 3 /\ n = 2
    <3>1. /\ slot[x.row] = 0 /\ x.u = uuid[x.row] /\ uuid[x.row] # 0
          /\ x.op = "recreate" => (x.silent \/ x.old \notin alive) /\ uuid[x.row] \in alive
      BY <2>2, <2>4 DEF Started, Launching, Redeploys
    <3>2. uuid' = uuid /\ slot'[x.row] = uuid[x.row] /\ alive' = alive
      BY <1>5, <3>1
    <3>. QED  BY <1>1, <1>4, <2>4, <3>1, <3>2 DEF Started, Launching, Redeploys
  <2>. QED  BY <1>3, <2>1, <2>3, <2>4
<1>7. ~Minted(y)
  BY <1>3, <1>4, Apart DEF Minted
<1>. QED  BY <1>1, <1>2, <1>5, <1>6, <1>7, StaysAsked

LEMMA TargetAsked == \A c \in Callers : CfInv /\ CfAsked /\ Target(c) => CfAsked'
<1>. SUFFICES ASSUME NEW c \in Callers, CfInv, CfAsked, Target(c) PROVE CfAsked'
  OBVIOUS
<1>. PICK x : x = call[c]
  OBVIOUS
<1>0. At(c, "target") /\ "target" \in CfSteps
  BY DEF Target, CfSteps
<1>1. x \in AnyCall /\ x.todo # <<>> /\ x.todo[1] = "target" /\ OnScript(x) /\ CfSoFar(x) /\ x.row \in Rows /\ GoesTo(x, x)
  BY <1>0, AtStep
<1>. PICK m \in Nat : m = Len(x.todo)
  BY <1>1, WhatIsLeft
<1>2. x.op \in {"sync", "redeploy", "recreate"} /\ m = 2 /\ x # Idle
  BY <1>1, WhatIsLeft, NoCall
<1>3. UNCHANGED <<uuid, alive, slot, dns, made, lastRow>>
  BY DEF Target
<1>4. x.alone /\ x.ok /\ x.op \in {"sync", "recreate"} =>
        /\ uuid[x.row] # 0 /\ (slot[x.row] = uuid[x.row] \/ (x.silent /\ slot[x.row] = 0))
        /\ x.op = "recreate" => (x.silent \/ x.old \notin alive) /\ uuid[x.row] \in alive
  <2>1. SUFFICES ASSUME x.alone, x.ok, x.op \in {"sync", "recreate"}
                 PROVE  /\ uuid[x.row] # 0 /\ (slot[x.row] = uuid[x.row] \/ (x.silent /\ slot[x.row] = 0))
                        /\ x.op = "recreate" => (x.silent \/ x.old \notin alive) /\ uuid[x.row] \in alive
    OBVIOUS
  <2>2. Started(x) /\ m = 2
    BY <1>1, <1>2, <2>1 DEF CfSoFar
  <2>. QED  BY <2>1, <2>2 DEF Started, Launching, Redeploys
<1>5. CASE uuid[x.row] # None /\ Step(c, [x EXCEPT !.u = uuid[x.row]])
  <2>1. PICK z : z = [x EXCEPT !.u = uuid[x.row]]
    OBVIOUS
  <2>2. GoesTo(x, z) /\ z.row = x.row /\ z.u = uuid[x.row] /\ z.ok = x.ok /\ z.silent = x.silent /\ Step(c, z)
    BY <1>1, <1>5, <2>1, CfNumbers DEF AnyCall, GoesTo
  <2>3. PICK y \in AnyCall : /\ call' = [call EXCEPT ![c] = y] /\ GoesTo(x, y) /\ OnScript(y) /\ x # Idle
                             /\ y.row = x.row /\ y.u = uuid[x.row] /\ y.ok = x.ok /\ y.silent = x.silent
                             /\ Len(y.todo) = Len(x.todo) - 1 /\ Len(y.todo) \in Nat
    BY <1>0, <2>2, StepOn
  <2>. PICK n \in Nat : n = Len(y.todo)
    BY <2>3
  <2>4. n = 1
    BY <1>1, <2>3, WhatIsLeft
  <2>5. y.op = x.op /\ y.row = x.row /\ y.alone = x.alone /\ y.u = uuid[x.row] /\ y.old = x.old /\ y.ok = x.ok /\ y.silent = x.silent
    BY <2>3 DEF GoesTo
  <2>6. CfSoFar(y)'
    <3>1. SUFFICES ASSUME x.alone, x.ok, x.op \in {"sync", "recreate"} PROVE Started(y)'
      BY <1>2, <2>5 DEF CfSoFar
    <3>. QED  BY <1>1, <1>3, <1>4, <2>4, <2>5, <3>1 DEF Started, Launching, Redeploys
  <2>7. ~Minted(y)
    BY <1>2, <2>4, <2>5, Apart DEF Minted
  <2>. QED  BY <1>1, <1>3, <2>3, <2>6, <2>7, StaysAsked
<1>6. CASE uuid[x.row] = None /\ call' = [call EXCEPT ![c].todo = <<>>]
  <2>1. PICK y : y = [x EXCEPT !.todo = <<>>]
    OBVIOUS
  <2>2. <<>> \in Seq(CfSteps) /\ Len(<<>>) = 0
    OBVIOUS
  <2>3. /\ y \in AnyCall /\ y.op = x.op /\ y.row = x.row /\ y.alone = x.alone /\ y.u = x.u /\ y.old = x.old /\ y.ok = x.ok /\ y.silent = x.silent
        /\ y.todo = <<>> /\ y.more = x.more
    BY <1>1, <2>1, <2>2 DEF AnyCall
  <2>4. call' = [call EXCEPT ![c] = y]
    BY <1>6, <2>1
  <2>5. OnScript(y)
    <3>1. Script[x.op] \in Seq(CfSteps)
      BY <1>2, Scripts DEF Fresh, Orderly
    <3>2. Follows(<<>>, Script[x.op])
      BY <2>2, <3>1, FollowsOn
    <3>. QED  BY <2>3, <3>2 DEF OnScript
  <2>6. CfSoFar(y)'
    BY <1>2, <1>4, <1>6, <2>3 DEF CfSoFar, None
  <2>7. ~Minted(y)
    <3>1. Len(y.todo) = 0
      BY <2>2, <2>3
    <3>. QED  BY <3>1, Apart DEF Minted
  <2>8. GoesTo(x, y)
    BY <2>3 DEF GoesTo
  <2>. QED  BY <1>2, <1>3, <2>3, <2>4, <2>5, <2>6, <2>7, <2>8, StaysAsked
<1>. QED  BY <1>5, <1>6 DEF Target

LEMMA WriteDnsAsked == \A c \in Callers : CfInv /\ CfAsked /\ WriteDns(c) => CfAsked'
<1>. SUFFICES ASSUME NEW c \in Callers, CfInv, CfAsked, WriteDns(c) PROVE CfAsked'
  OBVIOUS
<1>. PICK x : x = call[c]
  OBVIOUS
<1>0. At(c, "dns") /\ "dns" \in CfSteps
  BY DEF WriteDns, CfSteps
<1>1. x \in AnyCall /\ x.todo # <<>> /\ x.todo[1] = "dns" /\ OnScript(x) /\ CfSoFar(x) /\ x.row \in Rows /\ GoesTo(x, x)
  BY <1>0, AtStep
<1>2. CASE Fail(c) /\ UNCHANGED dns
  <2>1. ~CarriesOn(x, "dns")
    BY <1>1, WhatIsLeft DEF CarriesOn
  <2>. QED  BY <1>0, <1>2, <2>1, FailAsked DEF WriteDns
<1>3. CASE dns' = [dns EXCEPT ![x.row] = x.u] /\ Step(c, x)
  <2>1. PICK y \in AnyCall : /\ call' = [call EXCEPT ![c] = y] /\ GoesTo(x, y) /\ OnScript(y) /\ x # Idle
                             /\ y.row = x.row /\ y.u = x.u /\ y.ok = x.ok /\ y.silent = x.silent
                             /\ Len(y.todo) = Len(x.todo) - 1 /\ Len(y.todo) \in Nat
    BY <1>0, <1>1, <1>3, StepOn
  <2>. PICK m \in Nat, n \in Nat : m = Len(x.todo) /\ n = Len(y.todo)
    BY <1>1, <2>1, WhatIsLeft
  <2>2. x.op \in {"sync", "redeploy", "recreate"} /\ m = 1 /\ n = 0
    BY <1>1, <2>1, WhatIsLeft
  <2>3. y.op = x.op /\ y.row = x.row /\ y.alone = x.alone /\ y.u = x.u /\ y.old = x.old /\ y.ok = x.ok /\ y.silent = x.silent
    BY <2>1 DEF GoesTo
  <2>4. UNCHANGED <<uuid, alive, slot, made, lastRow>>
    BY DEF WriteDns
  <2>5. dns'[x.row] = x.u /\ \A r \in Rows \ {x.row} : dns'[r] = dns[r]
    BY <1>1, <1>3 DEF CfInv, CfTypes
  <2>6. CfSoFar(y)'
    <3>1. SUFFICES ASSUME x.alone, x.ok, x.op \in {"sync", "recreate"} PROVE Started(y)'
      BY <2>2, <2>3 DEF CfSoFar
    <3>2. Started(x) /\ dns'[x.row] = x.u
      BY <1>1, <2>5, <3>1 DEF CfSoFar
    <3>3. /\ uuid[x.row] # 0 /\ (slot[x.row] = uuid[x.row] \/ (x.silent /\ slot[x.row] = 0)) /\ x.u = uuid[x.row]
          /\ x.op = "recreate" => (x.silent \/ x.old \notin alive) /\ uuid[x.row] \in alive
      BY <2>2, <3>1, <3>2 DEF Started, Launching, Redeploys
    <3>. QED  BY <1>1, <2>2, <2>3, <2>4, <3>1, <3>2, <3>3 DEF Started, Launching, Redeploys
  <2>7. ~Minted(y)
    BY <2>2, <2>3, Apart DEF Minted
  <2>. QED  BY <1>1, <2>1, <2>4, <2>5, <2>6, <2>7, StaysAsked
<1>. QED  BY <1>2, <1>3 DEF WriteDns

LEMMA CfCreateAsked == \A c \in Callers : CfInv /\ CfAsked /\ CfCreate(c) => CfAsked'
<1>. SUFFICES ASSUME NEW c \in Callers, CfInv, CfAsked, CfCreate(c) PROVE CfAsked'
  OBVIOUS
<1>. PICK x : x = call[c]
  OBVIOUS
<1>0. At(c, "cfCreate") /\ "cfCreate" \in CfSteps
  BY DEF CfCreate, CfSteps
<1>1. x \in AnyCall /\ x.todo # <<>> /\ x.todo[1] = "cfCreate" /\ OnScript(x) /\ CfSoFar(x) /\ GoesTo(x, x)
  BY <1>0, AtStep
<1>4. ~CarriesOn(x, "cfCreate") /\ x.op \in {"create", "recreate"}
  BY <1>1, WhatIsLeft DEF CarriesOn
<1>2. CASE UNCHANGED <<made, alive>> /\ Fail(c)
  BY <1>0, <1>2, <1>4, FailAsked DEF CfCreate
<1>5. CASE made < MaxUuid /\ made' = made + 1 /\ alive' = alive \cup {made + 1} /\ Fail(c)
  <2>1. PICK y \in AnyCall : /\ call' = [call EXCEPT ![c] = y] /\ GoesTo(x, y) /\ OnScript(y) /\ x # Idle
                             /\ y.row = x.row /\ y.u = x.u /\ ~Minted(y) /\ ~y.ok
    BY <1>0, <1>4, <1>5, FailOn
  <2>2. y.op = x.op /\ y.alone = x.alone /\ y.old = x.old
    BY <2>1 DEF GoesTo
  <2>3. UNCHANGED <<uuid, slot, dns, lastRow>>
    BY DEF CfCreate
  <2>4. CfSoFar(y)'
    BY <2>1 DEF CfSoFar
  <2>5. x.row <= lastRow /\ x.u <= made /\ x.u \in Nat
    BY <1>1, CfNumbers DEF CfAsked, RowsGiven, Owned, CallNumbers, AnyCall
  <2>6. Turns(c, y)
    BY <2>1, <2>3, <2>5, CfNumbers DEF Turns, GoesTo
  <2>7. RowsTurn(c, y)
    BY <2>3 DEF RowsTurn
  <2>8. TunnelsTurn(c, y)
    <3>1. made' = made + 1 /\ alive' = alive \cup {made'} /\ made' # made /\ y.u <= made'
      BY <1>5, <2>1, <2>5, CfNumbers
    <3>. QED  BY <2>1, <2>2, <2>3, <3>1 DEF TunnelsTurn
  <2>. QED  BY <2>1, <2>4, <2>6, <2>7, <2>8, TurnAsked
<1>3. CASE made < MaxUuid /\ made' = made + 1 /\ alive' = alive \cup {made + 1} /\ Step(c, [x EXCEPT !.u = made + 1])
  <2>1. PICK z : z = [x EXCEPT !.u = made + 1]
    OBVIOUS
  <2>2. GoesTo(x, z) /\ z.row = x.row /\ z.u = made + 1 /\ z.ok = x.ok /\ z.silent = x.silent /\ Step(c, z)
    <3>1. made + 1 \in Uuids
      BY <1>3, CfNumbers, CfBounds DEF Uuids
    <3>. QED  BY <1>1, <1>3, <2>1, <3>1 DEF AnyCall, GoesTo
  <2>3. PICK y \in AnyCall : /\ call' = [call EXCEPT ![c] = y] /\ GoesTo(x, y) /\ OnScript(y) /\ x # Idle
                             /\ y.row = x.row /\ y.u = made + 1 /\ y.ok = x.ok /\ y.silent = x.silent
                             /\ Len(y.todo) = Len(x.todo) - 1 /\ Len(y.todo) \in Nat
    BY <1>0, <2>2, StepOn
  <2>. PICK m \in Nat, n \in Nat : m = Len(x.todo) /\ n = Len(y.todo)
    BY <1>1, <2>3, WhatIsLeft
  <2>4. (x.op = "create" /\ m = 5 /\ n = 4) \/ (x.op = "recreate" /\ m = 7 /\ n = 6)
    BY <1>1, <2>3, WhatIsLeft
  <2>5. y.op = x.op /\ y.row = x.row /\ y.alone = x.alone /\ y.u = made + 1 /\ y.old = x.old /\ y.ok = x.ok /\ y.silent = x.silent
    BY <2>3 DEF GoesTo
  <2>6. UNCHANGED <<uuid, slot, dns, lastRow>>
    BY DEF CfCreate
  <2>7. CfSoFar(y)'
    <3>1. SUFFICES ASSUME x.alone, x.ok PROVE Started(y)'
      BY <2>4, <2>5 DEF CfSoFar
    <3>2. Started(x)
      BY <1>1, <2>4, <3>1 DEF CfSoFar
    <3>3. CASE x.op = "create" /\ n = 4
      BY <2>5, <3>3 DEF Started, Launching, Redeploys
    <3>4. CASE x.op = "recreate" /\ m = 7 /\ n = 6
      <4>1. x.row \in Rows /\ uuid[x.row] # 0 /\ slot[x.row] = 0 /\ (x.silent \/ x.old \notin alive)
        BY <3>2, <3>4 DEF Started, Launching, Redeploys
      <4>2. x.silent \/ x.old \notin alive'
        <5>1. x.old <= made /\ x.old \in Nat
          BY <1>1, CfNumbers DEF CfAsked, Owned, CallNumbers, AnyCall
        <5>. QED  BY <1>3, <4>1, <5>1, CfNumbers
      <4>3. y.u \in alive' /\ uuid' = uuid /\ slot' = slot
        BY <1>3, <2>5, <2>6
      <4>. QED  BY <2>5, <3>4, <4>1, <4>2, <4>3 DEF Started, Launching, Redeploys
    <3>. QED  BY <2>4, <3>3, <3>4
  <2>8. Turns(c, y)
    <3>1. x.row <= lastRow
      BY DEF CfAsked, RowsGiven
    <3>. QED  BY <2>3, <2>6, <3>1, CfNumbers DEF Turns, GoesTo
  <2>9. RowsTurn(c, y)
    BY <2>6 DEF RowsTurn
  <2>10. TunnelsTurn(c, y)
    <3>1. made' = made + 1 /\ alive' = alive \cup {made'} /\ made' # made /\ y.u <= made'
      BY <1>3, <2>5, CfNumbers
    <3>. QED  BY <2>5, <2>6, <3>1 DEF TunnelsTurn
  <2>. QED  BY <2>3, <2>7, <2>8, <2>9, <2>10, TurnAsked
<1>. QED  BY <1>2, <1>3, <1>5 DEF CfCreate

LEMMA InsertAsked == \A c \in Callers : CfInv /\ CfAsked /\ Insert(c) => CfAsked'
<1>. SUFFICES ASSUME NEW c \in Callers, CfInv, CfAsked, Insert(c) PROVE CfAsked'
  OBVIOUS
<1>. PICK x : x = call[c]
  OBVIOUS
<1>0. At(c, "insert") /\ "insert" \in CfSteps
  BY DEF Insert, CfSteps
<1>1. x \in AnyCall /\ x.todo # <<>> /\ x.todo[1] = "insert" /\ OnScript(x) /\ CfSoFar(x) /\ GoesTo(x, x)
  BY <1>0, AtStep
<1>2. CASE Fail(c) /\ UNCHANGED <<uuid, lastRow>>
  <2>1. ~CarriesOn(x, "insert")
    BY <1>1, WhatIsLeft DEF CarriesOn
  <2>. QED  BY <1>0, <1>2, <2>1, FailAsked DEF Insert
<1>3. CASE /\ lastRow + 1 \in Rows /\ lastRow' = lastRow + 1 /\ uuid' = [uuid EXCEPT ![lastRow + 1] = x.u]
           /\ Step(c, [x EXCEPT !.row = lastRow + 1])
  <2>1. PICK z : z = [x EXCEPT !.row = lastRow + 1]
    OBVIOUS
  <2>2. GoesTo(x, z) /\ z.row = lastRow + 1 /\ z.u = x.u /\ z.ok = x.ok /\ z.silent = x.silent /\ Step(c, z)
    BY <1>1, <1>3, <2>1 DEF AnyCall, GoesTo
  <2>3. PICK y \in AnyCall : /\ call' = [call EXCEPT ![c] = y] /\ GoesTo(x, y) /\ OnScript(y) /\ x # Idle
                             /\ y.row = lastRow + 1 /\ y.u = x.u /\ y.ok = x.ok /\ y.silent = x.silent
                             /\ Len(y.todo) = Len(x.todo) - 1 /\ Len(y.todo) \in Nat
    BY <1>0, <2>2, StepOn
  <2>. PICK m \in Nat, n \in Nat : m = Len(x.todo) /\ n = Len(y.todo)
    BY <1>1, <2>3, WhatIsLeft
  <2>4. x.op = "create" /\ m = 4 /\ n = 3
    BY <1>1, <2>3, WhatIsLeft
  <2>5. y.op = x.op /\ y.row = lastRow + 1 /\ y.alone = x.alone /\ y.u = x.u /\ y.old = x.old /\ y.ok = x.ok /\ y.silent = x.silent
    BY <2>3 DEF GoesTo
  <2>6. UNCHANGED <<alive, slot, dns, made>>
    BY DEF Insert
  <2>7. Minted(x) /\ ~Minted(y)
    BY <2>4, <2>5, Apart DEF Minted
  <2>8. x.u # 0 /\ x.old = 0 /\ x.u <= made /\ slot[lastRow + 1] = 0
    <3>1. Unseen(x.u) /\ CallNumbers(x) /\ OfRow(x) /\ RowsGiven
      BY <2>7 DEF CfAsked, Owned
    <3>2. lastRow + 1 > lastRow
      BY CfNumbers
    <3>. QED  BY <1>3, <2>4, <3>1, <3>2 DEF Unseen, CallNumbers, OfRow, RowsGiven
  <2>9. uuid'[lastRow + 1] = x.u /\ \A r \in Rows \ {lastRow + 1} : uuid'[r] = uuid[r]
    BY <1>3 DEF CfInv, CfTypes
  <2>10. CfSoFar(y)'
    <3>1. Started(y)'
      <4>1. y.op = "create" /\ n = 3 /\ y.row \in Rows /\ uuid'[y.row] # 0 /\ slot'[y.row] = 0
        BY <1>3, <2>4, <2>5, <2>6, <2>8, <2>9
      <4>. QED  BY <4>1 DEF Started, Launching, Redeploys
    <3>. QED  BY <2>4, <2>5, <3>1 DEF CfSoFar
  <2>11. Turns(c, y)
    BY <1>3, <2>3, CfNumbers DEF Turns, GoesTo
  <2>12. RowsTurn(c, y)
    <3>1. \A r \in Rows : r > lastRow' => r # lastRow + 1
      BY <1>3, CfNumbers
    <3>. QED  BY <2>5, <2>6, <2>9, <3>1 DEF RowsTurn
  <2>13. TunnelsTurn(c, y)
    BY <2>5, <2>6, <2>7, <2>8, <2>9 DEF TunnelsTurn
  <2>. QED  BY <2>3, <2>10, <2>11, <2>12, <2>13, TurnAsked
<1>. QED  BY <1>2, <1>3 DEF Insert

LEMMA SwapAsked == \A c \in Callers : CfInv /\ CfAsked /\ Swap(c) => CfAsked'
<1>. SUFFICES ASSUME NEW c \in Callers, CfInv, CfAsked, Swap(c) PROVE CfAsked'
  OBVIOUS
<1>. PICK x : x = call[c]
  OBVIOUS
<1>0. At(c, "swap") /\ "swap" \in CfSteps /\ Step(c, x)
  BY DEF Swap, CfSteps
<1>1. x \in AnyCall /\ x.todo # <<>> /\ x.todo[1] = "swap" /\ OnScript(x) /\ CfSoFar(x) /\ GoesTo(x, x) /\ x.row \in Rows
  BY <1>0, AtStep
<1>2. PICK y \in AnyCall : /\ call' = [call EXCEPT ![c] = y] /\ GoesTo(x, y) /\ OnScript(y) /\ x # Idle
                           /\ y.row = x.row /\ y.u = x.u /\ y.ok = x.ok /\ y.silent = x.silent
                           /\ Len(y.todo) = Len(x.todo) - 1 /\ Len(y.todo) \in Nat
  BY <1>0, <1>1, StepOn
<1>. PICK m \in Nat, n \in Nat : m = Len(x.todo) /\ n = Len(y.todo)
  BY <1>1, <1>2, WhatIsLeft
<1>3. x.op = "recreate" /\ m = 6 /\ n = 5
  BY <1>1, <1>2, WhatIsLeft
<1>4. y.op = x.op /\ y.row = x.row /\ y.alone = x.alone /\ y.u = x.u /\ y.old = x.old /\ y.ok = x.ok /\ y.silent = x.silent
  BY <1>2 DEF GoesTo
<1>5. UNCHANGED <<alive, slot, dns, made, lastRow>>
  BY DEF Swap
<1>6. Minted(x) /\ ~Minted(y)
  BY <1>3, <1>4, Apart DEF Minted
<1>7. x.u # 0 /\ x.u <= made /\ x.row <= lastRow
  BY <1>6 DEF CfAsked, Owned, Unseen, CallNumbers, RowsGiven
<1>8. /\ uuid'[x.row] \in {0, x.u} /\ (uuid[x.row] # 0 => uuid'[x.row] = x.u)
      /\ \A r \in Rows \ {x.row} : uuid'[r] = uuid[r]
  BY <1>1 DEF Swap, None, CfInv, CfTypes
<1>9. CfSoFar(y)'
  <2>1. SUFFICES ASSUME x.alone, x.ok PROVE Started(y)'
    BY <1>3, <1>4 DEF CfSoFar
  <2>2. Started(x)
    BY <1>1, <1>3, <2>1 DEF CfSoFar
  <2>3. uuid[x.row] # 0 /\ slot[x.row] = 0 /\ (x.silent \/ x.old \notin alive) /\ x.u \in alive
    BY <1>3, <2>2 DEF Started, Launching, Redeploys
  <2>4. /\ uuid'[y.row] # 0 /\ slot'[y.row] = 0 /\ (y.silent \/ y.old \notin alive') /\ uuid'[y.row] \in alive'
        /\ y.row \in Rows /\ y.op = "recreate"
    BY <1>1, <1>3, <1>4, <1>5, <1>7, <1>8, <2>3
  <2>. QED  BY <1>3, <2>4 DEF Started, Launching, Redeploys
<1>10. Turns(c, y)
  BY <1>2, <1>5, <1>7, CfNumbers DEF Turns, GoesTo
<1>11. RowsTurn(c, y)
  <2>1. \A r \in Rows : r > lastRow => r # x.row
    BY <1>1, <1>7, CfNumbers
  <2>. QED  BY <1>4, <1>5, <1>8, <2>1 DEF RowsTurn
<1>12. TunnelsTurn(c, y)
  BY <1>4, <1>5, <1>6, <1>7, <1>8 DEF TunnelsTurn
<1>. QED  BY <1>2, <1>9, <1>10, <1>11, <1>12, TurnAsked

LEMMA DropAsked == \A c \in Callers : CfInv /\ CfAsked /\ Drop(c) => CfAsked'
<1>. SUFFICES ASSUME NEW c \in Callers, CfInv, CfAsked, Drop(c) PROVE CfAsked'
  OBVIOUS
<1>. PICK x : x = call[c]
  OBVIOUS
<1>0. At(c, "drop") /\ "drop" \in CfSteps /\ Step(c, x)
  BY DEF Drop, CfSteps
<1>1. x \in AnyCall /\ x.todo # <<>> /\ x.todo[1] = "drop" /\ OnScript(x) /\ CfSoFar(x) /\ GoesTo(x, x) /\ x.row \in Rows
  BY <1>0, AtStep
<1>2. PICK y \in AnyCall : /\ call' = [call EXCEPT ![c] = y] /\ GoesTo(x, y) /\ OnScript(y) /\ x # Idle
                           /\ y.row = x.row /\ y.u = x.u /\ y.ok = x.ok /\ y.silent = x.silent
                           /\ Len(y.todo) = Len(x.todo) - 1 /\ Len(y.todo) \in Nat
  BY <1>0, <1>1, StepOn
<1>. PICK m \in Nat, n \in Nat : m = Len(x.todo) /\ n = Len(y.todo)
  BY <1>1, <1>2, WhatIsLeft
<1>3. x.op \in {"delete", "account"} /\ m = 1 /\ n = 0
  BY <1>1, <1>2, WhatIsLeft
<1>4. y.op = x.op /\ y.row = x.row /\ y.alone = x.alone /\ y.u = x.u /\ y.old = x.old /\ y.ok = x.ok /\ y.silent = x.silent
  BY <1>2 DEF GoesTo
<1>5. UNCHANGED <<alive, slot, dns, made, lastRow>>
  BY DEF Drop
<1>6. ~Minted(y)
  BY <1>3, <1>4 DEF Minted
<1>7. x.u <= made /\ x.row <= lastRow
  BY DEF CfAsked, Owned, CallNumbers, RowsGiven
<1>8. uuid'[x.row] = 0 /\ \A r \in Rows \ {x.row} : uuid'[r] = uuid[r]
  BY <1>1 DEF Drop, None, CfInv, CfTypes
<1>9. CfSoFar(y)'
  <2>1. SUFFICES ASSUME x.alone, x.ok PROVE CfSoFar(y)'
    BY <1>4 DEF CfSoFar
  <2>2. Ended(x) /\ (x.op = "account" => \A r \in x.more : uuid[r] # 0 /\ r # x.row)
    BY <1>1, <1>3, <2>1, CfNumbers DEF CfSoFar
  <2>3. slot[x.row] = 0 /\ (x.silent \/ x.old \notin alive)
    BY <1>3, <2>2 DEF Ended
  <2>4. slot'[y.row] = 0 /\ (y.silent \/ y.old \notin alive') /\ uuid'[y.row] = 0
    BY <1>4, <1>5, <1>8, <2>3
  <2>5. Ended(y)'
    BY <1>3, <2>4 DEF Ended
  <2>6. x.op = "account" => \A r \in x.more : uuid'[r] # 0 /\ r # x.row
    <3>. SUFFICES ASSUME x.op = "account", NEW r \in x.more PROVE uuid'[r] # 0 /\ r # x.row
      OBVIOUS
    <3>1. r \in Rows /\ uuid[r] # 0 /\ r # x.row
      BY <1>1, <2>2 DEF AnyCall
    <3>2. r \in Rows \ {x.row}
      BY <3>1
    <3>3. uuid'[r] = uuid[r]
      BY <1>8, <3>2
    <3>. QED  BY <3>1, <3>3
  <2>. QED  BY <1>2, <1>3, <1>4, <2>5, <2>6 DEF CfSoFar, GoesTo
<1>10. Turns(c, y)
  BY <1>2, <1>5, <1>7, CfNumbers DEF Turns, GoesTo
<1>11. RowsTurn(c, y)
  <2>1. \A r \in Rows : r > lastRow => r # x.row
    BY <1>1, <1>7, CfNumbers
  <2>. QED  BY <1>4, <1>5, <1>8, <2>1 DEF RowsTurn
<1>12. TunnelsTurn(c, y)
  BY <1>4, <1>5, <1>6, <1>7, <1>8 DEF TunnelsTurn
<1>. QED  BY <1>2, <1>9, <1>10, <1>11, <1>12, TurnAsked

LEMMA NextRowAsked == \A c \in Callers : CfInv /\ CfAsked /\ NextRow(c) => CfAsked'
<1>. SUFFICES ASSUME NEW c \in Callers, CfInv, CfAsked, NextRow(c) PROVE CfAsked'
  OBVIOUS
<1>. PICK x : x = call[c]
  OBVIOUS
<1>1. x \in AnyCall /\ x \in Call
  BY CfNumbers
<1>2. PICK r \in x.more :
        call' = [call EXCEPT ![c] = [x EXCEPT !.row = r, !.more = x.more \ {r}, !.old = uuid[r], !.todo = Script[x.op]]]
  BY DEF NextRow
<1>3. r \in Rows /\ x.op \in OverAll /\ x # Idle /\ uuid[r] \in {0} \cup Uuids
  BY <1>1, <1>2, NoCall, CfNumbers DEF Call, AnyCall
<1>4. Script[x.op] \in Seq(CfSteps) /\ x.op \in Ops
  BY <1>3, Scripts DEF OverAll, Fresh, Orderly
<1>5. PICK y : y = [x EXCEPT !.row = r, !.more = x.more \ {r}, !.old = uuid[r], !.todo = Script[x.op]]
  OBVIOUS
<1>6. /\ y \in AnyCall /\ y.op = x.op /\ y.row = r /\ y.alone = x.alone /\ y.u = x.u /\ y.old = uuid[r] /\ y.ok = x.ok
      /\ y.more = x.more \ {r} /\ y.more \subseteq x.more /\ y.todo = Script[x.op]
  BY <1>1, <1>3, <1>4, <1>5 DEF AnyCall
<1>7. UNCHANGED <<uuid, alive, slot, dns, made, lastRow>>
  BY DEF NextRow
<1>8. OnScript(y)
  <2>1. Follows(Script[x.op], Script[x.op])
    BY <1>4, FollowsOn
  <2>. QED  BY <1>4, <1>6, <2>1 DEF OnScript
<1>9. CfSoFar(y)'
  <2>1. SUFFICES ASSUME x.op = "account", x.alone, x.ok PROVE CfSoFar(y)'
    BY <1>3, <1>6 DEF CfSoFar, OverAll
  <2>. PICK n \in Nat : n = Len(y.todo) /\ n = 3
    BY <1>6, <2>1, ScriptLengths
  <2>2. n = 3
    OBVIOUS
  <2>3. \A s \in x.more : uuid[s] # 0
    BY <2>1 DEF CfAsked, CfSoFar
  <2>4. Ended(y)'
    BY <1>2, <1>6, <1>7, <2>2, <2>3 DEF Ended
  <2>. QED  BY <1>6, <1>7, <2>1, <2>3, <2>4 DEF CfSoFar
<1>10. ~Minted(y)
  BY <1>3, <1>6 DEF Minted, OverAll
<1>11. x.u <= made /\ r <= lastRow
  BY <1>2 DEF CfAsked, Owned, CallNumbers, RowsGiven
<1>12. Turns(c, y)
  BY <1>2, <1>3, <1>5, <1>6, <1>7, <1>11, CfNumbers DEF Turns
<1>13. RowsTurn(c, y)
  BY <1>7 DEF RowsTurn
<1>14. TunnelsTurn(c, y)
  BY <1>3, <1>6, <1>7, <1>10, <1>11 DEF TunnelsTurn
<1>. QED  BY <1>8, <1>9, <1>12, <1>13, <1>14, TurnAsked

LEMMA AnswerAsked == \A c \in Callers : CfInv /\ CfAsked /\ Answer(c) => CfAsked'
<1>. SUFFICES ASSUME NEW c \in Callers, CfInv, CfAsked, Answer(c) PROVE CfAsked'
  OBVIOUS
<1>. PICK x, y : x = call[c] /\ y = Idle
  OBVIOUS
<1>1. x \in AnyCall /\ x # Idle
  BY CfNumbers, NoCall DEF Answer
<1>2. y \in AnyCall /\ y.op = "none" /\ y.row = 0 /\ y.todo = <<>> /\ y.more = {} /\ y.u = 0 /\ y.old = 0
  BY NoCall DEF Call, Idle, None
<1>3. UNCHANGED <<alive, slot, dns, made, lastRow>> /\ call' = [call EXCEPT ![c] = y]
  BY DEF Answer
<1>4. \A r \in Rows : uuid'[r] \in {0, uuid[r]} /\ (x.op \notin OverAll => uuid'[r] = uuid[r])
  BY DEF Answer, None, OverAll
<1>5. OnScript(y) /\ CfSoFar(y)' /\ ~Minted(y)
  <2>1. "none" \notin Ops
    BY Scripts
  <2>. QED  BY <1>2, <2>1 DEF OnScript, CfSoFar, Minted
<1>6. Turns(c, y)
  BY <1>1, <1>2, <1>3, CfNumbers DEF Turns
<1>7. RowsTurn(c, y)
  BY <1>3, <1>4 DEF RowsTurn
<1>8. TunnelsTurn(c, y)
  BY <1>2, <1>3, <1>4, <1>5, CfNumbers DEF TunnelsTurn
<1>. QED  BY <1>5, <1>6, <1>7, <1>8, TurnAsked

LEMMA BeginAsked ==
  ASSUME CfInv, CfAsked, NEW c \in Callers, NEW op \in Ops, NEW r \in {0} \cup Rows, NEW more \in SUBSET Rows,
         Begin(c, op, r, more), r <= lastRow, \A s \in more : s <= lastRow /\ (op = "account" => uuid[s] # 0),
         \/ r = 0 /\ op \in OverAll \cup {"create"}
         \/ r \in Rows /\ op \in {"restart", "sync", "redeploy", "recreate", "delete"} /\ uuid[r] # 0
  PROVE  CfAsked'
<1>. DEFINE meets == {d \in Active : Meet(op, r, d)}
<1>21. PICK script : script = IF op \in OverAll THEN <<>> ELSE Script[op]
  OBVIOUS
<1>22. PICK was : was = IF r = None THEN None ELSE uuid[r]
  OBVIOUS
<1>23. PICK new : new = [Idle EXCEPT !.op = op, !.row = r, !.more = more, !.alone = (meets = {}), !.todo = script, !.old = was]
  OBVIOUS
<1>1. script \in Seq(CfSteps) /\ was \in {0} \cup Uuids
  BY <1>21, <1>22, Scripts, CfNumbers DEF Fresh, Orderly, None
<1>2. /\ new \in AnyCall /\ new.op = op /\ new.row = r /\ new.more = more /\ new.todo = script /\ new.old = was
      /\ new.alone = (meets = {}) /\ new.u = 0
  <2>1. PICK lonely \in BOOLEAN : lonely = (meets = {})
    OBVIOUS
  <2>2. Idle \in AnyCall /\ Idle.u = 0
    BY NoCall DEF Call
  <2>. HIDE DEF meets
  <2>3. new = [Idle EXCEPT !.op = op, !.row = r, !.more = more, !.alone = lonely, !.todo = script, !.old = was]
    BY <1>23, <2>1
  <2>. QED  BY <1>1, <2>1, <2>2, <2>3 DEF AnyCall
<1>20. new.op = op /\ new.row = r /\ new.old = was /\ new.more = more
  BY <1>2
<1>3. /\ call[c] = Idle /\ call'[c] = new
      /\ \A d \in Callers \ {c} : call'[d] = IF d \in meets THEN [call[d] EXCEPT !.alone = FALSE] ELSE call[d]
      /\ UNCHANGED <<uuid, account, alive, files, slot, dns, purge, made, lastRow>>
  BY <1>21, <1>22, <1>23 DEF Begin
<1>4. ASSUME NEW d \in Callers \ {c}
      PROVE  /\ call'[d] \in AnyCall /\ call'[d].op = call[d].op /\ call'[d].row = call[d].row /\ call'[d].todo = call[d].todo
             /\ call'[d].more = call[d].more /\ call'[d].u = call[d].u /\ call'[d].old = call[d].old /\ call'[d].ok = call[d].ok
             /\ call'[d].silent = call[d].silent
             /\ call'[d].alone => call[d].alone /\ d \notin meets
             /\ d \notin meets => call'[d] = call[d]
  <2>. HIDE DEF meets
  <2>1. call[d] \in AnyCall
    BY CfNumbers
  <2>2. PICK y : y = [call[d] EXCEPT !.alone = FALSE]
    OBVIOUS
  <2>3. /\ y \in AnyCall /\ y.op = call[d].op /\ y.row = call[d].row /\ y.todo = call[d].todo /\ y.more = call[d].more
        /\ y.u = call[d].u /\ y.old = call[d].old /\ y.ok = call[d].ok /\ y.silent = call[d].silent /\ ~y.alone
    BY <2>1, <2>2 DEF AnyCall
  <2>. QED  BY <1>3, <2>1, <2>2, <2>3
<1>5. ~Minted(new) /\ OnScript(new) /\ CfSoFar(new)'
  <2>1. CASE op \in OverAll
    <3>1. script = <<>> /\ Len(script) = 0 /\ Script[op] \in Seq(CfSteps)
      BY <1>21, <2>1, Scripts DEF Fresh, Orderly
    <3>2. Follows(<<>>, Script[op])
      BY <3>1, FollowsOn
    <3>3. op \notin {"create", "recreate", "restart", "sync", "delete"} /\ r = 0
      BY <2>1 DEF OverAll
    <3>4. op = "account" => \A s \in more : uuid'[s] # 0 /\ s # r
      BY <1>3, <3>3, CfNumbers
    <3>. QED  BY <1>2, <3>1, <3>2, <3>3, <3>4 DEF Minted, OnScript, CfSoFar
  <2>2. CASE op \notin OverAll
    <3>1. script = Script[op] /\ Script[op] \in Seq(CfSteps)
      BY <1>21, <2>2, Scripts DEF Fresh, Orderly
    <3>2. Follows(Script[op], Script[op])
      BY <3>1, FollowsOn
    <3>. PICK n \in Nat : n = Len(script)
      BY <3>1
    <3>3. /\ op = "create" => n = 5
          /\ op = "restart" => n = 4
          /\ op = "sync" => n = 6
          /\ op = "recreate" => n = 9
          /\ op = "delete" => n = 3
      BY <3>1, ScriptLengths
    <3>4. n = Len(new.todo)
      BY <1>2
    <3>5. ~Minted(new)
      BY <1>2, <3>3, <3>4, Apart DEF Minted
    <3>6. CfSoFar(new)'
      <4>1. CASE op = "create"
        <5>1. n = 5
          BY <3>3, <4>1
        <5>2. Started(new)'
          BY <1>20, <3>4, <4>1, <5>1 DEF Started, Launching, Redeploys
        <5>. QED  BY <1>2, <4>1, <5>2 DEF CfSoFar
      <4>2. CASE op \in {"restart", "sync", "recreate"}
        <5>1. r \in Rows /\ uuid'[r] # 0
          BY <1>3, <4>2 DEF OverAll
        <5>2. Started(new)'
          <6>1. CASE op = "restart" /\ n = 4
            BY <1>20, <3>4, <5>1, <6>1 DEF Started, Launching, Redeploys
          <6>2. CASE op = "sync" /\ n = 6
            BY <1>20, <3>4, <5>1, <6>2 DEF Started, Launching, Redeploys
          <6>3. CASE op = "recreate" /\ n = 9
            BY <1>20, <3>4, <5>1, <6>3 DEF Started, Launching, Redeploys
          <6>. QED  BY <3>3, <4>2, <6>1, <6>2, <6>3
        <5>. QED  BY <1>2, <4>2, <5>2 DEF CfSoFar
      <4>3. CASE op = "delete"
        <5>1. n = 3
          BY <3>3, <4>3
        <5>2. Ended(new)'
          BY <1>3, <1>20, <3>4, <4>3, <5>1 DEF Ended, OverAll
        <5>. QED  BY <1>2, <4>3, <5>2 DEF CfSoFar
      <4>4. CASE op = "redeploy"
        BY <1>2, <4>4 DEF CfSoFar
      <4>. QED  BY <2>2, <4>1, <4>2, <4>3, <4>4
    <3>. QED  BY <1>2, <3>1, <3>2, <3>5, <3>6 DEF OnScript
  <2>. QED  BY <2>1, <2>2
<1>6. \A d \in Callers : (OnScript(call[d]) /\ CfSoFar(call[d]))'
  <2>1. ASSUME NEW d \in Callers \ {c} PROVE (OnScript(call[d]) /\ CfSoFar(call[d]))'
    <3>1. OnScript(call[d]) /\ CfSoFar(call[d])
      BY DEF CfAsked
    <3>. PICK x, y : x = call[d] /\ y = call'[d]
      OBVIOUS
    <3>2. OnScript(y)
      BY <1>4, <3>1 DEF OnScript
    <3>3. CfSoFar(y)'
      BY <1>3, <1>4, <3>1 DEF CfSoFar, Started, Ended, Launching, Redeploys
    <3>. QED  BY <3>2, <3>3 DEF OnScript, CfSoFar, Started, Ended, Launching, Redeploys
  <2>2. (OnScript(call[c]) /\ CfSoFar(call[c]))'
    BY <1>3, <1>5 DEF OnScript, CfSoFar, Started, Ended, Launching, Redeploys
  <2>. QED  BY <2>1, <2>2
<1>7. RowsGiven'
  <2>1. \A d \in Callers \ {c} : call'[d].row <= lastRow /\ \A s \in call'[d].more : s <= lastRow
    BY <1>4 DEF CfAsked, RowsGiven
  <2>2. \A s \in Rows : s > lastRow => uuid[s] = 0 /\ slot[s] = 0
    BY DEF CfAsked, RowsGiven
  <2>. QED  BY <1>2, <1>3, <2>1, <2>2 DEF RowsGiven
<1>8. Owned'
  <2>1. /\ \A s, t \in Rows : uuid[s] = uuid[t] /\ uuid[s] # 0 => s = t
        /\ Numbers
        /\ \A d \in Callers : CallNumbers(call[d]) /\ OfRow(call[d])
        /\ \A d \in Callers : Minted(call[d]) =>
             Unseen(call[d].u) /\ \A e \in Callers \ {d} : Minted(call[e]) => call[e].u # call[d].u
    BY DEF CfAsked, Owned
  <2>2. was = 0 \/ (r \in Rows /\ was = uuid[r])
    BY <1>22 DEF None
  <2>3. (CallNumbers(new) /\ OfRow(new))'
    <3>1. op = "create" => was = 0
      BY <1>22 DEF OverAll, None
    <3>2. was <= made
      BY <2>1, <2>2, CfNumbers DEF Numbers
    <3>3. \A s \in Rows : uuid[s] = was /\ uuid[s] # 0 => s = r
      BY <2>1, <2>2
    <3>. QED  BY <1>2, <1>3, <3>1, <3>2, <3>3, CfNumbers DEF CallNumbers, OfRow
  <2>4. \A d \in Callers : (CallNumbers(call[d]) /\ OfRow(call[d]))'
    <3>1. ASSUME NEW d \in Callers \ {c} PROVE (CallNumbers(call[d]) /\ OfRow(call[d]))'
      BY <1>3, <1>4, <2>1 DEF CallNumbers, OfRow
    <3>2. (CallNumbers(call[c]) /\ OfRow(call[c]))'
      BY <1>3, <2>3 DEF CallNumbers, OfRow
    <3>. QED  BY <3>1, <3>2
  <2>5. ASSUME NEW d \in Callers, Minted(call'[d])
        PROVE  /\ d # c /\ Minted(call[d]) /\ call'[d].u = call[d].u /\ call[d].u # 0
               /\ \A s \in Rows : uuid[s] # call[d].u
               /\ \A e \in Callers : call'[e].old # call[d].u
    <3>1. d # c
      BY <1>3, <1>5, <2>5
    <3>2. Minted(call[d]) /\ call'[d].u = call[d].u
      BY <1>4, <2>5, <3>1 DEF Minted
    <3>3. Unseen(call[d].u)
      BY <2>1, <3>2
    <3>4. call'[c].old # call[d].u
      BY <1>3, <1>20, <2>2, <3>3 DEF Unseen
    <3>5. \A e \in Callers \ {c} : call'[e].old # call[d].u
      BY <1>4, <3>3 DEF Unseen
    <3>. QED  BY <3>1, <3>2, <3>3, <3>4, <3>5 DEF Unseen
  <2>6. ASSUME NEW d \in Callers, NEW e \in Callers \ {d}, Minted(call'[d]), Minted(call'[e]) PROVE call'[e].u # call'[d].u
    BY <2>1, <2>5, <2>6
  <2>7. \A d \in Callers : Minted(call[d])' =>
          Unseen(call[d].u)' /\ \A e \in Callers \ {d} : Minted(call[e])' => (call[e].u # call[d].u)'
    BY <1>3, <2>5, <2>6 DEF Minted, Unseen
  <2>. QED  BY <1>3, <2>1, <2>4, <2>7 DEF Owned, Numbers
<1>9. AloneAtRow'
  <2>1. ASSUME NEW d \in Callers, NEW e \in Callers, call'[d] # Idle, call'[d].alone, e # d, call'[e] # Idle
        PROVE  call'[e].op \notin OverAll /\ call'[d].op \notin OverAll /\ call'[e].row # call'[d].row
    <3>1. CASE d = c
      <4>1. meets = {} /\ e # c
        BY <1>2, <1>3, <2>1, <3>1
      <4>2. call'[e] = call[e]
        BY <1>4, <4>1
      <4>3. e \in Active /\ ~Meet(op, r, e)
        BY <2>1, <4>1, <4>2 DEF Active
      <4>. QED  BY <1>3, <1>20, <3>1, <4>2, <4>3 DEF Meet
    <3>2. CASE d # c /\ e = c
      <4>1. d \notin meets /\ call'[d] = call[d]
        BY <1>4, <2>1, <3>2
      <4>2. d \in Active /\ ~Meet(op, r, d)
        BY <2>1, <4>1 DEF Active
      <4>. QED  BY <1>3, <1>20, <3>2, <4>1, <4>2 DEF Meet
    <3>3. CASE d # c /\ e # c
      <4>1. call'[d] = call[d] /\ call[d].alone
        BY <1>4, <2>1, <3>3
      <4>2. call[e] # Idle
        <5>1. SUFFICES ASSUME call[e] = Idle PROVE FALSE
          OBVIOUS
        <5>2. e \notin meets
          BY <5>1 DEF Active
        <5>. QED  BY <1>4, <2>1, <3>3, <5>1, <5>2
      <4>3. call[e].op \notin OverAll /\ call[d].op \notin OverAll /\ call[e].row # call[d].row
        BY <2>1, <4>1, <4>2 DEF CfAsked, AloneAtRow
      <4>. QED  BY <1>4, <3>3, <4>3
    <3>. QED  BY <3>1, <3>2, <3>3
  <2>. QED  BY <2>1 DEF AloneAtRow, Idle, None
<1>. QED  BY <1>6, <1>7, <1>8, <1>9 DEF CfAsked

LEMMA InitCfAsked == Init => CfAsked
<1>. SUFFICES ASSUME Init PROVE CfAsked
  OBVIOUS
<1>1. \A c \in Callers : call[c] = Idle
  BY DEF Init
<1>2. Idle.op = "none" /\ Idle.row = 0 /\ Idle.todo = <<>> /\ Idle.more = {} /\ Idle.u = 0 /\ Idle.old = 0 /\ "none" \notin Ops
  BY NoCall, Scripts DEF Idle, None
<1>3. made = 1 /\ lastRow = 1 /\ alive = {1} /\ \A r \in Rows : uuid[r] = (IF r = 1 THEN 1 ELSE 0) /\ slot[r] = (IF r = 1 THEN 1 ELSE 0)
  BY DEF Init, None
<1>4. RowsGiven
  BY <1>1, <1>2, <1>3 DEF RowsGiven
<1>5. Owned
  BY <1>1, <1>2, <1>3 DEF Owned, Numbers, CallNumbers, OfRow, Minted
<1>. QED  BY <1>1, <1>2, <1>4, <1>5 DEF CfAsked, OnScript, CfSoFar, AloneAtRow

\* A restart: nothing is under way but the boot.
LEMMA RestartAsked == CfInv /\ CfAsked /\ Restart => CfAsked'
<1>. SUFFICES ASSUME CfInv, CfAsked, Restart PROVE CfAsked'
  OBVIOUS
<1>1. PICK b \in Callers :
        call' = [c \in Callers |-> IF c = b THEN [Idle EXCEPT !.op = "boot", !.more = {r \in Rows : uuid[r] # None}]
                                            ELSE Idle]
  BY DEF Restart
<1>2. PICK new : new = [Idle EXCEPT !.op = "boot", !.more = {r \in Rows : uuid[r] # None}]
  OBVIOUS
<1>3. call'[b] = new /\ \A c \in Callers \ {b} : call'[c] = Idle
  BY <1>1, <1>2
<1>4. Idle.op = "none" /\ Idle.row = 0 /\ Idle.todo = <<>> /\ Idle.more = {} /\ Idle.u = 0 /\ Idle.old = 0 /\ "none" \notin Ops
  BY NoCall, Scripts DEF Idle, None
<1>5. /\ new.op = "boot" /\ new.row = 0 /\ new.todo = <<>> /\ new.u = 0 /\ new.old = 0
      /\ \A r \in new.more : r \in Rows /\ uuid[r] # 0
  BY <1>2 DEF Idle, None
<1>6. UNCHANGED <<uuid, alive, dns, made, lastRow>> /\ \A r \in Rows : slot'[r] = 0
  BY DEF Restart, None
<1>7. OnScript(Idle) /\ OnScript(new)
  <2>1. Follows(<<>>, Script["boot"])
    <3>1. Script["boot"] \in Seq(CfSteps) /\ <<>> \in Seq(CfSteps)
      BY Scripts DEF Fresh, Orderly
    <3>. QED  BY <3>1, FollowsOn
  <2>. QED  BY <1>4, <1>5, <2>1 DEF OnScript
<1>8. ~Minted(Idle) /\ ~Minted(new)
  BY <1>4, <1>5 DEF Minted
<1>9. \A c \in Callers : (OnScript(call[c]) /\ CfSoFar(call[c]) /\ ~Minted(call[c]))'
  <2>1. ASSUME NEW c \in Callers, NEW y, call'[c] = y, y.op \in {"none", "boot"}, OnScript(y), ~Minted(y)
        PROVE  (OnScript(call[c]) /\ CfSoFar(call[c]) /\ ~Minted(call[c]))'
    BY <2>1 DEF OnScript, CfSoFar, Minted
  <2>. QED  BY <1>3, <1>4, <1>5, <1>7, <1>8, <2>1
<1>10. lastRow \in Nat /\ made \in Nat /\ 0 <= lastRow /\ 0 <= made /\ Rows \subseteq Nat
  BY CfNumbers
<1>11. RowsGiven'
  <2>1. \A r \in Rows : uuid[r] # 0 => r <= lastRow
    BY <1>10 DEF CfAsked, RowsGiven
  <2>2. \A r \in Rows : r > lastRow => uuid[r] = 0
    BY DEF CfAsked, RowsGiven
  <2>. QED  BY <1>3, <1>4, <1>5, <1>6, <1>10, <2>1, <2>2 DEF RowsGiven
<1>12. Owned'
  <2>1. (\A r, s \in Rows : uuid[r] = uuid[s] /\ uuid[r] # 0 => r = s) /\ Numbers
    BY DEF CfAsked, Owned
  <2>2. \A c \in Callers : call'[c].u = 0 /\ call'[c].old = 0
    BY <1>3, <1>4, <1>5
  <2>3. \A c \in Callers : (CallNumbers(call[c]) /\ OfRow(call[c]))'
    BY <1>6, <1>10, <2>2 DEF CallNumbers, OfRow
  <2>. QED  BY <1>6, <1>9, <2>1, <2>3 DEF Owned, Numbers
<1>13. AloneAtRow'
  BY <1>3 DEF AloneAtRow, Idle, None
<1>. QED  BY <1>9, <1>11, <1>12, <1>13 DEF CfAsked

LEMMA NextCfAsked == CfInv /\ CfAsked /\ [Next]_vars => CfAsked'
<1>. SUFFICES ASSUME CfInv, CfAsked, [Next]_vars PROVE CfAsked'
  OBVIOUS
<1>0. /\ \A r \in Rows : r \in Nat /\ (uuid[r] # 0 \/ slot[r] # 0 => r <= lastRow)
      /\ 0 <= lastRow /\ \A r \in Rows : r # 0
  BY CfNumbers DEF CfAsked, RowsGiven
<1>1. ASSUME NEW c \in Callers, CreateTunnel(c) PROVE CfAsked'
  <2>1. Begin(c, "create", 0, {}) /\ "create" \in Ops
    BY <1>1, Scripts DEF CreateTunnel, None
  <2>. QED  BY <1>0, <2>1, BeginAsked
<1>2. ASSUME NEW c \in Callers, DeleteAccount(c) PROVE CfAsked'
  <2>1. Begin(c, "account", 0, {r \in Rows : uuid[r] # 0}) /\ "account" \in Ops /\ "account" \in OverAll
    BY <1>2, Scripts DEF DeleteAccount, None, OverAll
  <2>2. \A r \in {s \in Rows : uuid[s] # 0} : r <= lastRow /\ uuid[r] # 0
    BY <1>0
  <2>. QED  BY <1>0, <2>1, <2>2, BeginAsked
<1>3. ASSUME NEW c \in Callers, PutNetwork(c) PROVE CfAsked'
  <2>1. Begin(c, "network", 0, {r \in Rows : slot[r] # 0}) /\ "network" \in Ops /\ "network" \in OverAll
    BY <1>3, Scripts DEF PutNetwork, None, OverAll
  <2>2. \A r \in {r \in Rows : slot[r] # 0} : r <= lastRow
    BY <1>0
  <2>. QED  BY <1>0, <2>1, <2>2, BeginAsked
<1>4. ASSUME NEW c \in Callers, NEW op \in Ops, NEW r \in Rows, OnTunnel(c, op, r) PROVE CfAsked'
  <2>1. Begin(c, op, r, {}) /\ uuid[r] # 0 /\ op \in {"restart", "sync", "redeploy", "recreate", "delete"}
    BY <1>4 DEF OnTunnel, None
  <2>2. r \in {0} \cup Rows /\ {} \in SUBSET Rows /\ r <= lastRow
    BY <1>0, <2>1
  <2>. QED  BY <2>1, <2>2, BeginAsked
<1>5. ASSUME NEW c \in Callers, Handle(c) PROVE CfAsked'
  BY <1>5, StopAsked, CfDeleteAsked, CfCreateAsked, InsertAsked, SwapAsked, ReadAsked, ParkAsked, WriteCredsAsked,
     LaunchAsked, TargetAsked, WriteDnsAsked, DropAsked, NextRowAsked, AnswerAsked DEF Handle
<1>6. ASSUME UNCHANGED <<uuid, alive, slot, dns, call, made, lastRow>> PROVE CfAsked'
  BY <1>6 DEF CfAsked, OnScript, CfSoFar, Started, Ended, Launching, Redeploys, RowsGiven, Owned, Numbers, CallNumbers,
     OfRow, Minted, Unseen, AloneAtRow
<1>7. CASE \E p \in purge : PurgeSelect(p) \/ PurgeDelete(p)
  BY <1>6, <1>7 DEF PurgeSelect, PurgeDelete
<1>8. CASE UNCHANGED vars
  BY <1>6, <1>8 DEF vars
<1>. QED  BY <1>1, <1>2, <1>3, <1>4, <1>5, <1>7, <1>8, RestartAsked DEF Next

\* What the answer of a request that met no other says is so.
CfDone(c) ==
  (Answer(c) \/ Drop(c)) /\ call[c].ok /\ call[c].alone =>
    LET x == call[c]
    IN /\ x.op \in {"create", "restart", "sync", "recreate"} =>
            Runs(x.row) \/ (x.silent /\ uuid[x.row] # None /\ slot[x.row] = None)
       /\ x.op \in {"sync", "recreate"} => dns[x.row] = uuid[x.row]
       /\ x.op = "recreate" => uuid[x.row] \in alive /\ (x.silent \/ x.old \notin alive)
       /\ x.op \in {"delete", "account"} /\ x.row # None =>
            uuid'[x.row] = None /\ slot[x.row] = None /\ (x.silent \/ x.old \notin alive)

LEMMA CfDoneStep == CfInv /\ CfAsked => \A c \in Callers : CfDone(c)
<1>. SUFFICES ASSUME CfInv, CfAsked, NEW c \in Callers, Answer(c) \/ Drop(c), call[c].ok, call[c].alone
              PROVE  CfDone(c)
  BY DEF CfDone
<1>1. PICK x : x = call[c]
  OBVIOUS
<1>2. x \in AnyCall /\ CfSoFar(x) /\ x.ok /\ x.alone
  BY <1>1, CfNumbers DEF CfAsked
<1>3. PICK n \in Nat : n = Len(x.todo)
  BY <1>2 DEF AnyCall
<1>4. CASE Answer(c)
  <2>1. n = 0
    BY <1>1, <1>3, <1>4 DEF Answer
  <2>2. CASE x.op \in {"create", "restart", "sync", "recreate"}
    <3>1. Started(x)
      BY <1>2, <2>2 DEF CfSoFar
    <3>2. uuid[x.row] # 0 /\ (slot[x.row] = uuid[x.row] \/ (x.silent /\ slot[x.row] = 0))
      <4>1. CASE x.op \in {"create", "restart"}
        BY <1>3, <2>1, <3>1, <4>1 DEF Started, Launching, Redeploys
      <4>2. CASE x.op \in {"sync", "recreate"}
        BY <1>3, <2>1, <3>1, <4>2 DEF Started, Launching, Redeploys
      <4>. QED  BY <2>2, <4>1, <4>2
    <3>3. x.op \in {"sync", "recreate"} => dns[x.row] = uuid[x.row]
      BY <1>3, <2>1, <3>1 DEF Started, Redeploys
    <3>4. x.op = "recreate" => uuid[x.row] \in alive /\ (x.silent \/ x.old \notin alive)
      BY <1>3, <2>1, <3>1 DEF Started
    <3>. QED  BY <1>1, <2>2, <3>2, <3>3, <3>4 DEF CfDone, Runs, None
  <2>3. CASE x.op \in {"delete", "account"} /\ x.row # 0
    <3>1. Ended(x)
      BY <1>2, <2>3 DEF CfSoFar
    <3>2. slot[x.row] = 0 /\ (x.silent \/ x.old \notin alive) /\ uuid[x.row] = 0
      BY <1>3, <2>1, <3>1 DEF Ended
    <3>3. uuid'[x.row] = 0
      BY <1>1, <1>2, <1>4, <2>3, <3>2 DEF Answer, AnyCall, None
    <3>. QED  BY <1>1, <2>3, <3>2, <3>3 DEF CfDone, None
  <2>. QED  BY <1>1, <2>2, <2>3 DEF CfDone, None
<1>5. CASE Drop(c)
  <2>1. At(c, "drop") /\ "drop" \in CfSteps
    BY <1>5 DEF Drop, CfSteps
  <2>2. x.todo # <<>> /\ x.todo[1] = "drop" /\ OnScript(x) /\ x.row \in Rows
    BY <1>1, <2>1, AtStep
  <2>3. x.op \in {"delete", "account"} /\ n = 1 /\ x.row # 0
    BY <1>2, <1>3, <2>2, WhatIsLeft, CfNumbers
  <2>4. Ended(x)
    BY <1>2, <2>3 DEF CfSoFar
  <2>5. slot[x.row] = 0 /\ (x.silent \/ x.old \notin alive)
    BY <1>3, <2>3, <2>4 DEF Ended
  <2>6. uuid'[x.row] = 0
    BY <1>1, <1>5, <2>2 DEF Drop, None, CfInv, CfTypes
  <2>. QED  BY <1>1, <2>3, <2>5, <2>6 DEF CfDone, None
<1>. QED  BY <1>4, <1>5

-----------------------------------------------------------------------------
(* The stores together                                                     *)

allVars == <<vars, playitVars, zoneVars, keyVars, dataVars, cloudyVars, scene>>

StoresInv ==
  /\ CfInv /\ CfAsked /\ PlayitInv /\ PlayitAsked
  /\ Keys!TypeOK /\ UseInv /\ PlacesBounded /\ CloudyInv /\ DataInv /\ ZoneInv

LEMMA InitStores == MCInit => StoresInv
BY InitCf, InitCfAsked, InitPlayit, InitAsked, InitKeyTypes, InitUseInv, InitPlaces, InitCloudy, InitData,
   InitZones
DEF MCInit, StoresInv

LEMMA EachSteps ==
  [MCNext]_allVars =>
    /\ [Next]_vars /\ [Playit!Next]_playitVars /\ [CfZones!Next]_zoneVars
    /\ [Keys!Next]_keyVars /\ [Data!Next]_dataVars /\ [Cloudy!Next]_cloudyVars
BY DEF MCNext, allVars

LEMMA NextStores == StoresInv /\ [MCNext]_allVars => StoresInv'
BY EachSteps, NextCf, NextCfAsked, NextPlayit, NextAsked, NextKeyTypes, NextUseInv, NextPlaces, NextCloudy,
   NextData, NextZones
   DEF StoresInv, UseInv

LEMMA StoresAlways == MCSpec => []StoresInv
BY InitStores, NextStores, PTL DEF MCSpec, allVars

\* The limit on a user's keys is exceeded by at most one key less than there are requests
\* at once, and a row that says "never used" says so of the secret it holds, but for notes
\* on their way (api-keys.ts).
THEOREM KeyTableStaysTrue == MCSpec => []KeyTableTrue
<1>1. StoresInv => KeyTableTrue
  <2>1. UseInv /\ PlacesBounded => Keys!KeysBounded
    BY KeysFinite, KeyNumbers, SameCardinality DEF PlacesBounded, Keys!KeysBounded
  <2>. QED  BY <2>1 DEF StoresInv, UseInv, KeyTableTrue, Keys!KeyTableTrue
<1>. QED  BY StoresAlways, <1>1, PTL

\* A proposed write runs once, none runs unasked for a message sent after autonomous mode
\* was ruled out, and the stored key stays with the address it was entered for, however
\* chats, presses and saves interleave (routes/ai.ts: confirmAndExecAction,
\* getLlmSettings, updateLlmSettings).
THEOREM AssistantObeys == MCSpec => []AsAllowed
<1>1. StoresInv => AsAllowed
  BY CloudyObeys DEF StoresInv, AsAllowed
<1>. QED  BY StoresAlways, <1>1, PTL

\* What a boot serves is one state of one database, sealed with the key it has, and after
\* a restore the one that was chosen; no reset separates a database from its key, whatever
\* dies when (restore.ts, bootstrap.ts, recovery-ui/src/index.ts, crypto.ts).
THEOREM DataStaysSound == MCSpec => []DataSound
<1>1. StoresInv => DataSound
  BY DataIsSound DEF StoresInv, DataSound
<1>. QED  BY StoresAlways, <1>1, PTL

\* A sync takes no host away from a zone that the account listed all along, with any
\* number of syncs over each other (cf-account.ts, syncZonesForAccount).
THEOREM LiveZonesAreKept == MCSpec => LiveZoneKept
<1>1. StoresInv /\ [MCNext]_allVars => [KeptZone]_zoneVars
  BY ZoneKeptStep, EachSteps DEF StoresInv
<1>2. MCSpec => [][KeptZone]_zoneVars
  BY StoresAlways, <1>1, PTL DEF MCSpec, allVars
<1>. QED  BY <1>2 DEF LiveZoneKept, CfZones!LiveZoneKept, KeptZone, zoneVars, CfZones!vars

\* Every tunnel at playit is the recorded one of its host, in the hand of a request, or
\* lost in one of the ways the code accepts (playit/provider.ts); and each store's
\* variables keep their types.
THEOREM NoPortIsBurnt == MCSpec => []NoPortBurnt
<1>1. StoresInv => NoPortBurnt
  <2>1. CfInv => TypeOK
    BY CfSuffices
  <2>2. PlayitInv => Playit!TypeOK /\ Playit!NoPortBurnt
    BY PlayitSuffices
  <2>3. CloudyInv => Cloudy!TypeOK
    BY CloudyTypesSuffice DEF CloudyInv
  <2>4. DataInv => Data!TypeOK
    BY DEF DataInv
  <2>5. ZoneInv => CfZones!TypeOK
    BY DEF ZoneInv
  <2>. QED  BY <2>1, <2>2, <2>3, <2>4, <2>5 DEF StoresInv, NoPortBurnt
<1>. QED  BY StoresAlways, <1>1, PTL

\* A request about tunnels that no other met, and that reports no error, has done what it
\* was asked, after any earlier requests, failures and restarts: at Cloudflare the daemon
\* of the row, unless start() has parked it, and the records of its hosts are on the row's
\* tunnel, or row and daemon are gone, and so is the tunnel unless its deletion failed in
\* silence; at playit a host's tunnel forwards to its origin, or is forgotten; and a
\* redeploy takes up the tunnel it has (routes/tunnels.ts, tunnel-manager.ts,
\* tunnel-teardown.ts, playit/provider.ts).
THEOREM TunnelsDoAsAsked == MCSpec => TunnelsAsAsked
<1>1. StoresInv /\ [MCNext]_allVars => [\A c \in Callers : CfDone(c)]_vars
  BY CfDoneStep, EachSteps DEF StoresInv
<1>2. StoresInv /\ [MCNext]_allVars => [\A c \in Callers : PlayitDone(c)]_playitVars
  BY PlayitDoneStep, EachSteps DEF StoresInv
<1>3. StoresInv /\ [MCNext]_allVars => [\A c \in Callers : Reuses(c)]_playitVars
  BY ReuseStep, EachSteps DEF StoresInv
<1>4. MCSpec => /\ [][\A c \in Callers : CfDone(c)]_vars
                /\ [][\A c \in Callers : PlayitDone(c)]_playitVars
                /\ [][\A c \in Callers : Reuses(c)]_playitVars
  BY StoresAlways, <1>1, <1>2, <1>3, PTL DEF MCSpec, allVars
<1>5. [][\A c \in Callers : CfDone(c)]_vars => EndsAsAsked
  BY DEF EndsAsAsked, CfDone
<1>6. [][\A c \in Callers : PlayitDone(c)]_playitVars => Playit!PlayitEndsAsAsked
  BY DEF Playit!PlayitEndsAsAsked, PlayitDone, playitVars, Playit!vars, Playit!None
<1>7. [][\A c \in Callers : Reuses(c)]_playitVars => Playit!ReusesTunnel
  BY DEF Playit!ReusesTunnel, Reuses, playitVars, Playit!vars
<1>. QED  BY <1>4, <1>5, <1>6, <1>7 DEF TunnelsAsAsked

=============================================================================
