----------------------------- MODULE HostsProofs -----------------------------
(***************************************************************************)
(* Proofs about MCHosts: who gets in through the gateway, what nginx       *)
(* serves, what a diagnosis says, how hosts are imported and edited, for   *)
(* any numbers of requests, people, hosts, services, files and tabs.       *)
(***************************************************************************)
EXTENDS MCHosts, Sequences, FiniteSetTheorems, TLAPS
-----------------------------------------------------------------------------
(* The gateway: which credentials a stamp stands for                       *)

\* What a row, a row kept for a rollback, a sign-in and a cookie say of a stamp
Said(x) == [ep |-> x.ep, pw |-> x.pw, totp |-> x.totp]
Nothing == [ep |-> 0, pw |-> 0, totp |-> FALSE]
SaidOf == {Nothing, Said(gRow), Said(cookie)} \cup {Said(change[a].prev) : a \in Admins} \cup {Said(login[v].auth) : v \in Visitors}

\* One stamp, one pair of credentials.
StampsTell == \A x, y \in SaidOf : x.ep = y.ep => x = y

\* The stamp a save has taken is nobody's yet.
Saving == {a \in Admins : change[a].at = "save"}
StampsFresh ==
    /\ \A x \in SaidOf : x.ep <= saves
    /\ \A a \in Saving : change[a].n \in 1 .. saves /\ \A x \in SaidOf : x.ep # change[a].n
    /\ \A a, b \in Saving : change[a].n = change[b].n => a = b

\* A first save carries a password, and who signs in does so against a row.
GatewaySteps ==
    /\ \A a \in Saving : change[a].found \/ change[a].pw
    /\ \A v \in Visitors : login[v].at # "away" => login[v].auth # Gateway!NoRow

\* Whoever has changed the row deploys next.
Deploying(a) == change[a].at \in {"deploy", "undo", "redeploy"}
RoutedSoFar == (\A a \in Admins : ~Deploying(a)) /\ ~adrift => (Gateway!Protected <=> conf = "gateway")

\* A daemon that has dropped no reload serves what config.yml says.
Reached == daemon # "down" /\ ~missed => gEdge = conf

\* The sessions of the row's own stamp: the cookie's, and those about to be issued
Claimed == {v \in Visitors : login[v].at = "issue" /\ login[v].auth.totp /\ login[v].auth.ep = gRow.ep}
CookieIsCurrent == cookie.totp /\ cookie.ep = gRow.ep

\* Each has a TOTP step of its own, and the row remembers the last one.
StepsApart ==
    ~undone =>
        /\ \A v \in Claimed : login[v].step <= gRow.step
        /\ \A v, w \in Claimed : login[v].step = login[w].step => v = w
        /\ CookieIsCurrent => cookie.step <= gRow.step /\ \A v \in Claimed : login[v].step # cookie.step

GatewayInv == Gateway!TypeOK /\ StampsTell /\ StampsFresh /\ GatewaySteps /\ RoutedSoFar /\ Reached /\ StepsApart

LEMMA GatewayNumbers == MaxSaves \in Nat /\ MaxStep \in Nat /\ 1 \in 1 .. MaxStep
BY HostsAssumption

LEMMA GatewayEmpty ==
    /\ Gateway!NoRow \in Gateway!Row /\ Gateway!Idle \in Gateway!Change /\ Gateway!Away \in Gateway!Sign
    /\ Gateway!NoRow.ep = 0 /\ Gateway!NoRow.id = 0 /\ Said(Gateway!NoRow) = Nothing
    /\ Gateway!Idle.prev = Gateway!NoRow /\ Gateway!Idle.at = "idle"
    /\ Gateway!Away.auth = Gateway!NoRow /\ Gateway!Away.at = "away"
    /\ Said(Gateway!NoCookie) = Nothing /\ ~Gateway!NoCookie.totp
BY DEF Gateway!Row, Gateway!NoRow, Gateway!Change, Gateway!Idle, Gateway!Sign, Gateway!Away,
       Gateway!NoCookie, Said, Nothing

LEMMA GatewayInit == Gateway!Init => GatewayInv
<1>. SUFFICES ASSUME Gateway!Init PROVE GatewayInv
  OBVIOUS
<1>1. /\ gRow = Gateway!NoRow /\ conf = "origin" /\ daemon = "down" /\ gEdge = "origin" /\ missed = FALSE /\ adrift = FALSE /\ saves = 0 /\ now = 1
      /\ change = [a \in Admins |-> Gateway!Idle] /\ login = [v \in Visitors |-> Gateway!Away]
      /\ cookie = Gateway!NoCookie /\ undone = FALSE
  BY DEF Gateway!Init
<1>2. Gateway!TypeOK
  <2>1. saves \in 0 .. MaxSaves /\ now \in Gateway!Steps
    BY <1>1, GatewayNumbers DEF Gateway!Steps
  <2>. QED  BY <1>1, <2>1, GatewayEmpty DEF Gateway!TypeOK
<1>3. \A x \in SaidOf : x = Nothing
  BY <1>1, GatewayEmpty DEF SaidOf
<1>4. StampsTell
  BY <1>3 DEF StampsTell
<1>5. Saving = {} /\ \A a \in Admins : ~Deploying(a) /\ change[a].at = "idle"
  BY <1>1, GatewayEmpty DEF Saving, Deploying
<1>6. StampsFresh
  <2>1. \A x \in SaidOf : x.ep = 0
    BY <1>3 DEF Nothing
  <2>. QED  BY <1>1, <1>5, <2>1 DEF StampsFresh
<1>7. \A v \in Visitors : login[v].at = "away"
  BY <1>1, GatewayEmpty
<1>8. GatewaySteps /\ RoutedSoFar /\ Reached
  BY <1>1, <1>5, <1>7 DEF GatewaySteps, RoutedSoFar, Reached, Gateway!Protected
<1>9. StepsApart
  BY <1>1, <1>7, GatewayEmpty DEF StepsApart, Claimed, CookieIsCurrent
<1>. QED  BY <1>2, <1>4, <1>6, <1>8, <1>9 DEF GatewayInv

\* What a row of host_auth holds
LEMMA GatewayRows ==
  ASSUME NEW x \in Gateway!Row
  PROVE  /\ x.ep \in 0 .. MaxSaves /\ x.pw \in 0 .. MaxSaves /\ x.totp \in BOOLEAN /\ x.step \in 0 .. MaxStep
         /\ x.id \in 0 .. MaxSaves /\ (x # Gateway!NoRow <=> x.ep # 0) /\ (x # Gateway!NoRow <=> x.id # 0)
         /\ Said(x) = Nothing <=> x = Gateway!NoRow
<1>1. CASE x = Gateway!NoRow
  <2>1. /\ x.ep = 0 /\ x.pw = 0 /\ x.totp = FALSE /\ x.step = 0 /\ x.id = 0
    BY <1>1 DEF Gateway!NoRow
  <2>2. 0 \in 0 .. MaxSaves /\ 0 \in 0 .. MaxStep
    BY GatewayNumbers
  <2>. QED  BY <1>1, <2>1, <2>2, GatewayEmpty
<1>2. CASE x \in [id : 1 .. MaxSaves, pw : 1 .. MaxSaves, totp : BOOLEAN, step : 0 .. MaxStep, ep : 1 .. MaxSaves]
  <2>1. /\ x.ep \in 1 .. MaxSaves /\ x.pw \in 1 .. MaxSaves /\ x.totp \in BOOLEAN /\ x.step \in 0 .. MaxStep
        /\ x.id \in 1 .. MaxSaves
    BY <1>2
  <2>2. x.ep # 0 /\ x.id # 0
    BY <2>1, GatewayNumbers
  <2>3. x # Gateway!NoRow
    BY <2>2 DEF Gateway!NoRow
  <2>4. Said(x).ep # Nothing.ep
    BY <2>2 DEF Said, Nothing
  <2>. QED  BY <2>1, <2>2, <2>3, <2>4, GatewayNumbers
<1>. QED  BY <1>1, <1>2 DEF Gateway!Row, Gateway!Stamps

\* Who is neither idle nor away has a request, with these fields.
LEMMA GatewayShapes ==
  ASSUME Gateway!TypeOK
  PROVE  /\ \A a \in Admins : /\ change[a] \in Gateway!Change /\ change[a].prev \in Gateway!Row
                              /\ change[a].pw \in BOOLEAN /\ change[a].n \in 0 .. MaxSaves /\ change[a].found \in BOOLEAN
         /\ \A v \in Visitors : login[v] \in Gateway!Sign /\ login[v].auth \in Gateway!Row /\ login[v].step \in 0 .. MaxStep
         /\ cookie.ep \in 0 .. MaxSaves /\ cookie.step \in 0 .. MaxStep /\ cookie.totp \in BOOLEAN
<1>1. ASSUME NEW a \in Admins
      PROVE  /\ change[a] \in Gateway!Change /\ change[a].prev \in Gateway!Row
             /\ change[a].pw \in BOOLEAN /\ change[a].n \in 0 .. MaxSaves /\ change[a].found \in BOOLEAN
  <2>1. change[a] \in Gateway!Change
    BY DEF Gateway!TypeOK
  <2>2. CASE change[a] = Gateway!Idle
    BY <2>1, <2>2, GatewayNumbers, GatewayEmpty DEF Gateway!Idle
  <2>3. CASE change[a] # Gateway!Idle
    BY <2>1, <2>3 DEF Gateway!Change
  <2>. QED  BY <2>2, <2>3
<1>2. ASSUME NEW v \in Visitors
      PROVE  login[v] \in Gateway!Sign /\ login[v].auth \in Gateway!Row /\ login[v].step \in 0 .. MaxStep
  <2>1. login[v] \in Gateway!Sign
    BY DEF Gateway!TypeOK
  <2>2. CASE login[v] = Gateway!Away
    BY <2>1, <2>2, GatewayNumbers, GatewayEmpty DEF Gateway!Away
  <2>3. CASE login[v] # Gateway!Away
    BY <2>1, <2>3 DEF Gateway!Sign
  <2>. QED  BY <2>2, <2>3
<1>3. cookie.ep \in 0 .. MaxSaves /\ cookie.step \in 0 .. MaxStep /\ cookie.totp \in BOOLEAN
  <2>1. CASE cookie = Gateway!NoCookie
    BY <2>1, GatewayNumbers DEF Gateway!NoCookie
  <2>2. CASE cookie # Gateway!NoCookie
    <3>1. cookie \in [ep : 1 .. MaxSaves, pw : 1 .. MaxSaves, totp : BOOLEAN, step : 0 .. MaxStep]
      BY <2>2 DEF Gateway!TypeOK, Gateway!Stamps
    <3>2. cookie.ep \in 1 .. MaxSaves /\ cookie.step \in 0 .. MaxStep /\ cookie.totp \in BOOLEAN
      BY <3>1
    <3>. QED  BY <3>2, GatewayNumbers
  <2>. QED  BY <2>1, <2>2
<1>. QED  BY <1>1, <1>2, <1>3

-----------------------------------------------------------------------------
(* The gateway: a step of the owner's                                      *)

\* What is said stays said of old stamps, of the stamp of the save that writes, or of none.
LEMMA SaidKept ==
  ASSUME StampsTell, StampsFresh, saves \in Nat, SaidOf' \subseteq SaidOf, saves' = saves,
         Saving' \subseteq Saving, \A a \in Saving' : change'[a].n = change[a].n
  PROVE  StampsTell' /\ StampsFresh'
BY DEF StampsTell, StampsFresh

LEMMA SaidWritten ==
  ASSUME StampsTell, StampsFresh, saves \in Nat, NEW a \in Saving, NEW s, s.ep = change[a].n,
         SaidOf' \subseteq SaidOf \cup {s}, saves' = saves,
         Saving' \subseteq Saving \ {a}, \A b \in Saving' : change'[b].n = change[b].n
  PROVE  StampsTell' /\ StampsFresh'
<1>1. \A x \in SaidOf' : x \in SaidOf \/ x = s
  OBVIOUS
<1>2. StampsTell'
  BY <1>1 DEF StampsTell, StampsFresh
<1>3. \A x \in SaidOf' : x.ep <= saves'
  BY <1>1 DEF StampsFresh
<1>4. ASSUME NEW b \in Saving' PROVE change'[b].n \in 1 .. saves' /\ \A x \in SaidOf' : x.ep # change'[b].n
  <2>1. b \in Saving /\ b # a /\ change'[b].n = change[b].n
    OBVIOUS
  <2>2. change[b].n # change[a].n
    BY <2>1 DEF StampsFresh
  <2>. QED  BY <1>1, <2>1, <2>2 DEF StampsFresh
<1>5. StampsFresh'
  BY <1>3, <1>4 DEF StampsFresh
<1>. QED  BY <1>2, <1>5

LEMMA OwnerStep ==
  ASSUME GatewayInv, NEW a \in Admins, NEW c \in Gateway!Change, change' = [change EXCEPT ![a] = c],
         UNCHANGED <<now, login, cookie, daemon>>, gRow' \in Gateway!Row, conf' \in {"origin", "gateway"},
         gEdge' \in {"origin", "gateway"}, missed' \in BOOLEAN, Reached', adrift' \in BOOLEAN, undone' \in BOOLEAN, undone => undone',
         Said(c.prev) \in SaidOf,
         Said(gRow') \in SaidOf \/ (a \in Saving /\ gRow'.ep = change[a].n),
         IF c.at = "save" THEN saves < MaxSaves /\ saves' = saves + 1 /\ c.n = saves' /\ (c.found \/ c.pw) /\ gRow' = gRow
         ELSE saves' = saves,
         gRow' = gRow \/ undone' \/ gRow' = Gateway!NoRow \/ (a \in Saving /\ gRow'.ep = change[a].n),
         \/ c.at \in {"deploy", "undo", "redeploy"} \/ adrift'
         \/ conf' = IF gRow' # Gateway!NoRow THEN "gateway" ELSE "origin"
         \/ UNCHANGED <<gRow, conf, adrift>> /\ ~Deploying(a)
  PROVE  GatewayInv'
<1>1. /\ Gateway!TypeOK /\ StampsTell /\ StampsFresh /\ GatewaySteps /\ RoutedSoFar /\ StepsApart
      /\ saves \in Nat /\ saves <= MaxSaves /\ MaxSaves \in Nat
  BY GatewayNumbers DEF GatewayInv, Gateway!TypeOK
<1>2. change'[a] = c /\ \A b \in Admins \ {a} : change'[b] = change[b]
  BY <1>1 DEF Gateway!TypeOK
<1>3. Gateway!TypeOK'
  <2>1. saves' \in 0 .. MaxSaves
    BY <1>1
  <2>2. change' \in [Admins -> Gateway!Change]
    BY <1>1 DEF Gateway!TypeOK
  <2>. QED  BY <1>1, <2>1, <2>2 DEF Gateway!TypeOK
<1>4. ASSUME NEW x \in SaidOf' PROVE x \in SaidOf \/ (a \in Saving /\ x = Said(gRow') /\ x.ep = change[a].n)
  <2>1. CASE x = Said(gRow')
    BY <2>1 DEF Said
  <2>2. CASE x = Said(cookie')
    BY <2>2 DEF SaidOf
  <2>3. ASSUME NEW b \in Admins, x = Said(change'[b].prev) PROVE x \in SaidOf
    BY <1>2, <2>3 DEF SaidOf
  <2>4. ASSUME NEW v \in Visitors, x = Said(login'[v].auth) PROVE x \in SaidOf
    BY <2>4 DEF SaidOf
  <2>. QED  BY <2>1, <2>2, <2>3, <2>4 DEF SaidOf
<1>5. StampsTell' /\ StampsFresh'
  <2>1. CASE c.at # "save"
    <3>1. Saving' = Saving \ {a} /\ saves' = saves /\ \A b \in Saving' : change'[b].n = change[b].n
      BY <1>2, <2>1 DEF Saving
    <3>2. CASE Said(gRow') \in SaidOf
      <4>1. SaidOf' \subseteq SaidOf
        BY <1>4, <3>2
      <4>. QED  BY <1>1, <3>1, <4>1, SaidKept
    <3>3. CASE a \in Saving /\ gRow'.ep = change[a].n
      <4>1. SaidOf' \subseteq SaidOf \cup {Said(gRow')} /\ Said(gRow').ep = change[a].n
        BY <1>4, <3>3 DEF Said
      <4>. QED  BY <1>1, <3>1, <3>3, <4>1, SaidWritten
    <3>. QED  BY <3>2, <3>3
  <2>2. CASE c.at = "save"
    <3>1. /\ Saving' = Saving \cup {a} /\ saves' = saves + 1 /\ change'[a].n = saves + 1
          /\ \A b \in Saving \ {a} : change'[b].n = change[b].n
      BY <1>2, <2>2 DEF Saving
    <3>2. SaidOf' \subseteq SaidOf
      <4>1. Said(gRow') \in SaidOf
        BY <2>2 DEF SaidOf
      <4>. QED  BY <1>4, <4>1
    <3>3. StampsTell'
      BY <1>1, <3>2 DEF StampsTell
    <3>4. \A x \in SaidOf : x.ep <= saves
      BY <1>1 DEF StampsFresh
    <3>5. \A x \in SaidOf' : x.ep \in Nat
      <4>1. \A x \in SaidOf : x.ep \in Nat
        <5>1. Nothing.ep \in Nat /\ Said(gRow).ep \in Nat /\ Said(cookie).ep \in Nat
          <6>1. Nothing.ep \in Nat
            BY DEF Nothing
          <6>2. gRow.ep \in Nat /\ cookie.ep \in Nat
            BY <1>1, GatewayShapes, GatewayRows DEF Gateway!TypeOK
          <6>. QED  BY <6>1, <6>2 DEF Said
        <5>2. \A b \in Admins : Said(change[b].prev).ep \in Nat
          BY <1>1, GatewayShapes, GatewayRows DEF Said
        <5>3. \A v \in Visitors : Said(login[v].auth).ep \in Nat
          BY <1>1, GatewayShapes, GatewayRows DEF Said
        <5>. QED  BY <5>1, <5>2, <5>3 DEF SaidOf
      <4>. QED  BY <3>2, <4>1
    <3>6. StampsFresh'
      <4>1. \A x \in SaidOf' : x.ep <= saves' /\ x.ep # saves + 1
        BY <1>1, <3>1, <3>2, <3>4, <3>5
      <4>2. ASSUME NEW b \in Saving' PROVE change'[b].n \in 1 .. saves' /\ \A x \in SaidOf' : x.ep # change'[b].n
        <5>1. CASE b = a
          BY <1>1, <3>1, <4>1, <5>1
        <5>2. CASE b # a
          <6>1. b \in Saving /\ change'[b].n = change[b].n
            BY <3>1, <5>2
          <6>2. change[b].n \in 1 .. saves /\ \A x \in SaidOf : x.ep # change[b].n
            BY <1>1, <6>1 DEF StampsFresh
          <6>. QED  BY <1>1, <3>1, <3>2, <6>1, <6>2
        <5>. QED  BY <5>1, <5>2
      <4>3. ASSUME NEW b \in Saving', NEW d \in Saving', change'[b].n = change'[d].n PROVE b = d
        <5>1. \A e \in Saving : change[e].n \in 1 .. saves
          BY <1>1 DEF StampsFresh
        <5>2. \A e \in Saving \ {a} : change'[e].n # saves + 1
          BY <1>1, <3>1, <5>1
        <5>. QED  BY <1>1, <3>1, <4>3, <5>2 DEF StampsFresh
      <4>. QED  BY <4>1, <4>2, <4>3 DEF StampsFresh
    <3>. QED  BY <3>3, <3>6
  <2>. QED  BY <2>1, <2>2
<1>6. GatewaySteps'
  BY <1>1, <1>2 DEF GatewaySteps, Saving
<1>7. RoutedSoFar'
  <2>1. SUFFICES ASSUME \A b \in Admins : ~Deploying(b)', ~adrift'
                 PROVE  gRow' # Gateway!NoRow <=> conf' = "gateway"
    BY DEF RoutedSoFar, Gateway!Protected
  <2>2. c.at \notin {"deploy", "undo", "redeploy"}
    BY <1>2, <2>1 DEF Deploying
  <2>3. CASE UNCHANGED <<gRow, conf, adrift>> /\ ~Deploying(a)
    <3>1. \A b \in Admins : ~Deploying(b)
      BY <1>2, <2>1, <2>3 DEF Deploying
    <3>. QED  BY <1>1, <2>1, <2>3, <3>1 DEF RoutedSoFar, Gateway!Protected
  <2>4. CASE conf' = IF gRow' # Gateway!NoRow THEN "gateway" ELSE "origin"
    BY <2>4
  <2>. QED  BY <2>1, <2>2, <2>3, <2>4
<1>8. StepsApart'
  <2>1. SUFFICES ASSUME ~undone', ~undone PROVE StepsApart'
    BY DEF StepsApart
  <2>2. CASE gRow' = gRow
    BY <1>1, <2>1, <2>2 DEF StepsApart, Claimed, CookieIsCurrent
  <2>3. CASE gRow' = Gateway!NoRow
    <3>1. Claimed' = {}
      BY <1>1, <2>3, GatewayShapes, GatewayRows, GatewayEmpty DEF Claimed, GatewaySteps
    <3>2. ~CookieIsCurrent'
      <4>1. CASE cookie = Gateway!NoCookie
        BY <4>1, GatewayEmpty DEF CookieIsCurrent
      <4>2. CASE cookie # Gateway!NoCookie
        <5>1. cookie.ep \in 1 .. MaxSaves
          BY <1>1, <4>2 DEF Gateway!TypeOK, Gateway!Stamps
        <5>. QED  BY <1>1, <2>3, <5>1, GatewayEmpty DEF CookieIsCurrent
      <4>. QED  BY <4>1, <4>2
    <3>. QED  BY <3>1, <3>2 DEF StepsApart
  <2>4. CASE a \in Saving /\ gRow'.ep = change[a].n
    <3>1. \A v \in Visitors : login[v].auth.ep # change[a].n
      <4>1. \A x \in SaidOf : x.ep # change[a].n
        BY <1>1, <2>4 DEF StampsFresh
      <4>2. \A v \in Visitors : Said(login[v].auth) \in SaidOf /\ Said(login[v].auth).ep = login[v].auth.ep
        BY DEF SaidOf, Said
      <4>. QED  BY <4>1, <4>2
    <3>2. cookie.ep # change[a].n
      BY <1>1, <2>4 DEF StampsFresh, SaidOf, Said
    <3>. QED  BY <2>4, <3>1, <3>2 DEF StepsApart, Claimed, CookieIsCurrent
  <2>. QED  BY <2>1, <2>2, <2>3, <2>4
<1>. QED  BY <1>3, <1>5, <1>6, <1>7, <1>8 DEF GatewayInv

\* A request of the owner's, or none
AnyChange == [at : {"idle", "load", "save", "write", "deploy", "undo", "redeploy"}, prev : Gateway!Row, found : BOOLEAN,
              pw : BOOLEAN, totp : {"keep", "off", "on"}, n : 0 .. MaxSaves]

LEMMA ChangeMade ==
  /\ Gateway!Change \subseteq AnyChange /\ Gateway!Idle \in AnyChange
  /\ \A c \in AnyChange : c.at # "idle" => c \in Gateway!Change
<1>1. Gateway!Idle \in AnyChange
  BY GatewayNumbers, GatewayEmpty DEF Gateway!Idle, AnyChange
<1>. QED  BY <1>1 DEF Gateway!Change, AnyChange

LEMMA StillReached ==
  ASSUME GatewayInv, UNCHANGED <<conf, daemon, gEdge, missed>>
  PROVE  Reached' /\ conf' \in {"origin", "gateway"} /\ gEdge' \in {"origin", "gateway"} /\ missed' \in BOOLEAN
BY DEF GatewayInv, Reached, Gateway!TypeOK

LEMMA PutKeeps ==
  ASSUME GatewayInv, NEW a \in Admins, NEW pw \in BOOLEAN, NEW totp \in {"keep", "off", "on"}, Gateway!Put(a, pw, totp)
  PROVE  GatewayInv'
<1>1. gRow \in Gateway!Row /\ Gateway!TypeOK
  BY DEF GatewayInv, Gateway!TypeOK
<1>. DEFINE c == [Gateway!Idle EXCEPT !.at = "load", !.prev = gRow, !.pw = pw, !.totp = totp]
<1>5. change' = [change EXCEPT ![a] = c]
  BY DEF Gateway!Put
<1>6. c \in AnyChange /\ c.at = "load" /\ c.prev = gRow
  <2>. HIDE DEF Gateway!Idle
  <2>. QED  BY <1>1, ChangeMade DEF AnyChange
<1>. HIDE DEF c
<1>2. c \in Gateway!Change /\ c.at = "load" /\ c.prev = gRow /\ change' = [change EXCEPT ![a] = c]
  BY <1>5, <1>6, ChangeMade
<1>3. Said(gRow) \in SaidOf
  BY DEF SaidOf
<1>4. UNCHANGED <<gRow, conf, daemon, gEdge, missed, adrift, saves, undone, now, login, cookie>> /\ ~Deploying(a)
  BY GatewayEmpty DEF Gateway!Put, Gateway!gatewayVars, Gateway!routing, Deploying
<1>. QED  BY <1>1, <1>2, <1>3, <1>4, OwnerStep, StillReached DEF Gateway!TypeOK

LEMMA DeleteKeeps == ASSUME GatewayInv, NEW a \in Admins, Gateway!Delete(a) PROVE GatewayInv'
<1>1. gRow \in Gateway!Row /\ Gateway!TypeOK
  BY DEF GatewayInv, Gateway!TypeOK
<1>. DEFINE c == [Gateway!Idle EXCEPT !.at = "write", !.prev = gRow]
<1>5. change' = [change EXCEPT ![a] = c]
  BY DEF Gateway!Delete
<1>6. c \in AnyChange /\ c.at = "write" /\ c.prev = gRow
  <2>. HIDE DEF Gateway!Idle
  <2>. QED  BY <1>1, ChangeMade DEF AnyChange
<1>. HIDE DEF c
<1>2. c \in Gateway!Change /\ c.at = "write" /\ c.prev = gRow /\ change' = [change EXCEPT ![a] = c]
  BY <1>5, <1>6, ChangeMade
<1>3. Said(gRow) \in SaidOf
  BY DEF SaidOf
<1>4. UNCHANGED <<gRow, conf, daemon, gEdge, missed, adrift, saves, undone, now, login, cookie>> /\ ~Deploying(a)
  BY GatewayEmpty DEF Gateway!Delete, Gateway!gatewayVars, Gateway!routing, Deploying
<1>. QED  BY <1>1, <1>2, <1>3, <1>4, OwnerStep, StillReached DEF Gateway!TypeOK

\* What GoDeploy and Answer leave of a request
LEMMA GoesOnOrAnswers ==
  ASSUME GatewayInv, NEW a \in Admins
  PROVE  /\ Gateway!TypeOK /\ StampsFresh /\ GatewaySteps /\ gRow \in Gateway!Row /\ change[a] \in Gateway!Change
         /\ Said(gRow) \in SaidOf /\ Said(change[a].prev) \in SaidOf /\ change[a].prev \in Gateway!Row
         /\ Gateway!GoDeploy(a) => \E c \in Gateway!Change : c.at = "deploy" /\ c.prev = change[a].prev /\ change' = [change EXCEPT ![a] = c]
         /\ Gateway!Answer(a) => \E c \in Gateway!Change : c.at = "idle" /\ Said(c.prev) \in SaidOf /\ change' = [change EXCEPT ![a] = c]
         /\ \A at \in {"load", "save", "write", "deploy", "undo", "redeploy"} : change[a].at # "idle" /\ Gateway!Goto(a, at) =>
              \E c \in Gateway!Change : c.at = at /\ c.prev = change[a].prev /\ change' = [change EXCEPT ![a] = c]
<1>1. Gateway!TypeOK /\ StampsFresh /\ GatewaySteps /\ gRow \in Gateway!Row
  BY DEF GatewayInv, Gateway!TypeOK
<1>2. change[a] \in Gateway!Change /\ change[a].prev \in Gateway!Row
  BY <1>1, GatewayShapes
<1>3. Said(gRow) \in SaidOf /\ Said(change[a].prev) \in SaidOf
  BY DEF SaidOf
<1>4. ASSUME Gateway!GoDeploy(a)
      PROVE  \E c \in Gateway!Change : c.at = "deploy" /\ c.prev = change[a].prev /\ change' = [change EXCEPT ![a] = c]
  <2>. DEFINE c == [Gateway!Idle EXCEPT !.at = "deploy", !.prev = change[a].prev]
  <2>1. change' = [change EXCEPT ![a] = c]
    BY <1>4 DEF Gateway!GoDeploy
  <2>2. c \in AnyChange /\ c.at = "deploy" /\ c.prev = change[a].prev
    <3>. HIDE DEF Gateway!Idle
    <3>. QED  BY <1>2, ChangeMade DEF AnyChange
  <2>. HIDE DEF c
  <2>. QED  BY <2>1, <2>2, ChangeMade
<1>5. ASSUME Gateway!Answer(a)
      PROVE  \E c \in Gateway!Change : c.at = "idle" /\ Said(c.prev) \in SaidOf /\ change' = [change EXCEPT ![a] = c]
  <2>1. Said(Gateway!NoRow) \in SaidOf
    BY GatewayEmpty DEF SaidOf
  <2>. QED  BY <1>5, <2>1, GatewayEmpty DEF Gateway!Answer
<1>6. ASSUME NEW at \in {"load", "save", "write", "deploy", "undo", "redeploy"}, change[a].at # "idle", Gateway!Goto(a, at)
      PROVE  \E c \in Gateway!Change : c.at = at /\ c.prev = change[a].prev /\ change' = [change EXCEPT ![a] = c]
  <2>1. PICK c : c = [change[a] EXCEPT !.at = at]
    OBVIOUS
  <2>2. change[a] # Gateway!Idle
    BY <1>6, GatewayEmpty
  <2>3. c \in Gateway!Change /\ c.at = at /\ c.prev = change[a].prev
    BY <1>2, <2>1, <2>2 DEF Gateway!Change
  <2>4. change' = [change EXCEPT ![a] = c]
    BY <1>6, <2>1 DEF Gateway!Goto
  <2>. QED  BY <2>3, <2>4
<1>. QED  BY <1>1, <1>2, <1>3, <1>4, <1>5, <1>6

\* What a save writes over a row, or over none
LEMMA PatchedRow ==
  ASSUME NEW old \in Gateway!Row, NEW c \in Gateway!Change, c.n # 0, old # Gateway!NoRow \/ c.pw, now \in Gateway!Steps
  PROVE  /\ old # Gateway!NoRow => Gateway!Patched(old, c) \in Gateway!Row /\ Gateway!Patched(old, c).ep = c.n
         /\ [Gateway!Patched(old, c) EXCEPT !.id = c.n] \in Gateway!Row
         /\ [Gateway!Patched(old, c) EXCEPT !.id = c.n].ep = c.n
<1>. DEFINE pw == IF c.pw THEN c.n ELSE old.pw
            totp == CASE c.totp = "on" -> TRUE [] c.totp = "off" -> FALSE [] OTHER -> old.totp
            step == CASE c.totp = "on" -> now [] c.totp = "off" -> 0 [] OTHER -> old.step
            new == [old EXCEPT !.pw = pw, !.totp = totp, !.step = step, !.ep = c.n]
            full == [new EXCEPT !.id = c.n]
<1>1. c \in AnyChange /\ c.n \in 1 .. MaxSaves /\ c.pw \in BOOLEAN /\ c.totp \in {"keep", "off", "on"}
  BY ChangeMade, GatewayNumbers DEF AnyChange
<1>2. pw \in 1 .. MaxSaves
  <2>1. CASE old = Gateway!NoRow
    BY <1>1, <2>1
  <2>2. CASE old # Gateway!NoRow
    BY <1>1, <2>2 DEF Gateway!Row, Gateway!Stamps
  <2>. QED  BY <2>1, <2>2
<1>3. totp \in BOOLEAN /\ step \in 0 .. MaxStep
  <2>1. old.totp \in BOOLEAN /\ old.step \in 0 .. MaxStep /\ now \in 0 .. MaxStep /\ 0 \in 0 .. MaxStep
    BY GatewayRows, GatewayNumbers DEF Gateway!Steps
  <2>2. totp \in BOOLEAN
    BY <1>1, <2>1
  <2>3. step \in 0 .. MaxStep
    BY <1>1, <2>1
  <2>. QED  BY <2>2, <2>3
<1>4. Gateway!Patched(old, c) = new
  BY DEF Gateway!Patched
<1>. HIDE DEF pw, totp, step
<1>5. old \in [id : 0 .. MaxSaves, pw : 0 .. MaxSaves, totp : BOOLEAN, step : 0 .. MaxStep, ep : 0 .. MaxSaves]
  <2>1. CASE old = Gateway!NoRow
    <3>1. 0 \in 0 .. MaxSaves /\ 0 \in 0 .. MaxStep
      BY GatewayNumbers
    <3>. QED  BY <2>1, <3>1 DEF Gateway!NoRow
  <2>2. CASE old # Gateway!NoRow
    BY <2>2, GatewayNumbers DEF Gateway!Row, Gateway!Stamps
  <2>. QED  BY <2>1, <2>2
<1>6. new \in [id : 0 .. MaxSaves, pw : 1 .. MaxSaves, totp : BOOLEAN, step : 0 .. MaxStep, ep : 1 .. MaxSaves]
      /\ new.ep = c.n /\ new.id = old.id
  BY <1>1, <1>2, <1>3, <1>5
<1>7. old # Gateway!NoRow => new \in Gateway!Row
  <2>1. old # Gateway!NoRow => old.id \in 1 .. MaxSaves
    BY DEF Gateway!Row, Gateway!Stamps
  <2>. QED  BY <1>6, <2>1 DEF Gateway!Row, Gateway!Stamps
<1>8. full \in Gateway!Row /\ full.ep = c.n
  <2>. HIDE DEF new
  <2>. QED  BY <1>1, <1>6 DEF Gateway!Row, Gateway!Stamps
<1>. QED  BY <1>4, <1>6, <1>7, <1>8

LEMMA SaveKeeps == ASSUME GatewayInv, NEW a \in Admins, Gateway!SaveHostAuth(a) PROVE GatewayInv'
<1>1. /\ UNCHANGED <<gRow, conf, daemon, gEdge, missed, adrift, undone, now, login, cookie>> /\ change[a].at = "load"
  BY DEF Gateway!SaveHostAuth, Gateway!gatewayVars, Gateway!routing
<1>2. CASE Gateway!Answer(a) /\ UNCHANGED saves
  <2>1. PICK c \in Gateway!Change : c.at = "idle" /\ Said(c.prev) \in SaidOf /\ change' = [change EXCEPT ![a] = c]
    BY <1>2, GoesOnOrAnswers
  <2>2. ~Deploying(a)
    BY <1>1 DEF Deploying
  <2>. QED  BY <1>1, <1>2, <2>1, <2>2, GoesOnOrAnswers, OwnerStep, StillReached DEF Gateway!TypeOK
<1>3. CASE ~(Gateway!Answer(a) /\ UNCHANGED saves)
  <2>1. /\ Gateway!Protected \/ change[a].pw
        /\ saves < MaxSaves /\ saves' = saves + 1
        /\ change' = [change EXCEPT ![a].at = "save", ![a].n = saves + 1, ![a].found = Gateway!Protected]
    BY <1>3 DEF Gateway!SaveHostAuth
  <2>. DEFINE held == Gateway!Protected
              c == [change[a] EXCEPT !.at = "save", !.n = saves + 1, !.found = held]
  <2>2. held \in BOOLEAN /\ saves + 1 \in 0 .. MaxSaves
    BY <2>1, GoesOnOrAnswers, GatewayNumbers DEF Gateway!TypeOK, Gateway!Protected
  <2>3. change[a] \in AnyChange
    BY GoesOnOrAnswers, ChangeMade
  <2>4. change' = [change EXCEPT ![a] = c]
    BY <2>1
  <2>5. held \/ c.pw
    BY <2>1, <2>3 DEF AnyChange
  <2>. HIDE DEF held
  <2>6. c \in AnyChange /\ c.at = "save" /\ c.prev = change[a].prev /\ c.n = saves + 1 /\ c.found = held
    BY <2>2, <2>3 DEF AnyChange
  <2>7. c \in Gateway!Change
    BY <2>6, ChangeMade
  <2>8. ~Deploying(a)
    BY <1>1 DEF Deploying
  <2>. HIDE DEF c
  <2>9. IF c.at = "save" THEN saves < MaxSaves /\ saves' = saves + 1 /\ c.n = saves' /\ (c.found \/ c.pw) /\ gRow' = gRow
        ELSE saves' = saves
    <3>1. c.found \/ c.pw
      BY <2>5, <2>6
    <3>. QED  BY <1>1, <2>1, <2>6, <3>1
  <2>10. Said(c.prev) \in SaidOf /\ gRow' \in Gateway!Row /\ Said(gRow') \in SaidOf
    BY <1>1, <2>6, GoesOnOrAnswers
  <2>. QED  BY <1>1, <2>4, <2>7, <2>8, <2>9, <2>10, GoesOnOrAnswers, OwnerStep, StillReached DEF Gateway!TypeOK
<1>. QED  BY <1>2, <1>3

LEMMA UpdateKeeps == ASSUME GatewayInv, NEW a \in Admins, Gateway!UpdateRow(a) PROVE GatewayInv'
<1>1. /\ UNCHANGED <<conf, daemon, gEdge, missed, adrift, saves, undone, now, login, cookie>> /\ change[a].at = "save" /\ Gateway!GoDeploy(a)
      /\ gRow' = IF Gateway!Protected THEN Gateway!Patched(gRow, change[a]) ELSE gRow
  BY DEF Gateway!UpdateRow, Gateway!gatewayVars, Gateway!routing
<1>2. PICK c \in Gateway!Change : c.at = "deploy" /\ c.prev = change[a].prev /\ change' = [change EXCEPT ![a] = c]
  BY <1>1, GoesOnOrAnswers
<1>3. a \in Saving /\ change[a].n # 0 /\ now \in Gateway!Steps
  <2>1. a \in Saving
    BY <1>1 DEF Saving
  <2>. QED  BY <2>1, GoesOnOrAnswers DEF StampsFresh, Gateway!TypeOK
<1>4. gRow' = gRow \/ (gRow' \in Gateway!Row /\ gRow'.ep = change[a].n)
  <2>1. CASE gRow = Gateway!NoRow
    BY <1>1, <2>1 DEF Gateway!Protected
  <2>2. CASE gRow # Gateway!NoRow
    <3>1. Gateway!Patched(gRow, change[a]) \in Gateway!Row /\ Gateway!Patched(gRow, change[a]).ep = change[a].n
      <4>1. gRow \in Gateway!Row /\ change[a] \in Gateway!Change
        BY GoesOnOrAnswers
      <4>. QED  BY <1>3, <2>2, <4>1, PatchedRow
    <3>. QED  BY <1>1, <2>2, <3>1 DEF Gateway!Protected
  <2>. QED  BY <2>1, <2>2
<1>5. (gRow' = gRow /\ Said(gRow') \in SaidOf) \/ (a \in Saving /\ gRow'.ep = change[a].n)
  BY <1>3, <1>4, GoesOnOrAnswers
<1>6. gRow' \in Gateway!Row
  BY <1>4, GoesOnOrAnswers
<1>. QED  BY <1>1, <1>2, <1>5, <1>6, GoesOnOrAnswers, OwnerStep, StillReached DEF Gateway!TypeOK

LEMMA InsertKeeps == ASSUME GatewayInv, NEW a \in Admins, Gateway!InsertRow(a) PROVE GatewayInv'
<1>1. /\ UNCHANGED <<conf, daemon, gEdge, missed, adrift, saves, undone, now, login, cookie>> /\ change[a].at = "save" /\ ~change[a].found
  BY DEF Gateway!InsertRow, Gateway!gatewayVars, Gateway!routing
<1>2. a \in Saving /\ change[a].n # 0 /\ now \in Gateway!Steps /\ change[a].pw /\ ~Deploying(a)
  <2>1. a \in Saving
    BY <1>1 DEF Saving
  <2>. QED  BY <1>1, <2>1, GoesOnOrAnswers DEF StampsFresh, GatewaySteps, Gateway!TypeOK, Deploying
<1>3. CASE Gateway!Answer(a) /\ UNCHANGED gRow
  <2>1. PICK c \in Gateway!Change : c.at = "idle" /\ Said(c.prev) \in SaidOf /\ change' = [change EXCEPT ![a] = c]
    BY <1>3, GoesOnOrAnswers
  <2>. QED  BY <1>1, <1>2, <1>3, <2>1, GoesOnOrAnswers, OwnerStep, StillReached DEF Gateway!TypeOK
<1>4. CASE Gateway!GoDeploy(a) /\ gRow' = [Gateway!Patched(Gateway!NoRow, change[a]) EXCEPT !.id = change[a].n]
  <2>1. PICK c \in Gateway!Change : c.at = "deploy" /\ c.prev = change[a].prev /\ change' = [change EXCEPT ![a] = c]
    BY <1>4, GoesOnOrAnswers
  <2>2. gRow' \in Gateway!Row /\ gRow'.ep = change[a].n
    BY <1>2, <1>4, GoesOnOrAnswers, PatchedRow, GatewayEmpty
  <2>. QED  BY <1>1, <1>2, <2>1, <2>2, GoesOnOrAnswers, OwnerStep, StillReached DEF Gateway!TypeOK
<1>. QED  BY <1>3, <1>4 DEF Gateway!InsertRow

\* A removal, a deploy and its rollback
LEMMA RestKeeps ==
  ASSUME GatewayInv, NEW a \in Admins,
         \/ Gateway!RemoveHostAuth(a) \/ Gateway!Deployed(a) \/ Gateway!DeployFails(a)
         \/ Gateway!RestoreHostAuth(a) \/ Gateway!RedeployFails(a)
  PROVE  GatewayInv'
<1>1. CASE Gateway!RemoveHostAuth(a)
  <2>1. /\ UNCHANGED <<conf, daemon, gEdge, missed, adrift, saves, undone, now, login, cookie>> /\ Gateway!GoDeploy(a) /\ gRow' = Gateway!NoRow
    BY <1>1 DEF Gateway!RemoveHostAuth, Gateway!gatewayVars, Gateway!routing
  <2>2. PICK c \in Gateway!Change : c.at = "deploy" /\ c.prev = change[a].prev /\ change' = [change EXCEPT ![a] = c]
    BY <2>1, GoesOnOrAnswers
  <2>3. Said(gRow') \in SaidOf
    BY <2>1, GatewayEmpty DEF SaidOf
  <2>. QED  BY <2>1, <2>2, <2>3, GatewayEmpty, GoesOnOrAnswers, OwnerStep, StillReached DEF Gateway!TypeOK
<1>2. CASE Gateway!Deployed(a)
  <2>1. /\ UNCHANGED <<gRow, saves, undone, now, login, cookie>> /\ Gateway!Answer(a) /\ adrift' = FALSE
        /\ conf' = IF gRow # Gateway!NoRow THEN "gateway" ELSE "origin"
        /\ gEdge' = IF daemon = "running" THEN conf' ELSE gEdge
        /\ missed' = CASE daemon = "running" -> FALSE [] daemon = "unready" -> TRUE [] OTHER -> missed
    BY <1>2 DEF Gateway!Deployed, Gateway!gatewayVars, Gateway!Protected
  <2>3. /\ daemon' = daemon /\ daemon \in {"down", "unready", "running"} /\ missed \in BOOLEAN
        /\ gEdge \in {"origin", "gateway"}
    BY <1>2, GoesOnOrAnswers DEF Gateway!Deployed, Gateway!TypeOK
  <2>4. conf' \in {"origin", "gateway"} /\ gEdge' \in {"origin", "gateway"} /\ missed' \in BOOLEAN
    BY <2>1, <2>3
  <2>5. Reached'
    BY <2>1, <2>3 DEF Reached
  <2>2. PICK c \in Gateway!Change : c.at = "idle" /\ Said(c.prev) \in SaidOf /\ change' = [change EXCEPT ![a] = c]
    BY <2>1, GoesOnOrAnswers
  <2>. QED  BY <2>1, <2>2, <2>3, <2>4, <2>5, GoesOnOrAnswers, OwnerStep DEF Gateway!TypeOK
<1>3. CASE Gateway!DeployFails(a)
  <2>1. /\ UNCHANGED <<gRow, conf, daemon, gEdge, missed, adrift, saves, undone, now, login, cookie>> /\ Gateway!Goto(a, "undo") /\ change[a].at = "deploy"
    BY <1>3 DEF Gateway!DeployFails, Gateway!gatewayVars, Gateway!routing
  <2>2. PICK c \in Gateway!Change : c.at = "undo" /\ c.prev = change[a].prev /\ change' = [change EXCEPT ![a] = c]
    BY <2>1, GoesOnOrAnswers
  <2>. QED  BY <2>1, <2>2, GoesOnOrAnswers, OwnerStep, StillReached DEF Gateway!TypeOK
<1>4. CASE Gateway!RestoreHostAuth(a)
  <2>1. /\ UNCHANGED <<conf, daemon, gEdge, missed, adrift, saves, now, login, cookie>> /\ Gateway!Goto(a, "redeploy") /\ change[a].at = "undo"
        /\ gRow' = change[a].prev /\ undone' = TRUE
    BY <1>4 DEF Gateway!RestoreHostAuth, Gateway!gatewayVars, Gateway!routing
  <2>2. PICK c \in Gateway!Change : c.at = "redeploy" /\ c.prev = change[a].prev /\ change' = [change EXCEPT ![a] = c]
    BY <2>1, GoesOnOrAnswers
  <2>. QED  BY <2>1, <2>2, GoesOnOrAnswers, OwnerStep, StillReached DEF Gateway!TypeOK
<1>5. CASE Gateway!RedeployFails(a)
  <2>1. /\ UNCHANGED <<gRow, conf, daemon, gEdge, missed, saves, undone, now, login, cookie>> /\ Gateway!Answer(a) /\ adrift' = TRUE
    BY <1>5 DEF Gateway!RedeployFails, Gateway!gatewayVars, Gateway!routing
  <2>2. PICK c \in Gateway!Change : c.at = "idle" /\ Said(c.prev) \in SaidOf /\ change' = [change EXCEPT ![a] = c]
    BY <2>1, GoesOnOrAnswers
  <2>. QED  BY <2>1, <2>2, GoesOnOrAnswers, OwnerStep, StillReached DEF Gateway!TypeOK
<1>. QED  BY <1>1, <1>2, <1>3, <1>4, <1>5

-----------------------------------------------------------------------------
(* The gateway: a step of a visitor's                                      *)

LEMMA VisitorStep ==
  ASSUME GatewayInv, NEW v \in Visitors, NEW l \in Gateway!Sign, login' = [login EXCEPT ![v] = l],
         UNCHANGED <<conf, daemon, gEdge, missed, adrift, saves, change, undone, now>>,
         gRow' \in Gateway!Row, Said(gRow') = Said(gRow), Said(l.auth) \in SaidOf, l.at # "away" => l.auth # Gateway!NoRow,
         cookie' = cookie \/ (cookie' \in [ep : 1 .. MaxSaves, pw : 1 .. MaxSaves, totp : BOOLEAN, step : 0 .. MaxStep]
                                 /\ Said(cookie') \in SaidOf),
         StepsApart'
  PROVE  GatewayInv'
<1>1. /\ Gateway!TypeOK /\ StampsTell /\ StampsFresh /\ GatewaySteps /\ RoutedSoFar /\ Reached /\ saves \in Nat
  BY GatewayNumbers DEF GatewayInv, Gateway!TypeOK
<1>2. login'[v] = l /\ \A w \in Visitors \ {v} : login'[w] = login[w]
  BY <1>1 DEF Gateway!TypeOK
<1>3. Gateway!TypeOK'
  BY <1>1 DEF Gateway!TypeOK, Gateway!Stamps
<1>4. SaidOf' \subseteq SaidOf
  <2>1. Said(gRow') \in SaidOf
    BY DEF SaidOf
  <2>2. Said(cookie') \in SaidOf
    BY DEF SaidOf
  <2>3. \A a \in Admins : Said(change'[a].prev) \in SaidOf
    BY DEF SaidOf
  <2>4. \A w \in Visitors : Said(login'[w].auth) \in SaidOf
    BY <1>2 DEF SaidOf
  <2>5. Nothing \in SaidOf
    BY DEF SaidOf
  <2>6. SaidOf' = {Nothing, Said(gRow'), Said(cookie')} \cup {Said(change'[a].prev) : a \in Admins}
                     \cup {Said(login'[w].auth) : w \in Visitors}
    BY DEF SaidOf, Said
  <2>. QED  BY <2>1, <2>2, <2>3, <2>4, <2>5, <2>6
<1>5. Saving' = Saving
  BY DEF Saving
<1>6. StampsTell' /\ StampsFresh'
  BY <1>1, <1>4, <1>5, SaidKept
<1>7. GatewaySteps'
  BY <1>1, <1>2, <1>5 DEF GatewaySteps
<1>8. RoutedSoFar' /\ Reached'
  <2>1. gRow' = Gateway!NoRow <=> gRow = Gateway!NoRow
    <3>1. gRow'.ep = gRow.ep
      BY DEF Said
    <3>. QED  BY <1>1, <3>1, GatewayRows DEF Gateway!TypeOK
  <2>. QED  BY <1>1, <2>1 DEF RoutedSoFar, Reached, Deploying, Gateway!Protected
<1>. QED  BY <1>3, <1>6, <1>7, <1>8 DEF GatewayInv

\* A sign-in is against the row as it was read.
AnySign == [at : {"away", "password", "claim", "issue"}, auth : Gateway!Row, step : 0 .. MaxStep]

LEMMA SignMade ==
  /\ Gateway!Sign \subseteq AnySign /\ Gateway!Away \in AnySign
  /\ \A l \in AnySign : l.at # "away" => l \in Gateway!Sign
<1>1. Gateway!Away \in AnySign
  BY GatewayNumbers, GatewayEmpty DEF Gateway!Away, AnySign
<1>. QED  BY <1>1 DEF Gateway!Sign, AnySign

LEMMA SignsIn ==
  ASSUME GatewayInv, NEW v \in Visitors
  PROVE  /\ Gateway!TypeOK /\ StampsTell /\ GatewaySteps /\ StepsApart /\ gRow \in Gateway!Row
         /\ login[v] \in AnySign /\ login[v] \in Gateway!Sign /\ Said(login[v].auth) \in SaidOf
         /\ Said(gRow) \in SaidOf /\ Said(Gateway!NoRow) \in SaidOf
         /\ login[v].at # "away" => login[v].auth # Gateway!NoRow
         /\ Gateway!Away \in Gateway!Sign
<1>1. Gateway!TypeOK /\ StampsTell /\ GatewaySteps /\ StepsApart /\ gRow \in Gateway!Row
  BY DEF GatewayInv, Gateway!TypeOK
<1>2. login[v] \in AnySign /\ login[v] \in Gateway!Sign
  BY <1>1, GatewayShapes, SignMade
<1>3. Said(login[v].auth) \in SaidOf /\ Said(gRow) \in SaidOf /\ Said(Gateway!NoRow) \in SaidOf
  BY GatewayEmpty DEF SaidOf
<1>. QED  BY <1>1, <1>2, <1>3, GatewayEmpty DEF GatewaySteps

\* Who does not come to the point of issuing a session leaves the steps of the others apart.
LEMMA ApartWithout ==
  ASSUME StepsApart, UNCHANGED <<gRow, cookie, undone>>, NEW v \in Visitors,
         \A w \in Visitors \ {v} : login'[w] = login[w],
         v \in Claimed' => login'[v] = login[v]
  PROVE  StepsApart'
<1>1. Claimed' \subseteq Claimed /\ \A w \in Claimed' : login'[w] = login[w]
  BY DEF Claimed
<1>. QED  BY <1>1 DEF StepsApart, CookieIsCurrent

LEMMA LoginKeeps == ASSUME GatewayInv, NEW v \in Visitors, Gateway!PostLogin(v) PROVE GatewayInv'
<1>. DEFINE auth == [gRow EXCEPT !.step = 0]
            l == [at |-> "password", auth |-> auth, step |-> 0]
<1>1. /\ UNCHANGED <<gRow, conf, daemon, gEdge, missed, adrift, saves, change, undone, now, cookie>>
      /\ gRow # Gateway!NoRow /\ login' = [login EXCEPT ![v] = l]
  BY DEF Gateway!PostLogin, Gateway!ownerVars, Gateway!routing, Gateway!Protected
<1>2. gRow \in Gateway!Row /\ Gateway!TypeOK
  BY SignsIn
<1>3. auth \in Gateway!Row /\ Said(auth) = Said(gRow) /\ auth # Gateway!NoRow
  <2>1. gRow \in [id : 1 .. MaxSaves, pw : 1 .. MaxSaves, totp : BOOLEAN, step : 0 .. MaxStep, ep : 1 .. MaxSaves]
    BY <1>1, <1>2 DEF Gateway!Row, Gateway!Stamps
  <2>2. auth \in Gateway!Row /\ auth.ep = gRow.ep /\ auth.pw = gRow.pw /\ auth.totp = gRow.totp
    BY <2>1, GatewayNumbers DEF Gateway!Row, Gateway!Stamps
  <2>3. auth.ep # 0
    BY <1>1, <1>2, <2>2, GatewayRows
  <2>. HIDE DEF auth
  <2>. QED  BY <2>2, <2>3, GatewayEmpty DEF Said
<1>. HIDE DEF auth
<1>4. l \in AnySign /\ l.at = "password" /\ l.auth = auth
  BY <1>3, GatewayNumbers DEF AnySign
<1>. HIDE DEF l
<1>5. l \in Gateway!Sign /\ Said(l.auth) \in SaidOf /\ l.auth # Gateway!NoRow
  BY <1>3, <1>4, SignMade, SignsIn
<1>6. login'[v] = l /\ \A w \in Visitors \ {v} : login'[w] = login[w]
  BY <1>1, <1>2 DEF Gateway!TypeOK
<1>7. StepsApart'
  BY <1>1, <1>4, <1>6, SignsIn, ApartWithout DEF Claimed
<1>. QED  BY <1>1, <1>2, <1>5, <1>7, VisitorStep

LEMMA CheckKeeps == ASSUME GatewayInv, NEW v \in Visitors, Gateway!CheckHostLogin(v) PROVE GatewayInv'
<1>1. /\ UNCHANGED <<gRow, conf, daemon, gEdge, missed, adrift, saves, change, undone, now, cookie>> /\ login[v].at = "password"
  BY DEF Gateway!CheckHostLogin, Gateway!ownerVars, Gateway!routing
<1>2. /\ login[v] \in AnySign /\ Said(login[v].auth) \in SaidOf /\ login[v].auth # Gateway!NoRow /\ now \in 0 .. MaxStep
      /\ gRow \in Gateway!Row /\ Gateway!TypeOK
  <2>1. now \in 0 .. MaxStep
    BY SignsIn, GatewayNumbers DEF Gateway!TypeOK, Gateway!Steps
  <2>. QED  BY <1>1, <2>1, SignsIn
<1>3. PICK l \in Gateway!Sign : /\ login' = [login EXCEPT ![v] = l] /\ Said(l.auth) \in SaidOf
                                /\ l.at # "away" => l.auth # Gateway!NoRow
                                /\ l.at = "issue" => ~l.auth.totp
  <2>1. CASE login' = [login EXCEPT ![v] = Gateway!Away]
    BY <2>1, SignsIn, GatewayEmpty
  <2>2. CASE ~login[v].auth.totp /\ login' = [login EXCEPT ![v].at = "issue"]
    <3>. DEFINE l == [login[v] EXCEPT !.at = "issue"]
    <3>1. l \in AnySign /\ l.at = "issue" /\ l.auth = login[v].auth
      BY <1>2 DEF AnySign
    <3>2. login' = [login EXCEPT ![v] = l]
      BY <2>2
    <3>. HIDE DEF l
    <3>. QED  BY <1>2, <2>2, <3>1, <3>2, SignMade
  <2>3. CASE login[v].auth.totp /\ login' = [login EXCEPT ![v].at = "claim", ![v].step = now]
    <3>. DEFINE l == [login[v] EXCEPT !.at = "claim", !.step = now]
    <3>1. l \in AnySign /\ l.at = "claim" /\ l.auth = login[v].auth
      BY <1>2 DEF AnySign
    <3>2. login' = [login EXCEPT ![v] = l]
      BY <2>3
    <3>. HIDE DEF l
    <3>. QED  BY <1>2, <2>3, <3>1, <3>2, SignMade
  <2>. QED  BY <2>1, <2>2, <2>3 DEF Gateway!CheckHostLogin
<1>4. login'[v] = l /\ \A w \in Visitors \ {v} : login'[w] = login[w]
  BY <1>2, <1>3 DEF Gateway!TypeOK
<1>5. StepsApart'
  BY <1>1, <1>3, <1>4, SignsIn, ApartWithout DEF Claimed
<1>. QED  BY <1>1, <1>2, <1>3, <1>5, VisitorStep

LEMMA IssueKeeps == ASSUME GatewayInv, NEW v \in Visitors, Gateway!IssueHostSession(v) PROVE GatewayInv'
<1>. DEFINE k == Gateway!CookieFor(login[v])
<1>1. /\ UNCHANGED <<gRow, conf, daemon, gEdge, missed, adrift, saves, change, undone, now>> /\ login[v].at = "issue"
      /\ login' = [login EXCEPT ![v] = Gateway!Away] /\ (cookie' = cookie \/ cookie' = k)
  BY DEF Gateway!IssueHostSession, Gateway!ownerVars, Gateway!routing
<1>2. /\ login[v] \in AnySign /\ Said(login[v].auth) \in SaidOf /\ login[v].auth # Gateway!NoRow
      /\ gRow \in Gateway!Row /\ Gateway!TypeOK /\ StepsApart
  BY <1>1, SignsIn
<1>3. login'[v] = Gateway!Away /\ \A w \in Visitors \ {v} : login'[w] = login[w]
  BY <1>1, <1>2 DEF Gateway!TypeOK
<1>4. /\ k.ep = login[v].auth.ep /\ k.totp = login[v].auth.totp /\ k.step = login[v].step
      /\ k \in [ep : 1 .. MaxSaves, pw : 1 .. MaxSaves, totp : BOOLEAN, step : 0 .. MaxStep] /\ Said(k) = Said(login[v].auth)
  <2>1. login[v].auth \in [id : 1 .. MaxSaves, pw : 1 .. MaxSaves, totp : BOOLEAN, step : 0 .. MaxStep, ep : 1 .. MaxSaves]
        /\ login[v].step \in 0 .. MaxStep
    BY <1>2 DEF AnySign, Gateway!Row, Gateway!Stamps
  <2>. QED  BY <2>1 DEF Gateway!CookieFor, Said
<1>. HIDE DEF k
<1>5. Claimed' \subseteq Claimed \ {v} /\ \A w \in Claimed' : login'[w] = login[w]
  BY <1>1, <1>3, GatewayEmpty DEF Claimed
<1>6. StepsApart'
  <2>1. CASE cookie' = cookie
    BY <1>1, <1>2, <1>5, <2>1 DEF StepsApart, CookieIsCurrent
  <2>2. CASE cookie' = k
    <3>1. CookieIsCurrent' => v \in Claimed
      BY <1>1, <1>4, <2>2 DEF CookieIsCurrent, Claimed
    <3>. QED  BY <1>1, <1>2, <1>4, <1>5, <2>2, <3>1 DEF StepsApart
  <2>. QED  BY <1>1, <2>1, <2>2
<1>7. cookie' = cookie \/ (cookie' \in [ep : 1 .. MaxSaves, pw : 1 .. MaxSaves, totp : BOOLEAN, step : 0 .. MaxStep]
                              /\ Said(cookie') \in SaidOf)
  BY <1>1, <1>2, <1>4
<1>. QED  BY <1>1, <1>2, <1>6, <1>7, SignsIn, VisitorStep, GatewayEmpty

\* The conditional UPDATE takes a step only if it is later than the row's.
LEMMA ClaimKeeps == ASSUME GatewayInv, NEW v \in Visitors, Gateway!ClaimStep(v) PROVE GatewayInv'
<1>1. /\ UNCHANGED <<conf, daemon, gEdge, missed, adrift, saves, change, undone, now, cookie>> /\ login[v].at = "claim"
  BY DEF Gateway!ClaimStep, Gateway!ownerVars, Gateway!routing
<1>2. /\ login[v] \in AnySign /\ Said(login[v].auth) \in SaidOf /\ login[v].auth # Gateway!NoRow
      /\ gRow \in Gateway!Row /\ Gateway!TypeOK /\ StepsApart
  BY <1>1, SignsIn
<1>3. CASE gRow.id = login[v].auth.id /\ gRow.step < login[v].step
  <2>. DEFINE l == [login[v] EXCEPT !.at = "issue"]
              R == [gRow EXCEPT !.step = login[v].step]
  <2>1. login' = [login EXCEPT ![v] = l] /\ gRow' = R
    BY <1>3 DEF Gateway!ClaimStep
  <2>2. l \in AnySign /\ l.at = "issue" /\ l.auth = login[v].auth /\ l.step = login[v].step
    BY <1>2 DEF AnySign
  <2>3. gRow # Gateway!NoRow
    <3>1. login[v].auth \in Gateway!Row
      BY <1>2 DEF AnySign
    <3>. QED  BY <1>2, <1>3, <3>1, GatewayRows
  <2>4. R \in Gateway!Row /\ Said(R) = Said(gRow) /\ R.ep = gRow.ep /\ R.step = login[v].step
    <3>1. gRow \in [id : 1 .. MaxSaves, pw : 1 .. MaxSaves, totp : BOOLEAN, step : 0 .. MaxStep, ep : 1 .. MaxSaves]
      BY <1>2, <2>3 DEF Gateway!Row, Gateway!Stamps
    <3>2. login[v].step \in 0 .. MaxStep
      BY <1>2 DEF AnySign
    <3>3. R \in Gateway!Row /\ R.ep = gRow.ep /\ R.pw = gRow.pw /\ R.totp = gRow.totp /\ R.step = login[v].step
      BY <3>1, <3>2 DEF Gateway!Row, Gateway!Stamps
    <3>. HIDE DEF R
    <3>. QED  BY <3>3 DEF Said
  <2>. HIDE DEF l, R
  <2>5. login'[v] = l /\ \A w \in Visitors \ {v} : login'[w] = login[w]
    BY <1>2, <2>1 DEF Gateway!TypeOK
  <2>6. /\ Claimed' \subseteq Claimed \cup {v} /\ v \notin Claimed
        /\ \A w \in Claimed' : login'[w].step = login[w].step
    BY <1>1, <2>1, <2>2, <2>4, <2>5 DEF Claimed
  <2>7. login[v].step \in Nat /\ gRow.step \in Nat /\ cookie.step \in Nat /\ \A w \in Visitors : login[w].step \in Nat
    BY <1>2, GatewayShapes, GatewayRows, GatewayNumbers
  <2>8. StepsApart'
    <3>1. SUFFICES ASSUME ~undone PROVE StepsApart'
      BY <1>1 DEF StepsApart
    <3>2. \A w \in Claimed : login[w].step <= gRow.step /\ login[w].step < login[v].step
      BY <1>2, <1>3, <2>7, <3>1 DEF StepsApart, Claimed
    <3>3. CookieIsCurrent' => CookieIsCurrent /\ cookie.step < login[v].step
      BY <1>1, <1>2, <1>3, <2>1, <2>4, <2>7, <3>1 DEF StepsApart, CookieIsCurrent
    <3>4. \A w \in Claimed' : login'[w].step <= gRow'.step
      <4>1. \A w \in Claimed' : w \in Visitors /\ (w = v \/ w \in Claimed)
        BY <2>6 DEF Claimed
      <4>2. ASSUME NEW w \in Claimed' PROVE login'[w].step <= gRow'.step
        <5>1. login'[w].step = login[w].step /\ gRow'.step = login[v].step
          BY <2>1, <2>4, <2>6
        <5>. QED  BY <2>7, <3>2, <4>1, <5>1
      <4>. QED  BY <4>2
    <3>5. \A w, x \in Claimed' : login'[w].step = login'[x].step => w = x
      <4>1. \A w \in Claimed' : w = v \/ (w \in Claimed /\ login[w].step < login[v].step)
        BY <2>6, <3>2
      <4>2. \A w, x \in Claimed : login[w].step = login[x].step => w = x
        BY <1>2, <3>1 DEF StepsApart
      <4>3. \A w \in Claimed' : w \in Visitors
        BY DEF Claimed
      <4>. QED  BY <2>6, <2>7, <4>1, <4>2, <4>3
    <3>6. CookieIsCurrent' => cookie'.step <= gRow'.step /\ \A w \in Claimed' : login'[w].step # cookie'.step
      <4>1. \A w \in Claimed' : w = v \/ w \in Claimed
        BY <2>6
      <4>2. CookieIsCurrent => \A w \in Claimed : login[w].step # cookie.step
        BY <1>2, <3>1 DEF StepsApart
      <4>. QED  BY <1>1, <2>1, <2>4, <2>6, <2>7, <3>3, <4>1, <4>2
    <3>. QED  BY <3>4, <3>5, <3>6 DEF StepsApart
  <2>. QED  BY <1>1, <1>2, <2>1, <2>2, <2>4, <2>8, SignMade, VisitorStep
<1>4. CASE ~(gRow.id = login[v].auth.id /\ gRow.step < login[v].step)
  <2>1. gRow' = gRow /\ login' = [login EXCEPT ![v] = Gateway!Away]
    BY <1>4 DEF Gateway!ClaimStep
  <2>2. login'[v] = Gateway!Away /\ \A w \in Visitors \ {v} : login'[w] = login[w]
    BY <1>2, <2>1 DEF Gateway!TypeOK
  <2>3. StepsApart'
    BY <1>1, <1>2, <2>1, <2>2, ApartWithout, GatewayEmpty DEF Claimed
  <2>. QED  BY <1>1, <1>2, <2>1, <2>3, SignsIn, VisitorStep, GatewayEmpty
<1>. QED  BY <1>3, <1>4

LEMMA GatewayNext == GatewayInv /\ [Gateway!Next]_gatewayVars => GatewayInv'
<1>. SUFFICES ASSUME GatewayInv, [Gateway!Next]_gatewayVars PROVE GatewayInv'
  OBVIOUS
<1>1. ASSUME NEW a \in Admins, Gateway!Owner(a) PROVE GatewayInv'
  BY <1>1, PutKeeps, DeleteKeeps, SaveKeeps, UpdateKeeps, InsertKeeps, RestKeeps DEF Gateway!Owner
<1>2. ASSUME NEW v \in Visitors, Gateway!Visitor(v) PROVE GatewayInv'
  BY <1>2, LoginKeeps, CheckKeeps, ClaimKeeps, IssueKeeps DEF Gateway!Visitor
<1>3. ASSUME UNCHANGED <<gRow, conf, adrift, saves, change, login, cookie, undone>>, now' \in Gateway!Steps,
             daemon' \in {"down", "unready", "running"}, gEdge' \in {"origin", "gateway"}, missed' \in BOOLEAN, Reached'
      PROVE  GatewayInv'
  BY <1>3 DEF GatewayInv, Gateway!TypeOK, StampsTell, StampsFresh, SaidOf, Said, Saving, GatewaySteps,
              RoutedSoFar, Deploying,
     Gateway!Protected, StepsApart, Claimed, CookieIsCurrent
<1>6. /\ Reached /\ now \in Gateway!Steps /\ conf \in {"origin", "gateway"} /\ gEdge \in {"origin", "gateway"}
      /\ daemon \in {"down", "unready", "running"} /\ missed \in BOOLEAN
  BY DEF GatewayInv, Gateway!TypeOK
<1>4. CASE Gateway!Tick
  <2>1. now' \in Gateway!Steps
    BY <1>4, <1>6, GatewayNumbers DEF Gateway!Tick, Gateway!Steps
  <2>2. UNCHANGED <<gRow, conf, daemon, gEdge, missed, adrift, saves, change, login, cookie, undone>>
    BY <1>4 DEF Gateway!Tick, Gateway!ownerVars, Gateway!routing
  <2>. QED  BY <1>3, <1>6, <2>1, <2>2 DEF Reached
<1>5. CASE UNCHANGED gatewayVars
  BY <1>3, <1>5, <1>6 DEF gatewayVars, Reached
<1>7. CASE Gateway!DaemonStarts
  BY <1>3, <1>6, <1>7 DEF Gateway!DaemonStarts, Gateway!gatewayVars, Reached
<1>8. CASE Gateway!HealthCheck
  <2>1. daemon # "down" /\ daemon' \in {"unready", "running"}
    BY <1>8 DEF Gateway!HealthCheck
  <2>. QED  BY <1>3, <1>6, <1>8, <2>1 DEF Gateway!HealthCheck, Gateway!gatewayVars, Reached
<1>9. CASE Gateway!DaemonDies
  BY <1>3, <1>6, <1>9 DEF Gateway!DaemonDies, Gateway!gatewayVars, Reached
<1>. QED  BY <1>1, <1>2, <1>4, <1>5, <1>7, <1>8, <1>9 DEF Gateway!Next

\* The TOTP step that a session is issued for was not that of the cookie.
LEMMA GatewayStepOnce ==
  ASSUME GatewayInv, NEW v \in Visitors, Gateway!IssueHostSession(v), login[v].auth.totp, ~undone, login[v].auth.ep = gRow.ep
  PROVE  <<cookie.ep, cookie.step>> # <<login[v].auth.ep, login[v].step>>
<1>1. SUFFICES ASSUME cookie.ep = login[v].auth.ep, cookie.step = login[v].step PROVE FALSE
  OBVIOUS
<1>2. v \in Claimed
  BY DEF Claimed, Gateway!IssueHostSession
<1>3. Said(cookie) = Said(login[v].auth)
  <2>1. Said(cookie) \in SaidOf /\ Said(login[v].auth) \in SaidOf /\ Said(cookie).ep = Said(login[v].auth).ep
    BY <1>1 DEF SaidOf, Said
  <2>. QED  BY <2>1 DEF GatewayInv, StampsTell
<1>4. cookie.totp = login[v].auth.totp
  <2>1. Said(cookie).totp = cookie.totp /\ Said(login[v].auth).totp = login[v].auth.totp
    BY DEF Said
  <2>. QED  BY <1>3, <2>1
<1>5. CookieIsCurrent
  BY <1>1, <1>4 DEF CookieIsCurrent
<1>. QED  BY <1>1, <1>2, <1>5 DEF GatewayInv, StepsApart

(***************************************************************************)
(* nginx and the certificates: what each job is at, and what it leaves     *)
(***************************************************************************)
Placing == {"put", "test", "undo", "reload", "good", "bad"}
Ordering == {"order", "proof", "pem", "key", "meta"}
JobType == [kind : AtWork, host : Hosts, at : Steps, staging : BOOLEAN, todo : SUBSET Hosts,
            conf : Files, kept : Files, cert : 0..MaxOrders]

JobFits(c) ==
  /\ c.kind = "deploy" => c.at \in {"read"} \cup Placing
  /\ c.kind = "issue" => c.at \in {"attempt"} \cup Ordering \cup Placing
  /\ c.kind = "renew" => c.at \in {"attempt"} \cup Ordering
  /\ c.kind = "remove" => c.at \in {"unlink", "delete"}
  /\ c.staging => c.kind = "issue"
  /\ c.at \in {"proof", "pem", "key", "meta"} => c.cert # 0

JobsFit ==
  /\ job \in [Jobs -> JobType \cup {Idle}]
  /\ \A j \in Jobs : job[j] # Idle => JobFits(job[j])

EdgeTypes ==
  /\ row \in [Hosts -> Rows] /\ file \in [Hosts -> Files]
  /\ loaded \in [Hosts -> [conf : Files, cert : 0..MaxOrders]]
  /\ signalled \in BOOLEAN /\ behind \in BOOLEAN /\ fallback \in BOOLEAN
  /\ pem \in [Hosts -> 0..MaxOrders] /\ key \in [Hosts -> 0..MaxOrders]
  /\ tried \subseteq Hosts /\ spent \in [Hosts -> 0..MaxOrders]
  /\ txt \subseteq Jobs /\ expired \subseteq aged /\ raced \subseteq Hosts
  /\ orders \in 0..MaxOrders /\ asked \in 0..MaxRequests /\ restarts \in 0..MaxRestarts

\* Counters: an edit is a request, an old certificate was ordered.
Counted ==
  /\ \A h \in Hosts : row[h] # Gone => row[h].n <= asked
  /\ aged \subseteq 1..orders

\* A configuration names a certificate that is there.
Named(c) ==
  /\ c.at \in {"key", "meta"} => pem[c.host] # 0
  /\ c.at = "put" => (c.conf.tls => pem[c.host] # 0)
  /\ c.at \in {"test", "undo"} => (c.kept.tls => pem[c.host] # 0)
CertsNamed ==
  /\ \A h \in Hosts : file[h].tls => pem[h] # 0
  /\ \A j \in Jobs : job[j] # Idle => Named(job[j])

\* The note of the attempts keeps orders for a name apart.
IsCertifying(c) == c.kind \in {"issue", "renew"} /\ ~c.staging
PastAttempt(j) == job[j] # Idle /\ IsCertifying(job[j]) /\ job[j].at # "attempt"
Throttled ==
  /\ \A h \in Hosts : spent[h] <= 1 /\ (h \notin tried => spent[h] = 0)
  /\ \A j \in Jobs : PastAttempt(j) => job[j].host \in tried /\ (job[j].at = "order" => spent[job[j].host] = 0)
  /\ \A i, j \in Jobs : PastAttempt(i) /\ PastAttempt(j) /\ job[i].host = job[j].host => i = j

\* On a host that is not raced, a deploy or a removal is alone but for renewals, and an
\* issue for staging but for those that have not attempted yet.
Alone(c) == c.kind \in {"deploy", "remove"} \/ c.staging
JobsApart ==
  \A i, j \in Jobs :
    /\ job[i] # Idle /\ job[j] # Idle /\ i # j
    /\ job[i].host = job[j].host /\ job[i].host \notin raced
    /\ Alone(job[i])
    => job[j].kind = "renew" /\ (job[i].staging => job[j].at = "attempt")

\* The files of a host that is not raced: certificate and key belong together, and what
\* nginx would refuse is being tested or undone.
PairKept(h) ==
  /\ (\A j \in On(h) : job[j].at # "key") => pem[h] = key[h]
  /\ \A j \in On(h) : job[j].at = "key" => pem[h] = job[j].cert
FileKept(h) ==
  ~fallback =>
    /\ (\A j \in On(h) : job[j].at \notin {"test", "undo"}) => file[h].ok
    /\ \A j \in On(h) : job[j].at \in {"test", "undo"} => job[j].kept.ok

\* What it serves: a host without an error is as it was saved, and an issue keeps it so.
AsSaved(h) == file[h].n = row[h].n /\ (TakenUp => loaded[h].conf.n = row[h].n)
GoneClean(h) ==
  /\ row[h] = Gone => file[h] = NoFile /\ \A j \in On(h) : job[j].kind = "renew"
  /\ \A j \in On(h) : job[j].at = "delete" => file[h] = NoFile
ServedSoFar(h) ==
  row[h] # Gone =>
    /\ ~row[h].error /\ (\A j \in On(h) : job[j].kind \notin {"deploy", "remove"}) => AsSaved(h)
    /\ \A j \in On(h) :
         /\ job[j].kind = "issue" => job[j].conf.n = row[h].n
         /\ job[j].kind = "deploy" /\ job[j].at # "read" => job[j].conf.n = row[h].n
         /\ job[j].kind = "issue" /\ job[j].at \in {"test", "undo"} /\ ~row[h].error => job[j].kept.n = row[h].n
         /\ job[j].at \in {"test", "reload"} => file[h].n = job[j].conf.n
         /\ job[j].kind = "deploy" /\ job[j].at = "good" => AsSaved(h)
HostKept(h) == PairKept(h) /\ FileKept(h) /\ GoneClean(h) /\ ServedSoFar(h)
HostsKept == \A h \in Hosts \ raced : HostKept(h)

EdgeInv == EdgeTypes /\ JobsFit /\ Counted /\ CertsNamed /\ Throttled /\ JobsApart /\ HostsKept

LEMMA EdgeNumbers == MaxRequests \in Nat /\ MaxOrders \in Nat /\ MaxRestarts \in Nat
BY HostsAssumption

LEMMA EdgeEmpty ==
  /\ NoFile \in Files /\ NoFile.n = 0 /\ NoFile.ok /\ ~NoFile.tls
  /\ Idle.kind = "none" /\ Gone.is = "gone"
  /\ \A c \in JobType : c # Idle
  /\ NothingServed \in [Hosts -> [conf : Files, cert : 0..MaxOrders]]
  /\ \A h \in Hosts : NothingServed[h].conf = NoFile
<1>1. NoFile \in Files /\ NoFile.n = 0 /\ NoFile.ok /\ ~NoFile.tls
  BY EdgeNumbers DEF NoFile, Conf, Files
<1>2. Idle.kind = "none" /\ Gone.is = "gone"
  BY DEF Idle, Gone
<1>3. \A c \in JobType : c # Idle
  BY <1>2 DEF JobType, AtWork
<1>4. [conf |-> NoFile, cert |-> 0] \in [conf : Files, cert : 0..MaxOrders]
  BY <1>1, EdgeNumbers
<1>. QED  BY <1>1, <1>2, <1>3, <1>4 DEF NothingServed

\* A row that is there, and what a job at work holds
RowType == [is : {"row"}, n : 1..MaxRequests, ok : BOOLEAN, cert : 0..MaxOrders, error : BOOLEAN,
            enabled : BOOLEAN]
LEMMA EdgeRows ==
  ASSUME NEW r \in Rows
  PROVE  /\ r # Gone => r \in RowType
         /\ r \in RowType => r # Gone /\ r.n \in 1..MaxRequests /\ r.ok \in BOOLEAN /\ r.cert \in 0..MaxOrders /\ r.error \in BOOLEAN
                            /\ r.enabled \in BOOLEAN
BY EdgeEmpty DEF Rows, RowType, Gone

LEMMA EdgeJobs ==
  ASSUME JobsFit, NEW j \in Jobs, job[j] # Idle
  PROVE  /\ job[j] \in JobType /\ JobFits(job[j])
         /\ job[j].kind \in AtWork /\ job[j].host \in Hosts /\ job[j].at \in Steps /\ job[j].staging \in BOOLEAN
         /\ job[j].todo \subseteq Hosts /\ job[j].conf \in Files /\ job[j].kept \in Files /\ job[j].cert \in 0..MaxOrders
<1>1. job[j] \in JobType
  BY DEF JobsFit
<1>. QED  BY <1>1 DEF JobsFit, JobType

\* How a job changes: it takes a step, is over, or turns to the next host.
Same(d, c) == d.kind = c.kind /\ d.host = c.host /\ d.staging = c.staging /\ d.conf = c.conf /\ d.kept = c.kept
Shifted(d, c) == Same(d, c) /\ d.cert = c.cert
Others(j) == \A i \in Jobs \ {j} : job'[i] = job[i]
JobTypes == job' \in [Jobs -> JobType \cup {Idle}]
NextRenewal(d) == d \in JobType /\ d.kind = "renew" /\ d.at = "attempt" /\ ~d.staging

LEMMA GoMoves ==
  ASSUME JobsFit, NEW j \in Jobs, job[j] # Idle, NEW s \in Steps, Go(j, s)
  PROVE  JobTypes /\ Others(j) /\ job'[j] \in JobType /\ Shifted(job'[j], job[j]) /\ job'[j].at = s
<1> DEFINE c == [job[j] EXCEPT !.at = s]
<1>1. job[j] \in JobType
  BY EdgeJobs
<1>2. c \in JobType /\ Shifted(c, job[j]) /\ c.at = s
  BY <1>1 DEF JobType, Shifted, Same
<1>3. job' = [job EXCEPT ![j] = c]
  BY DEF Go
<1>. HIDE DEF c
<1>. QED  BY <1>2, <1>3 DEF JobsFit, JobTypes, Others

LEMMA OverMoves ==
  ASSUME JobsFit, NEW j \in Jobs, job[j] # Idle, Over(j)
  PROVE  JobTypes /\ Others(j) /\ (job'[j] = Idle \/ (job[j].kind = "renew" /\ NextRenewal(job'[j])))
<1>1. job[j] \in JobType /\ JobFits(job[j]) /\ job[j].todo \subseteq Hosts
  BY EdgeJobs
<1>2. CASE job[j].kind = "renew" /\ job[j].todo # {}
  <2>1. PICK h \in job[j].todo : job' = [job EXCEPT ![j].host = h, ![j].todo = @ \ {h}, ![j].at = "attempt"]
    BY <1>2 DEF Over
  <2> DEFINE c == [job[j] EXCEPT !.host = h, !.todo = @ \ {h}, !.at = "attempt"]
  <2>2. h \in Hosts /\ job[j].todo \ {h} \in SUBSET Hosts /\ "attempt" \in Steps
    BY <1>1, <2>1 DEF Steps
  <2>3. c \in JobType /\ c.kind = job[j].kind /\ c.at = "attempt" /\ c.staging = job[j].staging
    BY <1>1, <2>2 DEF JobType
  <2>4. job' = [job EXCEPT ![j] = c]
    BY <2>1
  <2>5. ~job[j].staging
    BY <1>1, <1>2 DEF JobFits
  <2>. HIDE DEF c
  <2>. QED  BY <1>2, <2>3, <2>4, <2>5 DEF JobsFit, JobTypes, Others, NextRenewal
<1>3. CASE ~(job[j].kind = "renew" /\ job[j].todo # {})
  BY <1>3 DEF Over, JobsFit, JobTypes, Others
<1>. QED  BY <1>2, <1>3

LEMMA IdleMoves ==
  ASSUME JobsFit, NEW j \in Jobs, job' = [job EXCEPT ![j] = Idle]
  PROVE  JobTypes /\ Others(j) /\ job'[j] = Idle
BY DEF JobsFit, JobTypes, Others

LEMMA FitAfter ==
  ASSUME JobsFit, NEW j \in Jobs, JobTypes, Others(j), job'[j] # Idle => JobFits(job'[j])
  PROVE  JobsFit'
BY DEF JobsFit, JobTypes, Others

LEMMA RenewalFits == ASSUME NEW d, NextRenewal(d) PROVE JobFits(d)
BY DEF NextRenewal, JobFits

\* A request or a renewal begins with these.
LEMMA BeginMoves ==
  ASSUME JobsFit, NEW j \in Jobs, NEW kind \in AtWork, NEW h \in Hosts, NEW s \in Steps, Begin(j, kind, h, s)
  PROVE  JobTypes /\ Others(j) /\ job'[j] \in JobType
         /\ job'[j].kind = kind /\ job'[j].host = h /\ job'[j].at = s /\ ~job'[j].staging
<1> DEFINE c == [kind |-> kind, host |-> h, at |-> s, staging |-> FALSE, todo |-> {}, conf |-> NoFile, kept |-> NoFile, cert |-> 0]
<1>1. c \in JobType /\ c.kind = kind /\ c.host = h /\ c.at = s /\ ~c.staging
  BY EdgeEmpty, EdgeNumbers DEF JobType
<1>2. job' = [job EXCEPT ![j] = c]
  BY DEF Begin
<1>. HIDE DEF c
<1>. QED  BY <1>1, <1>2 DEF JobsFit, JobTypes, Others

LEMMA IssueMoves ==
  ASSUME JobsFit, NEW j \in Jobs, NEW h \in Hosts, NEW staging \in BOOLEAN, row[h] \in RowType, Issue(j, h, staging)
  PROVE  JobTypes /\ Others(j) /\ job'[j] \in JobType
         /\ job'[j].kind = "issue" /\ job'[j].host = h /\ job'[j].at = "attempt" /\ job'[j].staging = staging
         /\ job'[j].conf.n = row[h].n
<1> DEFINE f == Rendered(row[h], TRUE)
<1>1. f \in Files /\ f.n = row[h].n
  <2>1. row[h].n \in 1..MaxRequests /\ row[h].ok \in BOOLEAN
    BY DEF RowType
  <2>2. row[h].n \in 0..MaxRequests
    BY <2>1, EdgeNumbers
  <2>. QED  BY <2>1, <2>2 DEF Rendered, Conf, Files
<1> HIDE DEF f
<1> DEFINE c == [kind |-> "issue", host |-> h, at |-> "attempt", staging |-> staging, todo |-> {}, conf |-> f, kept |-> NoFile, cert |-> 0]
<1>2. c \in JobType /\ c.kind = "issue" /\ c.host = h /\ c.at = "attempt" /\ c.staging = staging /\ c.conf = f
  BY <1>1, EdgeEmpty, EdgeNumbers DEF JobType, AtWork, Steps
<1>3. job' = [job EXCEPT ![j] = c]
  BY DEF Issue, f
<1>. HIDE DEF c
<1>. QED  BY <1>1, <1>2, <1>3 DEF JobsFit, JobTypes, Others

LEMMA RenewalMoves ==
  ASSUME JobsFit, NEW j \in Jobs, CheckAllCerts(j)
  PROVE  JobTypes /\ Others(j) /\ NextRenewal(job'[j]) /\ job[j] = Idle
<1> DEFINE due == {h \in Hosts : row[h] # Gone /\ row[h].cert \in aged}
<1>1. PICK h \in due : job' = [job EXCEPT ![j] =
          [kind |-> "renew", host |-> h, at |-> "attempt", staging |-> FALSE, todo |-> due \ {h},
           conf |-> NoFile, kept |-> NoFile, cert |-> 0]]
  BY DEF CheckAllCerts
<1>2. h \in Hosts /\ due \ {h} \in SUBSET Hosts
  BY <1>1
<1> HIDE DEF due
<1> DEFINE c == [kind |-> "renew", host |-> h, at |-> "attempt", staging |-> FALSE, todo |-> due \ {h},
           conf |-> NoFile, kept |-> NoFile, cert |-> 0]
<1>3. NextRenewal(c)
  BY <1>2, EdgeEmpty, EdgeNumbers DEF NextRenewal, JobType, AtWork, Steps
<1>4. job' = [job EXCEPT ![j] = c]
  BY <1>1
<1>5. c \in JobType
  BY <1>3 DEF NextRenewal
<1>. HIDE DEF c
<1>. QED  BY <1>3, <1>4, <1>5 DEF JobsFit, JobTypes, Others, CheckAllCerts, Free

\* The steps that also keep something in the job
LEMMA OrderMoves ==
  ASSUME JobsFit, NEW j \in Jobs, job[j] # Idle, NEW n \in 0..MaxOrders, job' = [job EXCEPT ![j].at = "proof", ![j].cert = n]
  PROVE  JobTypes /\ Others(j) /\ job'[j] \in JobType /\ Same(job'[j], job[j])
         /\ job'[j].at = "proof" /\ job'[j].cert = n
<1> DEFINE c == [job[j] EXCEPT !.at = "proof", !.cert = n]
<1>1. job[j] \in JobType /\ "proof" \in Steps
  BY EdgeJobs DEF Steps
<1>2. c \in JobType /\ Same(c, job[j]) /\ c.at = "proof" /\ c.cert = n
  BY <1>1 DEF JobType, Same
<1>3. job' = [job EXCEPT ![j] = c]
  OBVIOUS
<1>. HIDE DEF c
<1>. QED  BY <1>2, <1>3 DEF JobsFit, JobTypes, Others

LEMMA ReadMoves ==
  ASSUME JobsFit, NEW j \in Jobs, job[j] # Idle, NEW f \in Files, job' = [job EXCEPT ![j].at = "put", ![j].conf = f]
  PROVE  JobTypes /\ Others(j) /\ job'[j] \in JobType /\ job'[j].at = "put" /\ job'[j].conf = f
         /\ job'[j].kind = job[j].kind /\ job'[j].host = job[j].host /\ job'[j].staging = job[j].staging
<1> DEFINE c == [job[j] EXCEPT !.at = "put", !.conf = f]
<1>1. job[j] \in JobType /\ "put" \in Steps
  BY EdgeJobs DEF Steps
<1>2. /\ c \in JobType /\ c.at = "put" /\ c.conf = f
      /\ c.kind = job[j].kind /\ c.host = job[j].host /\ c.staging = job[j].staging
  BY <1>1 DEF JobType
<1>3. job' = [job EXCEPT ![j] = c]
  OBVIOUS
<1>. HIDE DEF c
<1>. QED  BY <1>2, <1>3 DEF JobsFit, JobTypes, Others

LEMMA KeepMoves ==
  ASSUME JobsFit, NEW j \in Jobs, job[j] # Idle, NEW s \in Steps, NEW f \in Files,
         job' = [job EXCEPT ![j].at = s, ![j].kept = f]
  PROVE  JobTypes /\ Others(j) /\ job'[j] \in JobType /\ job'[j].at = s /\ job'[j].kept = f
         /\ job'[j].kind = job[j].kind /\ job'[j].host = job[j].host /\ job'[j].staging = job[j].staging
         /\ job'[j].conf = job[j].conf
<1> DEFINE c == [job[j] EXCEPT !.at = s, !.kept = f]
<1>1. job[j] \in JobType
  BY EdgeJobs
<1>2. /\ c \in JobType /\ c.at = s /\ c.kept = f
      /\ c.kind = job[j].kind /\ c.host = job[j].host /\ c.staging = job[j].staging /\ c.conf = job[j].conf
  BY <1>1 DEF JobType
<1>3. job' = [job EXCEPT ![j] = c]
  OBVIOUS
<1>. HIDE DEF c
<1>. QED  BY <1>2, <1>3 DEF JobsFit, JobTypes, Others

LEMMA ApartKept ==
  ASSUME JobsApart, NEW j \in Jobs, Others(j), raced \subseteq raced',
         \/ job'[j] = Idle
         \/ NextRenewal(job'[j])
         \/ /\ job[j] # Idle /\ job[j].at # "attempt"
            /\ job'[j].kind = job[j].kind /\ job'[j].host = job[j].host /\ job'[j].staging = job[j].staging
  PROVE  JobsApart'
BY EdgeEmpty DEF JobsApart, Others, Alone, NextRenewal

LEMMA ApartBegins ==
  ASSUME JobsApart, NEW j \in Jobs, Others(j), job[j] = Idle, NEW h \in Hosts, job'[j].host = h, raced' = Meets(h)
  PROVE  JobsApart'
<1>1. raced \subseteq raced'
  BY DEF Meets
<1>2. ASSUME NEW i \in Jobs, i # j, job[i] # Idle, job[i].host = h, h \notin raced' PROVE FALSE
  BY <1>2 DEF Meets, On
<1>. QED  BY <1>1, <1>2 DEF JobsApart, Others, Alone

LEMMA ThrottleKept ==
  ASSUME Throttled, NEW j \in Jobs, Others(j), tried' = tried, spent' = spent,
         PastAttempt(j)' => PastAttempt(j) /\ job'[j].host = job[j].host /\ job'[j].at # "order"
  PROVE  Throttled'
BY DEF Throttled, Others, PastAttempt, IsCertifying

LEMMA NamedKept ==
  ASSUME CertsNamed, JobsFit, NEW j \in Jobs, Others(j), \A h \in Hosts : pem[h] # 0 => pem'[h] # 0,
         \A h \in Hosts : file'[h] = file[h] \/ (file'[h].tls => pem'[h] # 0),
         job'[j] # Idle => Named(job[j])'
  PROVE  CertsNamed'
<1>1. \A h \in Hosts : file'[h].tls => pem'[h] # 0
  BY DEF CertsNamed
<1>2. ASSUME NEW i \in Jobs, job'[i] # Idle, i # j PROVE Named(job[i])'
  <2>0. job'[i] = job[i] /\ job[i] # Idle
    BY <1>2 DEF Others
  <2>1. job[i].host \in Hosts /\ Named(job[i])
    BY <2>0, EdgeJobs DEF CertsNamed
  <2>. QED  BY <2>0, <2>1 DEF Named
<1>. QED  BY <1>1, <1>2 DEF CertsNamed

\* On a host that is not raced one job at most has to do with its file, and one with its
\* certificate.
LEMMA SoleWriter ==
  ASSUME JobsFit, JobsApart, Throttled, NEW h \in Hosts \ raced, NEW j \in On(h), job[j].kind # "renew", job[j].at # "attempt"
  PROVE  \A i \in On(h) \ {j} : job[i].kind = "renew" \/ (job[i].kind = "issue" /\ job[i].at = "attempt")
<1>. SUFFICES ASSUME NEW i \in On(h) \ {j}, job[i].kind # "renew" PROVE job[i].kind = "issue" /\ job[i].at = "attempt"
  OBVIOUS
<1>1. i \in Jobs /\ j \in Jobs /\ i # j /\ job[i] # Idle /\ job[j] # Idle /\ job[i].host = h /\ job[j].host = h
  BY DEF On
<1>2. ~Alone(job[i]) /\ ~Alone(job[j])
  BY <1>1 DEF JobsApart
<1>3. job[i].kind = "issue" /\ job[j].kind = "issue"
  BY <1>1, <1>2, EdgeJobs DEF AtWork, Alone
<1>. QED  BY <1>1, <1>2, <1>3 DEF Throttled, PastAttempt, IsCertifying, Alone

LEMMA SoleCertifier ==
  ASSUME JobsFit, JobsApart, Throttled, NEW h \in Hosts \ raced, NEW j \in On(h), job[j].kind \in {"issue", "renew"}, job[j].at # "attempt"
  PROVE  \A i \in On(h) \ {j} : job[i].kind \in {"deploy", "remove"} \/ job[i].at = "attempt"
<1>. SUFFICES ASSUME NEW i \in On(h) \ {j}, job[i].kind \notin {"deploy", "remove"} PROVE job[i].at = "attempt"
  OBVIOUS
<1>1. i \in Jobs /\ j \in Jobs /\ i # j /\ job[i] # Idle /\ job[j] # Idle /\ job[i].host = h /\ job[j].host = h
  BY DEF On
<1>2. job[i].kind \in {"issue", "renew"} /\ JobFits(job[i]) /\ JobFits(job[j])
  BY <1>1, EdgeJobs DEF AtWork
<1>3. CASE job[i].staging \/ job[j].staging
  BY <1>1, <1>2, <1>3 DEF JobsApart, Alone, JobFits
<1>4. CASE ~job[i].staging /\ ~job[j].staging
  BY <1>1, <1>2, <1>4 DEF Throttled, PastAttempt, IsCertifying
<1>. QED  BY <1>3, <1>4

\* What a step leaves alone of a host: the job comes, goes or orders there, or is elsewhere.
Away(i, h) == job[i] = Idle \/ job[i].host # h
Passing(c) == c.kind \in {"issue", "renew"} /\ c.at \notin {"test", "undo", "reload", "delete"}
Waiting(c) == Passing(c) /\ c.at # "key"
Quiet(i, h) ==
  \/ job'[i] = job[i]
  \/ /\ Away(i, h) \/ Passing(job[i])
     /\ Away(i, h)' \/ NextRenewal(job'[i]) \/ (~Away(i, h) /\ Same(job'[i], job[i]) /\ Passing(job'[i]))
RowKept(h) == /\ row'[h] = Gone <=> row[h] = Gone
              /\ row[h] # Gone => row'[h].n = row[h].n /\ row'[h].error = row[h].error

LEMMA ServiceUntouched ==
  ASSUME NEW h \in Hosts, HostKept(h), RowKept(h), file'[h] = file[h], fallback' = fallback,
         TakenUp' => (TakenUp /\ loaded'[h] = loaded[h]) \/ loaded'[h].conf = file[h],
         \A i \in Jobs : Quiet(i, h)
  PROVE  FileKept(h)' /\ GoneClean(h)' /\ ServedSoFar(h)'
<1>1. ASSUME NEW i \in Jobs, i \in On(h)', i \notin On(h) PROVE NextRenewal(job'[i])
  BY <1>1 DEF On, Quiet, Away
<1>2. ASSUME NEW i \in Jobs, i \in On(h), i \notin On(h)' PROVE Passing(job[i])
  BY <1>2 DEF On, Quiet, Away
<1>3. ASSUME NEW i \in Jobs, i \in On(h)', i \in On(h)
      PROVE  \/ job'[i] = job[i]
             \/ Passing(job[i]) /\ (NextRenewal(job'[i]) \/ (Same(job'[i], job[i]) /\ Passing(job'[i])))
  BY <1>3 DEF On, Quiet, Away
<1>4. On(h) \subseteq Jobs /\ On(h)' \subseteq Jobs
  BY DEF On
<1>6. FileKept(h)'
  BY <1>1, <1>2, <1>3, <1>4 DEF HostKept, FileKept, Passing, NextRenewal, Same
<1>7. GoneClean(h)'
  BY <1>1, <1>2, <1>3, <1>4 DEF HostKept, GoneClean, Passing, NextRenewal, Same, RowKept
<1>8. ServedSoFar(h)'
  <2>. SUFFICES ASSUME row[h] # Gone PROVE ServedSoFar(h)'
    BY DEF RowKept, ServedSoFar
  <2>1. AsSaved(h) => AsSaved(h)'
    BY DEF AsSaved, TakenUp, RowKept
  <2>2. ~row'[h].error /\ (\A i \in On(h)' : job'[i].kind \notin {"deploy", "remove"}) => AsSaved(h)'
    BY <1>1, <1>2, <1>3, <1>4, <2>1 DEF HostKept, ServedSoFar, Passing, NextRenewal, Same, RowKept
  <2>3. ASSUME NEW i \in On(h)'
        PROVE  /\ job'[i].kind = "issue" => job'[i].conf.n = row'[h].n
               /\ job'[i].kind = "deploy" /\ job'[i].at # "read" => job'[i].conf.n = row'[h].n
               /\ job'[i].kind = "issue" /\ job'[i].at \in {"test", "undo"} /\ ~row'[h].error => job'[i].kept.n = row'[h].n
               /\ job'[i].at \in {"test", "reload"} => file'[h].n = job'[i].conf.n
               /\ job'[i].kind = "deploy" /\ job'[i].at = "good" => AsSaved(h)'
    BY <1>1, <1>3, <1>4, <2>1, <2>3 DEF HostKept, ServedSoFar, Passing, NextRenewal, Same, RowKept
  <2>. QED  BY <2>2, <2>3 DEF ServedSoFar
<1>. QED  BY <1>6, <1>7, <1>8

LEMMA HostUntouched ==
  ASSUME NEW h \in Hosts, HostKept(h), RowKept(h), file'[h] = file[h], pem'[h] = pem[h], key'[h] = key[h], fallback' = fallback,
         TakenUp' => (TakenUp /\ loaded'[h] = loaded[h]) \/ loaded'[h].conf = file[h],
         \A i \in Jobs : Quiet(i, h),
         \A i \in On(h) : job'[i] = job[i] \/ job[i].at # "key",
         \A i \in On(h)' : job'[i] = job[i] \/ job'[i].at # "key"
  PROVE  HostKept(h)'
<1>1. PairKept(h)
  BY DEF HostKept
<1>2. \A i \in Jobs : job'[i] = job[i] => (i \in On(h)' <=> i \in On(h))
  BY DEF On
<1>3. On(h) \subseteq Jobs /\ On(h)' \subseteq Jobs
  BY DEF On
<1>4. PairKept(h)'
  <2>1. CASE \A i \in On(h) : job[i].at # "key"
    BY <1>1, <1>2, <1>3, <2>1 DEF PairKept
  <2>2. CASE \E i \in On(h) : job[i].at = "key"
    BY <1>1, <1>2, <1>3, <2>2 DEF PairKept
  <2>. QED  BY <2>1, <2>2
<1>. QED  BY <1>4, ServiceUntouched DEF HostKept, TakenUp

LEMMA QuietKept ==
  ASSUME HostsKept, NEW j \in Jobs, Others(j), raced \subseteq raced', \A h \in Hosts : RowKept(h), UNCHANGED <<edge, pem, key>>,
         job[j] = Idle \/ Waiting(job[j]),
         job'[j] = Idle \/ NextRenewal(job'[j]) \/ (job[j] # Idle /\ job'[j] # Idle /\ Same(job'[j], job[j]) /\ Waiting(job'[j]))
  PROVE  HostsKept'
<1>1. ASSUME NEW h \in Hosts, NEW i \in Jobs PROVE Quiet(i, h)
  <2>1. CASE i # j
    BY <2>1 DEF Quiet, Others
  <2>2. CASE i = j
    BY <2>2, EdgeEmpty DEF Quiet, Away, Same, Waiting
  <2>. QED  BY <2>1, <2>2
<1>2. ASSUME NEW h \in Hosts
      PROVE  /\ \A i \in On(h) : job'[i] = job[i] \/ job[i].at # "key"
             /\ \A i \in On(h)' : job'[i] = job[i] \/ job'[i].at # "key"
  BY DEF On, Others, Waiting, NextRenewal
<1>3. ASSUME NEW h \in Hosts \ raced' PROVE HostKept(h)'
  <2>1. HostKept(h)
    BY <1>3 DEF HostsKept
  <2>. QED  BY <1>1, <1>2, <2>1, HostUntouched DEF edge, nginx, TakenUp
<1>. QED  BY <1>3 DEF HostsKept

LEMMA NextRenewals == ASSUME NEW d, NextRenewal(d) PROVE d # Idle /\ d.at = "attempt" /\ d.kind = "renew" /\ JobFits(d)
BY EdgeEmpty, RenewalFits DEF NextRenewal

\* An attempt, an order that is not placed, and the orders themselves
LEMMA AttemptKeeps == ASSUME EdgeInv, NEW j \in Jobs, Attempt(j) PROVE EdgeInv'
<1> DEFINE h == job[j].host
<1>1. /\ job[j] # Idle /\ job[j] \in JobType /\ JobFits(job[j]) /\ h \in Hosts /\ job[j].at = "attempt" /\ job[j].kind \in {"issue", "renew"}
      /\ UNCHANGED <<row, edge, pem, key, spent, txt, orders, world>>
  BY EdgeJobs DEF EdgeInv, Attempt, At, JobFits, Placing, AtWork
<1>2. CASE Over(j) /\ UNCHANGED <<tried, raced>>
  <2>1. JobTypes /\ Others(j) /\ (job'[j] = Idle \/ NextRenewal(job'[j]))
    BY <1>1, <1>2, OverMoves DEF EdgeInv
  <2>2. EdgeTypes' /\ Counted'
    BY <1>1, <1>2 DEF EdgeInv, EdgeTypes, Counted, edge, nginx, world
  <2>3. JobsFit'
    BY <2>1, FitAfter, NextRenewals DEF EdgeInv
  <2>4. CertsNamed'
    BY <1>1, <2>1, NamedKept, NextRenewals DEF EdgeInv, Named, edge, nginx
  <2>5. Throttled'
    BY <1>1, <1>2, <2>1, ThrottleKept, NextRenewals DEF EdgeInv, PastAttempt
  <2>6. JobsApart'
    BY <1>2, <2>1, ApartKept DEF EdgeInv
  <2>7. HostsKept'
    BY <1>1, <1>2, <2>1, QuietKept DEF EdgeInv, RowKept, Waiting, Passing
  <2>. QED  BY <2>2, <2>3, <2>4, <2>5, <2>6, <2>7 DEF EdgeInv
<1>3. CASE ~(Over(j) /\ UNCHANGED <<tried, raced>>)
  <2>1. /\ ~(~job[j].staging /\ h \in tried) /\ Go(j, "order")
        /\ tried' = IF job[j].staging THEN tried ELSE tried \union {h}
        /\ raced' = IF \E i \in On(h) \ {j} : job[i].staging THEN raced \union {h} ELSE raced
    BY <1>3 DEF Attempt
  <2>2. JobTypes /\ Others(j) /\ job'[j] \in JobType /\ Shifted(job'[j], job[j]) /\ job'[j].at = "order"
    BY <1>1, <2>1, GoMoves DEF EdgeInv, Steps
  <2>3. job'[j].kind = job[j].kind /\ job'[j].host = h /\ job'[j].staging = job[j].staging /\ Same(job'[j], job[j]) /\ job'[j] # Idle
    BY <2>2, EdgeEmpty DEF Shifted, Same
  <2>4. EdgeTypes' /\ Counted'
    BY <1>1, <2>1 DEF EdgeInv, EdgeTypes, Counted, edge, nginx, world
  <2>5. JobsFit'
    BY <1>1, <2>2, <2>3, FitAfter DEF EdgeInv, JobFits, Ordering
  <2>6. CertsNamed'
    BY <1>1, <2>2, NamedKept DEF EdgeInv, Named, edge, nginx
  <2>7. Throttled'
    <3>1. CASE job[j].staging
      BY <1>1, <2>1, <2>2, <2>3, <3>1, ThrottleKept DEF EdgeInv, PastAttempt, IsCertifying
    <3>2. CASE ~job[j].staging
      <4>1. h \notin tried /\ tried' = tried \union {h} /\ spent' = spent
        BY <1>1, <2>1, <3>2
      <4>2. \A i \in Jobs : PastAttempt(i) => job[i].host # h
        BY <4>1 DEF EdgeInv, Throttled
      <4>3. \A i \in Jobs \ {j} : PastAttempt(i)' => PastAttempt(i) /\ job'[i] = job[i]
        BY <2>2 DEF Others, PastAttempt
      <4>4. \A g \in Hosts : spent'[g] <= 1 /\ (g \notin tried' => spent'[g] = 0)
        BY <4>1 DEF EdgeInv, Throttled
      <4>5. spent'[h] = 0 /\ h \in tried'
        BY <1>1, <4>1 DEF EdgeInv, Throttled
      <4>6. ASSUME NEW i \in Jobs, PastAttempt(i)'
            PROVE  job'[i].host \in tried' /\ (job'[i].at = "order" => spent'[job'[i].host] = 0)
        <5>1. CASE i = j
          BY <2>3, <4>5, <5>1
        <5>2. CASE i # j
          <6>1. PastAttempt(i) /\ job'[i] = job[i]
            BY <4>3, <4>6, <5>2
          <6>. QED  BY <4>1, <6>1 DEF EdgeInv, Throttled
        <5>. QED  BY <5>1, <5>2
      <4>7. ASSUME NEW i \in Jobs, NEW k \in Jobs, PastAttempt(i)', PastAttempt(k)', job'[i].host = job'[k].host PROVE i = k
        <5>1. CASE i # j /\ k # j
          BY <4>3, <4>7, <5>1 DEF EdgeInv, Throttled
        <5>2. CASE i = j \/ k = j
          BY <2>3, <4>2, <4>3, <4>7, <5>2
        <5>. QED  BY <5>1, <5>2
      <4>. QED  BY <4>4, <4>6, <4>7 DEF Throttled
    <3>. QED  BY <3>1, <3>2
  <2>8. JobsApart'
    <3>1. \A i \in Jobs \ {j} : job'[i] = job[i]
      BY <2>2 DEF Others
    <3>2. raced \subseteq raced' /\ \A i \in Jobs \ {j} : job[i] # Idle /\ job[i].host = h /\ job[i].staging => h \in raced'
      BY <2>1 DEF On
    <3>. QED  BY <1>1, <2>3, <3>1, <3>2 DEF EdgeInv, JobsApart, Alone
  <2>9. raced \subseteq raced'
    BY <2>1
  <2>10. HostsKept'
    BY <1>1, <2>2, <2>3, <2>9, QuietKept DEF EdgeInv, RowKept, Waiting, Passing
  <2>. QED  BY <2>4, <2>5, <2>6, <2>7, <2>8, <2>10 DEF EdgeInv
<1>. QED  BY <1>2, <1>3

LEMMA NoOrderKeeps == ASSUME EdgeInv, NEW j \in Jobs, NoOrder(j) PROVE EdgeInv'
<1>1. /\ job[j] # Idle /\ job[j] \in JobType /\ JobFits(job[j]) /\ job[j].at = "order" /\ job[j].kind \in {"issue", "renew"}
      /\ UNCHANGED <<row, edge, acme, world, raced>> /\ Over(j)
  BY EdgeJobs DEF EdgeInv, NoOrder, At, JobFits, Placing, AtWork
<1>2. JobTypes /\ Others(j) /\ (job'[j] = Idle \/ NextRenewal(job'[j]))
  BY <1>1, OverMoves DEF EdgeInv
<1>3. EdgeTypes' /\ Counted'
  BY <1>1 DEF EdgeInv, EdgeTypes, Counted, edge, nginx, world, acme
<1>4. JobsFit'
  BY <1>2, FitAfter, NextRenewals DEF EdgeInv
<1>5. CertsNamed'
  BY <1>1, <1>2, NamedKept, NextRenewals DEF EdgeInv, Named, edge, nginx, acme
<1>6. Throttled'
  BY <1>1, <1>2, ThrottleKept, NextRenewals DEF EdgeInv, PastAttempt, acme
<1>7. JobsApart'
  BY <1>1, <1>2, ApartKept DEF EdgeInv
<1>8. HostsKept'
  BY <1>1, <1>2, QuietKept DEF EdgeInv, RowKept, Waiting, Passing, acme
<1>. QED  BY <1>3, <1>4, <1>5, <1>6, <1>7, <1>8 DEF EdgeInv

LEMMA OrderKeeps == ASSUME EdgeInv, NEW j \in Jobs, Order(j) PROVE EdgeInv'
<1> DEFINE h == job[j].host
<1>1. /\ job[j] # Idle /\ job[j] \in JobType /\ JobFits(job[j]) /\ h \in Hosts /\ job[j].at = "order" /\ job[j].kind \in {"issue", "renew"}
      /\ UNCHANGED <<row, edge, pem, key, tried, world, raced>>
      /\ orders < MaxOrders /\ orders' = orders + 1
      /\ spent' = IF job[j].staging THEN spent ELSE [spent EXCEPT ![h] = @ + 1]
  BY EdgeJobs DEF EdgeInv, Order, At, JobFits, Placing, AtWork
<1>2. orders \in 0..MaxOrders /\ orders' \in 0..MaxOrders /\ orders' \in 1..MaxOrders /\ 1..orders \subseteq 1..orders'
  BY <1>1, EdgeNumbers DEF EdgeInv, EdgeTypes
<1>3. \/ /\ JobTypes /\ Others(j) /\ txt' = txt
         /\ (job'[j] = Idle \/ NextRenewal(job'[j]))
      \/ /\ JobTypes /\ Others(j) /\ txt' = txt \union {j}
         /\ job'[j] # Idle /\ Same(job'[j], job[j]) /\ job'[j].at = "proof" /\ job'[j].cert = orders'
  <2>1. CASE Over(j) /\ UNCHANGED txt
    BY <1>1, <2>1, OverMoves DEF EdgeInv
  <2>2. CASE txt' = txt \union {j} /\ job' = [job EXCEPT ![j].at = "proof", ![j].cert = orders + 1]
    BY <1>1, <1>2, <2>2, OrderMoves, EdgeEmpty DEF EdgeInv
  <2>. QED  BY <2>1, <2>2 DEF Order
<1>4. JobTypes /\ Others(j)
  BY <1>3
<1>5. ~job[j].staging => spent[h] = 0
  BY <1>1 DEF EdgeInv, Throttled, PastAttempt, IsCertifying
<1>6. \A g \in Hosts : /\ spent'[g] <= 1 /\ spent'[g] \in 0..MaxOrders
                       /\ spent'[g] # spent[g] => g = h /\ ~job[j].staging
  BY <1>1, <1>2, <1>5, EdgeNumbers DEF EdgeInv, EdgeTypes, Throttled
<1>7. spent' \in [Hosts -> 0..MaxOrders]
  BY <1>1, <1>6 DEF EdgeInv, EdgeTypes
<1>8. EdgeTypes' /\ Counted'
  BY <1>1, <1>2, <1>3, <1>7 DEF EdgeInv, EdgeTypes, Counted, edge, nginx, world
<1>9. JobsFit'
  <2>1. job'[j] # Idle => JobFits(job'[j])
    BY <1>1, <1>2, <1>3, NextRenewals DEF JobFits, Ordering, Same
  <2>. QED  BY <1>4, <2>1, FitAfter DEF EdgeInv
<1>10. CertsNamed'
  <2>1. job'[j] # Idle => Named(job[j])'
    BY <1>3, NextRenewals DEF Named
  <2>. QED  BY <1>1, <1>4, <2>1, NamedKept DEF EdgeInv, edge, nginx
<1>11. Throttled'
  <2>1. ~job[j].staging => PastAttempt(j)
    BY <1>1 DEF PastAttempt, IsCertifying
  <2>2. PastAttempt(j)' => PastAttempt(j) /\ job'[j].host = h /\ job'[j].at # "order"
    BY <1>1, <1>3, NextRenewals DEF PastAttempt, IsCertifying, Same
  <2>3. \A i \in Jobs \ {j} : job'[i] = job[i] /\ (PastAttempt(i)' <=> PastAttempt(i))
    BY <1>4 DEF Others, PastAttempt
  <2>4. \A g \in Hosts : spent'[g] <= 1 /\ (g \notin tried' => spent'[g] = 0)
    BY <1>1, <1>6, <2>1 DEF EdgeInv, Throttled
  <2>5. ASSUME NEW i \in Jobs, PastAttempt(i)'
        PROVE  job'[i].host \in tried' /\ (job'[i].at = "order" => spent'[job'[i].host] = 0)
    <3>1. CASE i = j
      BY <1>1, <2>2, <2>5, <3>1 DEF EdgeInv, Throttled
    <3>2. CASE i # j
      <4>1. job'[i] = job[i] /\ PastAttempt(i) /\ job[i].host \in Hosts
        BY <2>3, <2>5, <3>2, EdgeJobs DEF EdgeInv, PastAttempt
      <4>2. ~job[j].staging => job[i].host # h
        BY <2>1, <3>2, <4>1 DEF EdgeInv, Throttled
      <4>. QED  BY <1>1, <1>6, <4>1, <4>2 DEF EdgeInv, Throttled
    <3>. QED  BY <3>1, <3>2
  <2>6. ASSUME NEW i \in Jobs, NEW k \in Jobs, PastAttempt(i)', PastAttempt(k)', job'[i].host = job'[k].host PROVE i = k
    <3>1. PastAttempt(i) /\ PastAttempt(k) /\ job[i].host = job[k].host
      BY <2>2, <2>3, <2>6
    <3>. QED  BY <3>1 DEF EdgeInv, Throttled
  <2>. QED  BY <2>4, <2>5, <2>6 DEF Throttled
<1>12. JobsApart'
  <2>1. \/ job'[j] = Idle
        \/ NextRenewal(job'[j])
        \/ job'[j].kind = job[j].kind /\ job'[j].host = job[j].host /\ job'[j].staging = job[j].staging
    BY <1>3 DEF Same
  <2>. QED  BY <1>1, <1>4, <2>1, ApartKept DEF EdgeInv
<1>13. HostsKept'
  <2>1. job'[j] = Idle \/ NextRenewal(job'[j]) \/ (job'[j] # Idle /\ Same(job'[j], job[j]) /\ Waiting(job'[j]))
    BY <1>1, <1>3 DEF Same, Waiting, Passing
  <2>. QED  BY <1>1, <1>4, <2>1, QuietKept DEF EdgeInv, RowKept, Waiting, Passing
<1>. QED  BY <1>8, <1>9, <1>10, <1>11, <1>12, <1>13 DEF EdgeInv

LEMMA ProofKeeps == ASSUME EdgeInv, NEW j \in Jobs, Proof(j) PROVE EdgeInv'
<1>1. /\ job[j] # Idle /\ job[j] \in JobType /\ JobFits(job[j]) /\ job[j].at = "proof" /\ job[j].kind \in {"issue", "renew"}
      /\ UNCHANGED <<row, edge, pem, key, tried, spent, orders, world, raced>>
      /\ txt' \in {txt, txt \ {j}}
  BY EdgeJobs DEF EdgeInv, Proof, At, JobFits, Placing, AtWork
<1>2. /\ JobTypes /\ Others(j)
      /\ \/ job'[j] = Idle \/ NextRenewal(job'[j])
         \/ job'[j] # Idle /\ Shifted(job'[j], job[j]) /\ job'[j].at = "pem"
  <2>1. CASE Over(j)
    BY <1>1, <2>1, OverMoves DEF EdgeInv
  <2>2. CASE Go(j, "pem")
    BY <1>1, <2>2, GoMoves, EdgeEmpty DEF EdgeInv, Steps
  <2>. QED  BY <2>1, <2>2 DEF Proof
<1>3. EdgeTypes' /\ Counted'
  BY <1>1 DEF EdgeInv, EdgeTypes, Counted, edge, nginx, world
<1>4. JobsFit'
  <2>1. job'[j] # Idle => JobFits(job'[j])
    BY <1>1, <1>2, NextRenewals DEF JobFits, Ordering, Same, Shifted
  <2>. QED  BY <1>2, <2>1, FitAfter DEF EdgeInv
<1>5. CertsNamed'
  <2>1. job'[j] # Idle => Named(job[j])'
    BY <1>2, NextRenewals DEF Named
  <2>. QED  BY <1>1, <1>2, <2>1, NamedKept DEF EdgeInv, edge, nginx
<1>6. Throttled'
  <2>1. PastAttempt(j)' => PastAttempt(j) /\ job'[j].host = job[j].host /\ job'[j].at # "order"
    BY <1>1, <1>2, NextRenewals DEF PastAttempt, IsCertifying, Same, Shifted
  <2>. QED  BY <1>1, <1>2, <2>1, ThrottleKept DEF EdgeInv
<1>7. JobsApart'
  BY <1>1, <1>2, ApartKept DEF EdgeInv, Same, Shifted
<1>8. HostsKept'
  BY <1>1, <1>2, QuietKept DEF EdgeInv, RowKept, Waiting, Passing, Same, Shifted
<1>. QED  BY <1>3, <1>4, <1>5, <1>6, <1>7, <1>8 DEF EdgeInv

LEMMA StoreMetaKeeps == ASSUME EdgeInv, NEW j \in Jobs, StoreMeta(j) PROVE EdgeInv'
<1> DEFINE h == job[j].host
           r == [row[h] EXCEPT !.cert = job[j].cert]
<1>1. /\ job[j] # Idle /\ job[j] \in JobType /\ JobFits(job[j]) /\ h \in Hosts /\ job[j].at = "meta" /\ job[j].kind \in {"issue", "renew"}
      /\ job[j].cert \in 0..MaxOrders /\ UNCHANGED <<edge, acme, world, raced>>
      /\ row' = IF row[h] = Gone THEN row ELSE [row EXCEPT ![h] = r]
  BY EdgeJobs DEF EdgeInv, StoreMeta, At, JobFits, Placing, AtWork
<1>2. /\ JobTypes /\ Others(j)
      /\ \/ job'[j] = Idle \/ NextRenewal(job'[j])
         \/ job'[j] # Idle /\ Shifted(job'[j], job[j]) /\ job'[j].at = "put" /\ job[j].kind = "issue"
  <2>1. CASE job[j].kind # "issue"
    <3>1. Over(j)
      BY <2>1 DEF StoreMeta
    <3>. QED  BY <1>1, <3>1, OverMoves DEF EdgeInv
  <2>2. CASE job[j].kind = "issue"
    <3>1. Go(j, "put")
      BY <2>2 DEF StoreMeta
    <3>. QED  BY <1>1, <2>2, <3>1, GoMoves, EdgeEmpty DEF EdgeInv, Steps
  <2>. QED  BY <2>1, <2>2
<1>3. row[h] # Gone => r \in RowType /\ r.n = row[h].n /\ r.error = row[h].error
  <2>1. row[h] # Gone => row[h] \in RowType
    BY <1>1, EdgeRows DEF EdgeInv, EdgeTypes
  <2>. QED  BY <1>1, <2>1 DEF RowType
<1> HIDE DEF r
<1>4. row' \in [Hosts -> Rows] /\ \A g \in Hosts : RowKept(g)
  <2>1. CASE row[h] = Gone
    BY <1>1, <2>1 DEF EdgeInv, EdgeTypes, RowKept
  <2>2. CASE row[h] # Gone
    <3>1. r \in Rows /\ r # Gone
      BY <1>3, <2>2, EdgeRows DEF Rows, RowType
    <3>. QED  BY <1>1, <1>3, <2>2, <3>1 DEF EdgeInv, EdgeTypes, RowKept
  <2>. QED  BY <2>1, <2>2
<1>5. EdgeTypes' /\ Counted'
  <2>1. Counted'
    BY <1>1, <1>4 DEF EdgeInv, Counted, world, acme, RowKept
  <2>. QED  BY <1>1, <1>4, <2>1 DEF EdgeInv, EdgeTypes, edge, nginx, world, acme
<1>6. JobsFit'
  <2>1. job'[j] # Idle => JobFits(job'[j])
    BY <1>1, <1>2, NextRenewals DEF JobFits, Ordering, Placing, Same, Shifted
  <2>. QED  BY <1>2, <2>1, FitAfter DEF EdgeInv
<1>7. CertsNamed'
  <2>1. pem[h] # 0 /\ pem' = pem
    BY <1>1 DEF EdgeInv, CertsNamed, Named, acme
  <2>2. job'[j] # Idle => Named(job[j])'
    BY <1>2, <2>1, NextRenewals DEF Named, Shifted, Same
  <2>. QED  BY <1>1, <1>2, <2>2, NamedKept DEF EdgeInv, edge, nginx, acme
<1>8. Throttled'
  <2>1. PastAttempt(j)' => PastAttempt(j) /\ job'[j].host = job[j].host /\ job'[j].at # "order"
    BY <1>1, <1>2, NextRenewals DEF PastAttempt, IsCertifying, Same, Shifted
  <2>. QED  BY <1>1, <1>2, <2>1, ThrottleKept DEF EdgeInv, acme
<1>9. JobsApart'
  BY <1>1, <1>2, ApartKept DEF EdgeInv, Same, Shifted
<1>10. HostsKept'
  BY <1>1, <1>2, <1>4, QuietKept DEF EdgeInv, Waiting, Passing, Same, Shifted, acme
<1>. QED  BY <1>5, <1>6, <1>7, <1>8, <1>9, <1>10 DEF EdgeInv

LEMMA RenewalKeeps == ASSUME EdgeInv, NEW j \in Jobs, CheckAllCerts(j) PROVE EdgeInv'
<1>1. JobTypes /\ Others(j) /\ NextRenewal(job'[j]) /\ job[j] = Idle /\ UNCHANGED <<row, edge, acme, world, raced>>
  <2>1. UNCHANGED <<row, edge, acme, world, raced>>
    BY DEF CheckAllCerts
  <2>. QED  BY <2>1, RenewalMoves DEF EdgeInv
<1>2. EdgeTypes' /\ Counted'
  BY <1>1 DEF EdgeInv, EdgeTypes, Counted, edge, nginx, world, acme
<1>3. JobsFit'
  BY <1>1, FitAfter, NextRenewals DEF EdgeInv
<1>4. CertsNamed'
  BY <1>1, NamedKept, NextRenewals DEF EdgeInv, Named, edge, nginx, acme
<1>5. Throttled'
  BY <1>1, ThrottleKept, NextRenewals DEF EdgeInv, PastAttempt, acme
<1>6. JobsApart'
  BY <1>1, ApartKept DEF EdgeInv
<1>7. HostsKept'
  BY <1>1, QuietKept DEF EdgeInv, RowKept, acme
<1>. QED  BY <1>2, <1>3, <1>4, <1>5, <1>6, <1>7 DEF EdgeInv

\* Time
LEMMA CooldownKeeps == ASSUME EdgeInv, NEW h \in Hosts, CooldownOver(h) PROVE EdgeInv'
<1>1. /\ h \in tried /\ ~Acquiring(h) /\ tried' = tried \ {h} /\ spent' = [spent EXCEPT ![h] = 0]
      /\ UNCHANGED <<row, edge, pem, key, txt, orders, world, job, raced>>
  BY DEF CooldownOver
<1>2. \A j \in Jobs : PastAttempt(j) => job[j].host # h
  BY <1>1 DEF Acquiring, Certifying, On, PastAttempt, IsCertifying
<1>3. \A g \in Hosts : spent'[g] = IF g = h THEN 0 ELSE spent[g]
  BY <1>1 DEF EdgeInv, EdgeTypes
<1>4. Throttled'
  <2>1. \A g \in Hosts : spent'[g] <= 1 /\ (g \notin tried' => spent'[g] = 0)
    BY <1>1, <1>3 DEF EdgeInv, Throttled
  <2>2. \A j \in Jobs : PastAttempt(j)' => PastAttempt(j) /\ job[j].host \in Hosts
    BY <1>1, EdgeJobs DEF EdgeInv, PastAttempt
  <2>3. \A j \in Jobs : PastAttempt(j)' => job'[j].host \in tried' /\ (job'[j].at = "order" => spent'[job'[j].host] = 0)
    BY <1>1, <1>2, <1>3, <2>2 DEF EdgeInv, Throttled
  <2>. QED  BY <1>1, <2>1, <2>2, <2>3 DEF EdgeInv, Throttled
<1>5. EdgeTypes' /\ Counted'
  BY <1>1, EdgeNumbers DEF EdgeInv, EdgeTypes, Counted, edge, nginx, world
<1>6. UNCHANGED <<row, file, loaded, signalled, behind, fallback, pem, key, job, raced, orders>>
  BY <1>1 DEF edge, nginx
<1>7. JobsFit' /\ CertsNamed' /\ JobsApart'
  BY <1>6 DEF EdgeInv, JobsFit, CertsNamed, Named, JobsApart
<1>8. HostsKept'
  BY <1>6 DEF EdgeInv, HostsKept, HostKept, PairKept, FileKept, GoneClean, ServedSoFar, AsSaved, TakenUp, On
<1>. QED  BY <1>4, <1>5, <1>7, <1>8 DEF EdgeInv

LEMMA MonthsKeep == ASSUME EdgeInv, MonthsPass PROVE EdgeInv'
<1>1. /\ \A j \in Jobs : job[j] = Idle
      /\ aged' = 1..orders /\ expired' = aged /\ tried' = {} /\ spent' = [h \in Hosts |-> 0]
      /\ UNCHANGED <<row, edge, pem, key, txt, orders, asked, restarts, job, raced>>
  BY DEF MonthsPass, Free
<1>2. Throttled'
  BY <1>1 DEF Throttled, PastAttempt
<1>3. EdgeTypes' /\ Counted'
  BY <1>1, EdgeNumbers DEF EdgeInv, EdgeTypes, Counted, edge, nginx
<1>4. UNCHANGED <<row, file, loaded, signalled, behind, fallback, pem, key, job, raced, orders>>
  BY <1>1 DEF edge, nginx
<1>5. JobsFit' /\ CertsNamed' /\ JobsApart'
  BY <1>4 DEF EdgeInv, JobsFit, CertsNamed, Named, JobsApart
<1>6. HostsKept'
  BY <1>4 DEF EdgeInv, HostsKept, HostKept, PairKept, FileKept, GoneClean, ServedSoFar, AsSaved, TakenUp, On
<1>. QED  BY <1>2, <1>3, <1>5, <1>6 DEF EdgeInv

LEMMA EdgeStays == ASSUME EdgeInv, UNCHANGED vars PROVE EdgeInv'
<1>1. UNCHANGED <<row, file, loaded, signalled, behind, fallback, pem, key, tried, spent, txt, aged, expired, job, orders, asked, restarts, raced>>
  BY DEF vars
<1>2. EdgeTypes' /\ Counted'
  BY <1>1 DEF EdgeInv, EdgeTypes, Counted
<1>3. JobsFit' /\ CertsNamed' /\ JobsApart' /\ Throttled'
  BY <1>1 DEF EdgeInv, JobsFit, CertsNamed, Named, JobsApart, Throttled, PastAttempt
<1>4. HostsKept'
  BY <1>1 DEF EdgeInv, HostsKept, HostKept, PairKept, FileKept, GoneClean, ServedSoFar, AsSaved, TakenUp, On
<1>. QED  BY <1>2, <1>3, <1>4 DEF EdgeInv

\* A step of a job on its host, with the jobs that are there besides
LEMMA OwnHost ==
  ASSUME HostsKept, NEW j \in Jobs, Others(j), raced \subseteq raced', NEW h \in Hosts,
         Away(j, h) => job[j] = Idle, Away(j, h)' => job'[j] = Idle,
         \A g \in Hosts \ {h} : /\ row'[g] = row[g] /\ file'[g] = file[g] /\ pem'[g] = pem[g] /\ key'[g] = key[g]
                                /\ (TakenUp' => (TakenUp /\ loaded'[g] = loaded[g]) \/ loaded'[g].conf = file[g]),
         fallback' = fallback,
         h \notin raced' => HostKept(h)'
  PROVE  HostsKept'
<1>. SUFFICES ASSUME NEW g \in Hosts \ raced', g # h PROVE HostKept(g)'
  BY DEF HostsKept
<1>1. HostKept(g) /\ RowKept(g)
  BY DEF HostsKept, RowKept
<1>2. \A i \in Jobs : Quiet(i, g)
  <2>1. Away(j, g) /\ Away(j, g)'
    BY DEF Away
  <2>. QED  BY <2>1 DEF Quiet, Others
<1>3. \A i \in On(g) \cup On(g)' : job'[i] = job[i]
  BY DEF On, Others, Away
<1>. QED  BY <1>1, <1>2, <1>3, HostUntouched

LEMMA OthersOn ==
  ASSUME NEW j \in Jobs, Others(j), NEW h \in Hosts
  PROVE  /\ \A i \in Jobs \ {j} : job'[i] = job[i] /\ (i \in On(h)' <=> i \in On(h))
         /\ j \in On(h) <=> job[j] # Idle /\ job[j].host = h
         /\ j \in On(h)' <=> job'[j] # Idle /\ job'[j].host = h
         /\ On(h) \subseteq Jobs /\ On(h)' \subseteq Jobs
BY DEF On, Others

LEMMA WriteCertKeeps == ASSUME EdgeInv, NEW j \in Jobs, WriteCert(j) PROVE EdgeInv'
<1>0. PICK h \in Hosts : h = job[j].host
  BY EdgeJobs DEF EdgeInv, WriteCert, At
<1>1. /\ h = job[j].host /\ job[j] # Idle /\ job[j] \in JobType /\ JobFits(job[j]) /\ h \in Hosts /\ job[j].at = "pem" /\ job[j].kind \in {"issue", "renew"}
      /\ job[j].cert \in 0..MaxOrders /\ job[j].cert # 0
      /\ pem' = [pem EXCEPT ![h] = job[j].cert] /\ Go(j, "key")
      /\ UNCHANGED <<row, edge, key, tried, spent, txt, orders, world, raced>>
  BY <1>0, EdgeJobs DEF EdgeInv, WriteCert, At, JobFits, Placing, AtWork
<1>2. JobTypes /\ Others(j) /\ job'[j] # Idle /\ Shifted(job'[j], job[j]) /\ job'[j].at = "key"
  BY <1>1, GoMoves, EdgeEmpty DEF EdgeInv, Steps
<1>3. pem'[h] = job[j].cert /\ \A g \in Hosts \ {h} : pem'[g] = pem[g]
  BY <1>1 DEF EdgeInv, EdgeTypes
<1>4. EdgeTypes' /\ Counted'
  BY <1>1 DEF EdgeInv, EdgeTypes, Counted, edge, nginx, world
<1>5. JobsFit'
  <2>1. JobFits(job'[j])
    BY <1>1, <1>2 DEF JobFits, Ordering, Same, Shifted
  <2>. QED  BY <1>2, <2>1, FitAfter DEF EdgeInv
<1>6. CertsNamed'
  <2>1. Named(job[j])'
    BY <1>1, <1>2, <1>3 DEF Named, Same, Shifted
  <2>. QED  BY <1>1, <1>2, <1>3, <2>1, NamedKept DEF EdgeInv, edge, nginx
<1>7. Throttled'
  <2>1. PastAttempt(j)' => PastAttempt(j) /\ job'[j].host = job[j].host /\ job'[j].at # "order"
    BY <1>1, <1>2 DEF PastAttempt, IsCertifying, Same, Shifted
  <2>. QED  BY <1>1, <1>2, <2>1, ThrottleKept DEF EdgeInv
<1>8. JobsApart'
  BY <1>1, <1>2, ApartKept DEF EdgeInv, Same, Shifted
<1>9. ASSUME h \notin raced PROVE HostKept(h)'
  <2>1. HostKept(h) /\ j \in On(h)
    BY <1>1, <1>9 DEF EdgeInv, HostsKept, On
  <2>2. \A i \in On(h) \ {j} : job[i].at # "key"
    <3>1. \A i \in On(h) \ {j} : job[i].kind \in {"deploy", "remove"} \/ job[i].at = "attempt"
      BY <1>1, <1>9, <2>1, SoleCertifier DEF EdgeInv
    <3>2. \A i \in On(h) : JobFits(job[i])
      BY EdgeJobs DEF EdgeInv, On
    <3>. QED  BY <3>1, <3>2 DEF JobFits, Placing
  <2>3. PairKept(h)'
    BY <1>1, <1>2, <1>3, <2>1, <2>2, OthersOn DEF PairKept, Same, Shifted
  <2>4. \A i \in Jobs : Quiet(i, h)
    BY <1>1, <1>2 DEF Quiet, Others, Away, Passing, Same, Shifted
  <2>5. FileKept(h)' /\ GoneClean(h)' /\ ServedSoFar(h)'
    BY <1>1, <2>1, <2>4, ServiceUntouched DEF RowKept, edge, nginx, TakenUp
  <2>. QED  BY <2>3, <2>5 DEF HostKept
<1>10. HostsKept'
  BY <1>1, <1>2, <1>3, <1>9, OwnHost DEF EdgeInv, Away, edge, nginx, Same, Shifted, TakenUp
<1>. QED  BY <1>4, <1>5, <1>6, <1>7, <1>8, <1>10 DEF EdgeInv

LEMMA WriteKeyKeeps == ASSUME EdgeInv, NEW j \in Jobs, WriteKey(j) PROVE EdgeInv'
<1>0. PICK h \in Hosts : h = job[j].host
  BY EdgeJobs DEF EdgeInv, WriteKey, At
<1>1. /\ h = job[j].host /\ job[j] # Idle /\ job[j] \in JobType /\ JobFits(job[j]) /\ h \in Hosts /\ job[j].at = "key" /\ job[j].kind \in {"issue", "renew"}
      /\ job[j].cert \in 0..MaxOrders
      /\ key' = [key EXCEPT ![h] = job[j].cert] /\ Go(j, "meta")
      /\ UNCHANGED <<row, edge, pem, tried, spent, txt, orders, world, raced>>
  BY <1>0, EdgeJobs DEF EdgeInv, WriteKey, At, JobFits, Placing, AtWork
<1>2. JobTypes /\ Others(j) /\ job'[j] # Idle /\ Shifted(job'[j], job[j]) /\ job'[j].at = "meta"
  BY <1>1, GoMoves, EdgeEmpty DEF EdgeInv, Steps
<1>3. key'[h] = job[j].cert /\ \A g \in Hosts \ {h} : key'[g] = key[g]
  BY <1>1 DEF EdgeInv, EdgeTypes
<1>4. EdgeTypes' /\ Counted'
  BY <1>1 DEF EdgeInv, EdgeTypes, Counted, edge, nginx, world
<1>5. JobsFit'
  <2>1. JobFits(job'[j])
    BY <1>1, <1>2 DEF JobFits, Ordering, Same, Shifted
  <2>. QED  BY <1>2, <2>1, FitAfter DEF EdgeInv
<1>6. CertsNamed'
  <2>1. Named(job[j])'
    <3>1. pem[h] # 0 /\ pem' = pem
      BY <1>1 DEF EdgeInv, CertsNamed, Named
    <3>. QED  BY <1>1, <1>2, <3>1 DEF Named, Same, Shifted
  <2>. QED  BY <1>1, <1>2, <2>1, NamedKept DEF EdgeInv, edge, nginx
<1>7. Throttled'
  <2>1. PastAttempt(j)' => PastAttempt(j) /\ job'[j].host = job[j].host /\ job'[j].at # "order"
    BY <1>1, <1>2 DEF PastAttempt, IsCertifying, Same, Shifted
  <2>. QED  BY <1>1, <1>2, <2>1, ThrottleKept DEF EdgeInv
<1>8. JobsApart'
  BY <1>1, <1>2, ApartKept DEF EdgeInv, Same, Shifted
<1>9. ASSUME h \notin raced PROVE HostKept(h)'
  <2>1. HostKept(h) /\ j \in On(h)
    BY <1>1, <1>9 DEF EdgeInv, HostsKept, On
  <2>2. \A i \in On(h) \ {j} : job[i].at # "key"
    <3>1. \A i \in On(h) \ {j} : job[i].kind \in {"deploy", "remove"} \/ job[i].at = "attempt"
      BY <1>1, <1>9, <2>1, SoleCertifier DEF EdgeInv
    <3>2. \A i \in On(h) : JobFits(job[i])
      BY EdgeJobs DEF EdgeInv, On
    <3>. QED  BY <3>1, <3>2 DEF JobFits, Placing
  <2>3. PairKept(h)'
    <3>1. pem[h] = job[j].cert
      BY <1>1, <2>1 DEF HostKept, PairKept
    <3>. QED  BY <1>1, <1>2, <1>3, <2>2, <3>1, OthersOn DEF PairKept
  <2>4. \A i \in Jobs : Quiet(i, h)
    BY <1>1, <1>2 DEF Quiet, Others, Away, Passing, Same, Shifted
  <2>5. FileKept(h)' /\ GoneClean(h)' /\ ServedSoFar(h)'
    BY <1>1, <2>1, <2>4, ServiceUntouched DEF RowKept, edge, nginx, TakenUp
  <2>. QED  BY <2>3, <2>5 DEF HostKept
<1>10. HostsKept'
  BY <1>1, <1>2, <1>3, <1>9, OwnHost DEF EdgeInv, Away, edge, nginx, Same, Shifted, TakenUp
<1>. QED  BY <1>4, <1>5, <1>6, <1>7, <1>8, <1>10 DEF EdgeInv

\* Who else is on a host on which a file is being put, tested, undone or removed
LEMMA Bystanders ==
  ASSUME EdgeInv, NEW h \in Hosts \ raced, NEW j \in On(h), job[j].kind # "renew", job[j].at # "attempt"
  PROVE  \A i \in On(h) \ {j} : /\ job[i].kind \in {"issue", "renew"} /\ job[i].at \notin {"test", "undo", "reload", "delete", "good"}
                                /\ Alone(job[j]) => job[i].kind = "renew"
<1>. SUFFICES ASSUME NEW i \in On(h) \ {j}
              PROVE  /\ job[i].kind \in {"issue", "renew"} /\ job[i].at \notin {"test", "undo", "reload", "delete", "good"}
                     /\ Alone(job[j]) => job[i].kind = "renew"
  OBVIOUS
<1>1. i \in Jobs /\ j \in Jobs /\ i # j /\ job[i] # Idle /\ job[j] # Idle /\ job[i].host = h /\ job[j].host = h
  BY DEF On
<1>2. job[i].kind = "renew" \/ (job[i].kind = "issue" /\ job[i].at = "attempt")
  BY SoleWriter DEF EdgeInv
<1>3. JobFits(job[i])
  BY <1>1, EdgeJobs DEF EdgeInv
<1>4. Alone(job[j]) => job[i].kind = "renew"
  BY <1>1 DEF EdgeInv, JobsApart
<1>. QED  BY <1>2, <1>3, <1>4 DEF JobFits, Ordering

\* The certificate's two files, untouched by a job that does not write them
LEMMA PairUntouched ==
  ASSUME NEW h \in Hosts, PairKept(h), pem' = pem, key' = key, NEW j \in Jobs, Others(j),
         job[j] # Idle => job[j].at # "key", job'[j] # Idle => job'[j].at # "key"
  PROVE  PairKept(h)'
<1>1. \A i \in Jobs \ {j} : job'[i] = job[i] /\ (i \in On(h)' <=> i \in On(h))
  BY OthersOn
<1>2. j \in On(h) => job[j].at # "key"
  BY DEF On
<1>3. j \in On(h)' => job'[j].at # "key"
  BY DEF On
<1>4. On(h) \subseteq Jobs /\ On(h)' \subseteq Jobs
  BY DEF On
<1>. QED  BY <1>1, <1>2, <1>3, <1>4 DEF PairKept

LEMMA ReadRowKeeps == ASSUME EdgeInv, NEW j \in Jobs, ReadRow(j) PROVE EdgeInv'
<1>0. PICK h \in Hosts : h = job[j].host
  BY EdgeJobs DEF EdgeInv, ReadRow, At
<1>1. /\ h = job[j].host /\ job[j] # Idle /\ job[j] \in JobType /\ JobFits(job[j]) /\ job[j].at = "read" /\ job[j].kind = "deploy"
      /\ UNCHANGED <<row, edge, acme, world, raced>>
  BY <1>0, EdgeJobs DEF EdgeInv, ReadRow, At, JobFits, Placing, Ordering, AtWork
<1>2. /\ JobTypes /\ Others(j)
      /\ \/ job'[j] = Idle /\ row[h] = Gone
         \/ /\ row[h] # Gone
            /\ job'[j] # Idle /\ job'[j].at = "put" /\ job'[j].conf.n = row[h].n /\ ~job'[j].conf.tls
            /\ job'[j].kind = "deploy" /\ job'[j].host = h /\ job'[j].staging = job[j].staging
  <2>1. CASE row[h] = Gone
    BY <1>1, <2>1, IdleMoves DEF EdgeInv, ReadRow
  <2>2. CASE row[h] # Gone
    <3> DEFINE f == Rendered(row[h], FALSE)
    <3>1. row[h].n \in 1..MaxRequests /\ row[h].ok \in BOOLEAN
      BY <2>2, EdgeRows DEF EdgeInv, EdgeTypes
    <3>2. row[h].n \in 0..MaxRequests
      BY <3>1, EdgeNumbers
    <3>3. f \in Files /\ f.n = row[h].n /\ ~f.tls
      BY <3>1, <3>2 DEF Rendered, Conf, Files
    <3>4. job' = [job EXCEPT ![j].at = "put", ![j].conf = f]
      BY <1>1, <2>2 DEF ReadRow
    <3>. HIDE DEF f
    <3>. QED  BY <1>1, <2>2, <3>3, <3>4, ReadMoves, EdgeEmpty DEF EdgeInv
  <2>. QED  BY <2>1, <2>2
<1>3. EdgeTypes' /\ Counted'
  BY <1>1 DEF EdgeInv, EdgeTypes, Counted, edge, nginx, world, acme
<1>4. JobsFit'
  <2>1. job'[j] # Idle => JobFits(job'[j])
    BY <1>1, <1>2 DEF JobFits, Ordering, Placing
  <2>. QED  BY <1>2, <2>1, FitAfter DEF EdgeInv
<1>5. CertsNamed'
  <2>1. job'[j] # Idle => Named(job[j])'
    BY <1>2 DEF Named
  <2>. QED  BY <1>1, <1>2, <2>1, NamedKept DEF EdgeInv, edge, nginx, acme
<1>6. Throttled'
  <2>1. ~PastAttempt(j)'
    BY <1>1, <1>2 DEF PastAttempt, IsCertifying
  <2>. QED  BY <1>1, <1>2, <2>1, ThrottleKept DEF EdgeInv, acme
<1>7. JobsApart'
  BY <1>1, <1>2, ApartKept DEF EdgeInv
<1>8. ASSUME h \notin raced PROVE HostKept(h)'
  <2>1. HostKept(h) /\ j \in On(h)
    BY <1>1, <1>8 DEF EdgeInv, HostsKept, On
  <2>2. row[h] # Gone
    BY <1>1, <2>1 DEF HostKept, GoneClean
  <2>3. PairKept(h)'
    BY <1>1, <1>2, <2>1, PairUntouched DEF HostKept, acme
  <2>4. UNCHANGED <<row, file, loaded, signalled, behind, fallback>>
    BY <1>1 DEF edge, nginx
  <2>5. FileKept(h)' /\ GoneClean(h)'
    BY <1>1, <1>2, <2>1, <2>2, <2>4, OthersOn DEF HostKept, FileKept, GoneClean
  <2>6. ServedSoFar(h)'
    <3>1. j \in On(h)' /\ job'[j].kind = "deploy"
      BY <1>2, <2>2, OthersOn
    <3>. QED  BY <1>1, <1>2, <2>1, <2>2, <2>4, <3>1, OthersOn DEF HostKept, ServedSoFar, AsSaved, TakenUp
  <2>. QED  BY <2>3, <2>5, <2>6 DEF HostKept
<1>9. HostsKept'
  BY <1>1, <1>2, <1>8, OwnHost DEF EdgeInv, Away, edge, nginx, acme, TakenUp
<1>. QED  BY <1>3, <1>4, <1>5, <1>6, <1>7, <1>9 DEF EdgeInv

LEMMA PutKeepsFile == ASSUME EdgeInv, NEW j \in Jobs, Put(j) PROVE EdgeInv'
<1>0. PICK h \in Hosts : h = job[j].host
  BY EdgeJobs DEF EdgeInv, Put, At
<1>1. /\ h = job[j].host /\ job[j] # Idle /\ job[j] \in JobType /\ JobFits(job[j]) /\ job[j].at = "put" /\ job[j].kind \in {"deploy", "issue"}
      /\ job[j].conf \in Files /\ file[h] \in Files
      /\ UNCHANGED <<row, loaded, signalled, behind, fallback, acme, world, raced>> /\ file' = [file EXCEPT ![h] = job[j].conf]
  BY <1>0, EdgeJobs DEF EdgeInv, EdgeTypes, Put, nginx, At, JobFits, Ordering, AtWork
<1>2. /\ JobTypes /\ Others(j) /\ job'[j] # Idle /\ job'[j].at = "test" /\ job'[j].kept = file[h]
      /\ job'[j].kind = job[j].kind /\ job'[j].host = h /\ job'[j].staging = job[j].staging /\ job'[j].conf = job[j].conf
  <2>1. job' = [job EXCEPT ![j].at = "test", ![j].kept = file[h]]
    BY <1>1 DEF Put
  <2>2. "test" \in Steps /\ JobsFit
    BY DEF Steps, EdgeInv
  <2>3. PICK f \in Files : f = file[h]
    BY <1>1
  <2>4. job' = [job EXCEPT ![j].at = "test", ![j].kept = f]
    BY <2>1, <2>3
  <2>5. /\ JobTypes /\ Others(j) /\ job'[j] \in JobType /\ job'[j].at = "test" /\ job'[j].kept = f
        /\ job'[j].kind = job[j].kind /\ job'[j].host = job[j].host /\ job'[j].staging = job[j].staging
        /\ job'[j].conf = job[j].conf
    BY <1>1, <2>2, <2>4, KeepMoves
  <2>. QED  BY <1>1, <2>3, <2>5, EdgeEmpty
<1>3. file'[h] = job[j].conf /\ \A g \in Hosts \ {h} : file'[g] = file[g]
  BY <1>1 DEF EdgeInv, EdgeTypes
<1>4. EdgeTypes' /\ Counted'
  BY <1>1 DEF EdgeInv, EdgeTypes, Counted, world, acme
<1>5. JobsFit'
  <2>1. JobFits(job'[j])
    BY <1>1, <1>2 DEF JobFits, Placing
  <2>. QED  BY <1>2, <2>1, FitAfter DEF EdgeInv
<1>6. CertsNamed'
  <2>1. (job[j].conf.tls => pem[h] # 0) /\ (file[h].tls => pem[h] # 0) /\ pem' = pem
    BY <1>1 DEF EdgeInv, CertsNamed, Named, acme
  <2>2. Named(job[j])'
    BY <1>2, <2>1 DEF Named
  <2>. QED  BY <1>1, <1>2, <1>3, <2>1, <2>2, NamedKept DEF EdgeInv
<1>7. Throttled'
  <2>1. PastAttempt(j)' => PastAttempt(j) /\ job'[j].host = job[j].host /\ job'[j].at # "order"
    BY <1>1, <1>2 DEF PastAttempt, IsCertifying
  <2>. QED  BY <1>1, <1>2, <2>1, ThrottleKept DEF EdgeInv, acme
<1>8. JobsApart'
  BY <1>1, <1>2, ApartKept DEF EdgeInv
<1>9. ASSUME h \notin raced PROVE HostKept(h)'
  <2>1. HostKept(h) /\ j \in On(h)
    BY <1>1, <1>9 DEF EdgeInv, HostsKept, On
  <2>2. \A i \in On(h) \ {j} : job[i].kind \in {"issue", "renew"} /\ job[i].at \notin {"test", "undo", "reload", "delete", "good"}
    BY <1>1, <1>9, <2>1, Bystanders
  <2>3. row[h] # Gone
    BY <1>1, <2>1 DEF HostKept, GoneClean
  <2>4. PairKept(h)'
    BY <1>1, <1>2, <2>1, PairUntouched DEF HostKept, acme
  <2>5. j \in On(h)' /\ \A i \in On(h)' \ {j} : i \in On(h) /\ job'[i] = job[i]
    BY <1>2, OthersOn
  <2>6. FileKept(h)'
    <3>1. ~fallback => file[h].ok
      BY <1>1, <2>1, <2>2 DEF HostKept, FileKept
    <3>. QED  BY <1>1, <1>2, <2>2, <2>5, <3>1 DEF FileKept
  <2>7. GoneClean(h)'
    BY <1>1, <1>2, <2>2, <2>3, <2>5 DEF GoneClean
  <2>8. ServedSoFar(h)'
    <3>1. ~row[h].error /\ job[j].kind = "issue" => AsSaved(h)
      BY <1>1, <2>1, <2>2, <2>3 DEF HostKept, ServedSoFar
    <3>2. job[j].conf.n = row[h].n
      BY <1>1, <2>1, <2>3 DEF HostKept, ServedSoFar
    <3>3. ~row[h].error /\ job[j].kind = "issue" => AsSaved(h)'
      BY <1>1, <1>3, <3>1, <3>2 DEF AsSaved, TakenUp
    <3>4. ~row[h].error /\ (\A i \in On(h)' : job'[i].kind \notin {"deploy", "remove"}) => AsSaved(h)'
      BY <1>1, <1>2, <2>5, <3>3
    <3>5. \A i \in On(h)' \ {j} : /\ job'[i].kind = "issue" => job'[i].conf.n = row[h].n
                                  /\ job'[i].kind # "deploy" /\ job'[i].at \notin {"test", "undo", "reload"}
      BY <1>1, <2>1, <2>2, <2>3, <2>5 DEF HostKept, ServedSoFar
    <3>. QED  BY <1>1, <1>2, <1>3, <2>3, <2>5, <3>1, <3>2, <3>4, <3>5 DEF ServedSoFar, AsSaved, TakenUp
  <2>. QED  BY <2>4, <2>6, <2>7, <2>8 DEF HostKept
<1>10. HostsKept'
  BY <1>1, <1>2, <1>3, <1>9, OwnHost DEF EdgeInv, Away, acme, TakenUp
<1>. QED  BY <1>4, <1>5, <1>6, <1>7, <1>8, <1>10 DEF EdgeInv

LEMMA TestKeeps == ASSUME EdgeInv, NEW j \in Jobs, Test(j) PROVE EdgeInv'
<1>0. PICK h \in Hosts : h = job[j].host
  BY EdgeJobs DEF EdgeInv, Test, At
<1>1. /\ h = job[j].host /\ job[j] # Idle /\ job[j] \in JobType /\ JobFits(job[j]) /\ job[j].at = "test" /\ job[j].kind \in {"deploy", "issue"}
      /\ UNCHANGED <<row, edge, acme, world, raced>>
  BY <1>0, EdgeJobs DEF EdgeInv, Test, At, JobFits, Ordering, AtWork
<1>2. PICK s \in {"reload", "undo"} : Go(j, s) /\ (s = "reload" => NginxTest)
  BY DEF Test
<1>3. JobTypes /\ Others(j) /\ job'[j] # Idle /\ Shifted(job'[j], job[j]) /\ job'[j].at = s
  <2>1. s \in Steps
    BY DEF Steps
  <2>. QED  BY <1>1, <1>2, <2>1, GoMoves, EdgeEmpty DEF EdgeInv
<1>4. EdgeTypes' /\ Counted'
  BY <1>1 DEF EdgeInv, EdgeTypes, Counted, edge, nginx, world, acme
<1>5. JobsFit'
  <2>1. JobFits(job'[j])
    BY <1>1, <1>3 DEF JobFits, Placing, Same, Shifted
  <2>. QED  BY <1>3, <2>1, FitAfter DEF EdgeInv
<1>6. CertsNamed'
  <2>1. (job[j].kept.tls => pem[h] # 0) /\ pem' = pem
    BY <1>1 DEF EdgeInv, CertsNamed, Named, acme
  <2>2. Named(job[j])'
    BY <1>1, <1>3, <2>1 DEF Named, Same, Shifted
  <2>. QED  BY <1>1, <1>3, <2>1, <2>2, NamedKept DEF EdgeInv, edge, nginx
<1>7. Throttled'
  <2>1. PastAttempt(j)' => PastAttempt(j) /\ job'[j].host = job[j].host /\ job'[j].at # "order"
    BY <1>1, <1>3 DEF PastAttempt, IsCertifying, Same, Shifted
  <2>. QED  BY <1>1, <1>3, <2>1, ThrottleKept DEF EdgeInv, acme
<1>8. JobsApart'
  BY <1>1, <1>3, ApartKept DEF EdgeInv, Same, Shifted
<1>9. ASSUME h \notin raced PROVE HostKept(h)'
  <2>1. HostKept(h) /\ j \in On(h)
    BY <1>1, <1>9 DEF EdgeInv, HostsKept, On
  <2>2. \A i \in On(h) \ {j} : job[i].kind \in {"issue", "renew"} /\ job[i].at \notin {"test", "undo", "reload", "delete", "good"}
    BY <1>1, <1>9, <2>1, Bystanders
  <2>3. PairKept(h)'
    BY <1>1, <1>3, <2>1, PairUntouched DEF HostKept, acme
  <2>4. /\ j \in On(h)' /\ \A i \in On(h)' \ {j} : i \in On(h) /\ job'[i] = job[i]
        /\ \A i \in On(h) : i \in On(h)'
    BY <1>1, <1>3, OthersOn DEF Same, Shifted
  <2>5. UNCHANGED <<row, file, loaded, signalled, behind, fallback>>
    BY <1>1 DEF edge, nginx
  <2>6. FileKept(h)'
    <3>1. ~fallback => job[j].kept.ok
      BY <1>1, <2>1 DEF HostKept, FileKept
    <3>2. s = "reload" /\ ~fallback => file[h].ok
      BY <1>2 DEF NginxTest, AllStand, Stands
    <3>. QED  BY <1>3, <2>2, <2>4, <2>5, <3>1, <3>2 DEF FileKept, Same, Shifted
  <2>7. GoneClean(h)'
    BY <1>1, <1>3, <2>1, <2>2, <2>4, <2>5 DEF HostKept, GoneClean
  <2>8. ServedSoFar(h)'
    BY <1>1, <1>3, <2>1, <2>2, <2>4, <2>5 DEF HostKept, ServedSoFar, AsSaved, TakenUp, Same, Shifted
  <2>. QED  BY <2>3, <2>6, <2>7, <2>8 DEF HostKept
<1>10. HostsKept'
  BY <1>1, <1>3, <1>9, OwnHost DEF EdgeInv, Away, edge, nginx, acme, Same, Shifted, TakenUp
<1>. QED  BY <1>4, <1>5, <1>6, <1>7, <1>8, <1>10 DEF EdgeInv

LEMMA UndoKeepsFile == ASSUME EdgeInv, NEW j \in Jobs, Undo(j) PROVE EdgeInv'
<1>0. PICK h \in Hosts : h = job[j].host
  BY EdgeJobs DEF EdgeInv, Undo, At
<1>1. /\ h = job[j].host /\ job[j] # Idle /\ job[j] \in JobType /\ JobFits(job[j]) /\ job[j].at = "undo" /\ job[j].kind \in {"deploy", "issue"}
      /\ job[j].kept \in Files
      /\ UNCHANGED <<row, loaded, signalled, behind, fallback, acme, world, raced>> /\ file' = [file EXCEPT ![h] = job[j].kept] /\ Go(j, "bad")
  BY <1>0, EdgeJobs DEF EdgeInv, Undo, nginx, At, JobFits, Ordering, AtWork
<1>2. JobTypes /\ Others(j) /\ job'[j] # Idle /\ Shifted(job'[j], job[j]) /\ job'[j].at = "bad"
  BY <1>1, GoMoves, EdgeEmpty DEF EdgeInv, Steps
<1>3. file'[h] = job[j].kept /\ \A g \in Hosts \ {h} : file'[g] = file[g]
  BY <1>1 DEF EdgeInv, EdgeTypes
<1>4. EdgeTypes' /\ Counted'
  BY <1>1 DEF EdgeInv, EdgeTypes, Counted, world, acme
<1>5. JobsFit'
  <2>1. JobFits(job'[j])
    BY <1>1, <1>2 DEF JobFits, Placing, Same, Shifted
  <2>. QED  BY <1>2, <2>1, FitAfter DEF EdgeInv
<1>6. CertsNamed'
  <2>1. (job[j].kept.tls => pem[h] # 0) /\ pem' = pem
    BY <1>1 DEF EdgeInv, CertsNamed, Named, acme
  <2>2. Named(job[j])'
    BY <1>2 DEF Named
  <2>. QED  BY <1>1, <1>2, <1>3, <2>1, <2>2, NamedKept DEF EdgeInv
<1>7. Throttled'
  <2>1. PastAttempt(j)' => PastAttempt(j) /\ job'[j].host = job[j].host /\ job'[j].at # "order"
    BY <1>1, <1>2 DEF PastAttempt, IsCertifying, Same, Shifted
  <2>. QED  BY <1>1, <1>2, <2>1, ThrottleKept DEF EdgeInv, acme
<1>8. JobsApart'
  BY <1>1, <1>2, ApartKept DEF EdgeInv, Same, Shifted
<1>9. ASSUME h \notin raced PROVE HostKept(h)'
  <2>1. HostKept(h) /\ j \in On(h)
    BY <1>1, <1>9 DEF EdgeInv, HostsKept, On
  <2>2. \A i \in On(h) \ {j} : job[i].kind \in {"issue", "renew"} /\ job[i].at \notin {"test", "undo", "reload", "delete", "good"}
    BY <1>1, <1>9, <2>1, Bystanders
  <2>3. row[h] # Gone
    BY <1>1, <2>1 DEF HostKept, GoneClean
  <2>4. PairKept(h)'
    BY <1>1, <1>2, <2>1, PairUntouched DEF HostKept, acme
  <2>5. j \in On(h)' /\ \A i \in On(h)' \ {j} : i \in On(h) /\ job'[i] = job[i]
    BY <1>1, <1>2, OthersOn DEF Same, Shifted
  <2>6. FileKept(h)'
    <3>1. ~fallback => job[j].kept.ok
      BY <1>1, <2>1 DEF HostKept, FileKept
    <3>. QED  BY <1>1, <1>2, <1>3, <2>2, <2>5, <3>1 DEF FileKept
  <2>7. GoneClean(h)'
    BY <1>1, <1>2, <2>2, <2>3, <2>5 DEF GoneClean
  <2>8. ServedSoFar(h)'
    <3>1. ~row[h].error /\ job[j].kind = "issue" => AsSaved(h) /\ job[j].kept.n = row[h].n
      BY <1>1, <2>1, <2>2, <2>3 DEF HostKept, ServedSoFar
    <3>2. job[j].conf.n = row[h].n
      BY <1>1, <2>1, <2>3 DEF HostKept, ServedSoFar
    <3>3. ~row[h].error /\ job[j].kind = "issue" => AsSaved(h)'
      BY <1>1, <1>3, <3>1 DEF AsSaved, TakenUp
    <3>4. ~row[h].error /\ (\A i \in On(h)' : job'[i].kind \notin {"deploy", "remove"}) => AsSaved(h)'
      BY <1>1, <1>2, <2>5, <3>3 DEF Same, Shifted
    <3>5. \A i \in On(h)' \ {j} : /\ job'[i].kind = "issue" => job'[i].conf.n = row[h].n
                                  /\ job'[i].kind # "deploy" /\ job'[i].at \notin {"test", "undo", "reload"}
      BY <1>1, <2>1, <2>2, <2>3, <2>5 DEF HostKept, ServedSoFar
    <3>. QED  BY <1>1, <1>2, <2>3, <2>5, <3>2, <3>4, <3>5 DEF ServedSoFar, Same, Shifted
  <2>. QED  BY <2>4, <2>6, <2>7, <2>8 DEF HostKept
<1>10. HostsKept'
  BY <1>1, <1>2, <1>3, <1>9, OwnHost DEF EdgeInv, Away, acme, Same, Shifted, TakenUp
<1>. QED  BY <1>4, <1>5, <1>6, <1>7, <1>8, <1>10 DEF EdgeInv

LEMMA DiskLoads ==
  ASSUME EdgeTypes
  PROVE  AsOnDisk \in [Hosts -> [conf : Files, cert : 0..MaxOrders]] /\ \A h \in Hosts : AsOnDisk[h].conf = file[h]
<1>1. \A h \in Hosts : file[h] \in Files /\ (IF file[h].tls THEN pem[h] ELSE 0) \in 0..MaxOrders
  BY EdgeNumbers DEF EdgeTypes
<1>. QED  BY <1>1 DEF AsOnDisk

\* The master reads the files: what is served is what is on disk, or it is behind.
LEMMA MasterKeeps == ASSUME EdgeInv, MasterReloads PROVE EdgeInv'
<1>1. /\ signalled' = FALSE /\ behind' = ~NginxTest
      /\ loaded' = IF fallback THEN NothingServed ELSE IF AllStand THEN AsOnDisk ELSE loaded
      /\ UNCHANGED <<row, file, fallback, pem, key, tried, spent, txt, aged, expired, job, orders, asked, restarts, raced>>
  BY DEF MasterReloads
<1>2. /\ loaded' \in [Hosts -> [conf : Files, cert : 0..MaxOrders]]
      /\ AllStand /\ ~fallback => \A h \in Hosts : loaded'[h].conf = file[h]
  BY <1>1, DiskLoads, EdgeEmpty DEF EdgeInv, EdgeTypes
<1>3. EdgeTypes' /\ Counted'
  BY <1>1, <1>2 DEF EdgeInv, EdgeTypes, Counted
<1>4. JobsFit' /\ CertsNamed' /\ Throttled' /\ JobsApart'
  BY <1>1 DEF EdgeInv, JobsFit, CertsNamed, Named, Throttled, PastAttempt, JobsApart
<1>5. TakenUp' => AllStand /\ ~fallback
  BY <1>1 DEF TakenUp, NginxTest
<1>6. ASSUME NEW h \in Hosts \ raced' PROVE HostKept(h)'
  <2>1. HostKept(h)
    BY <1>1, <1>6 DEF EdgeInv, HostsKept
  <2>2. RowKept(h) /\ (\A i \in Jobs : Quiet(i, h)) /\ \A i \in On(h) \cup On(h)' : job'[i] = job[i]
    BY <1>1 DEF RowKept, Quiet, On
  <2>. QED  BY <1>1, <1>2, <1>5, <2>1, <2>2, HostUntouched
<1>7. HostsKept'
  BY <1>6 DEF HostsKept
<1>. QED  BY <1>3, <1>4, <1>7 DEF EdgeInv

LEMMA ReloadKeeps == ASSUME EdgeInv, NEW j \in Jobs, Reload(j) PROVE EdgeInv'
<1>0. PICK h \in Hosts : h = job[j].host
  BY EdgeJobs DEF EdgeInv, Reload, At
<1>1. /\ h = job[j].host /\ job[j] # Idle /\ job[j] \in JobType /\ JobFits(job[j]) /\ job[j].at = "reload" /\ job[j].kind \in {"deploy", "issue"}
      /\ UNCHANGED <<row, file, loaded, behind, fallback, acme, world, raced>> /\ NginxReload
  BY <1>0, EdgeJobs DEF EdgeInv, Reload, At, JobFits, Ordering, AtWork
<1>2. PICK s \in {"good", "bad"} : Go(j, s) /\ (s = "good" => NginxTest)
  BY DEF Reload
<1>3. JobTypes /\ Others(j) /\ job'[j] # Idle /\ Shifted(job'[j], job[j]) /\ job'[j].at = s
  <2>1. s \in Steps
    BY DEF Steps
  <2>. QED  BY <1>1, <1>2, <2>1, GoMoves, EdgeEmpty DEF EdgeInv
<1>4. signalled' \in BOOLEAN /\ (TakenUp' => TakenUp) /\ (s = "good" => ~TakenUp')
  BY <1>1, <1>2 DEF EdgeInv, EdgeTypes, NginxReload, TakenUp
<1>5. EdgeTypes' /\ Counted'
  BY <1>1, <1>4 DEF EdgeInv, EdgeTypes, Counted, world, acme
<1>6. JobsFit'
  <2>1. JobFits(job'[j])
    BY <1>1, <1>3 DEF JobFits, Placing, Same, Shifted
  <2>. QED  BY <1>3, <2>1, FitAfter DEF EdgeInv
<1>7. CertsNamed'
  <2>1. Named(job[j])'
    BY <1>3 DEF Named
  <2>. QED  BY <1>1, <1>3, <2>1, NamedKept DEF EdgeInv, acme
<1>8. Throttled'
  <2>1. PastAttempt(j)' => PastAttempt(j) /\ job'[j].host = job[j].host /\ job'[j].at # "order"
    BY <1>1, <1>3 DEF PastAttempt, IsCertifying, Same, Shifted
  <2>. QED  BY <1>1, <1>3, <2>1, ThrottleKept DEF EdgeInv, acme
<1>9. JobsApart'
  BY <1>1, <1>3, ApartKept DEF EdgeInv, Same, Shifted
<1>10. ASSUME h \notin raced PROVE HostKept(h)'
  <2>1. HostKept(h) /\ j \in On(h)
    BY <1>1, <1>10 DEF EdgeInv, HostsKept, On
  <2>2. \A i \in On(h) \ {j} : job[i].kind \in {"issue", "renew"} /\ job[i].at \notin {"test", "undo", "reload", "delete", "good"}
    BY <1>1, <1>10, <2>1, Bystanders
  <2>3. row[h] # Gone
    BY <1>1, <2>1 DEF HostKept, GoneClean
  <2>4. PairKept(h)'
    BY <1>1, <1>3, <2>1, PairUntouched DEF HostKept, acme
  <2>5. j \in On(h)' /\ \A i \in On(h)' \ {j} : i \in On(h) /\ job'[i] = job[i]
    BY <1>1, <1>3, OthersOn DEF Same, Shifted
  <2>6. FileKept(h)'
    <3>1. ~fallback => file[h].ok
      BY <1>1, <2>1, <2>2 DEF HostKept, FileKept
    <3>. QED  BY <1>1, <1>3, <2>2, <2>5, <3>1 DEF FileKept
  <2>7. GoneClean(h)'
    BY <1>1, <1>3, <2>2, <2>3, <2>5 DEF GoneClean
  <2>8. ServedSoFar(h)'
    <3>1. AsSaved(h) => AsSaved(h)'
      BY <1>1, <1>4 DEF AsSaved
    <3>2. job[j].conf.n = row[h].n /\ file[h].n = job[j].conf.n
      BY <1>1, <2>1, <2>3 DEF HostKept, ServedSoFar
    <3>3. s = "good" => AsSaved(h)'
      BY <1>1, <1>4, <3>2 DEF AsSaved
    <3>4. ~row[h].error /\ job[j].kind = "issue" => AsSaved(h)'
      BY <1>1, <2>1, <2>2, <2>3, <3>1 DEF HostKept, ServedSoFar
    <3>5. ~row[h].error /\ (\A i \in On(h)' : job'[i].kind \notin {"deploy", "remove"}) => AsSaved(h)'
      BY <1>1, <1>3, <2>5, <3>4 DEF Same, Shifted
    <3>6. \A i \in On(h)' \ {j} : /\ job'[i].kind = "issue" => job'[i].conf.n = row[h].n
                                  /\ job'[i].kind # "deploy" /\ job'[i].at \notin {"test", "undo", "reload"}
      BY <1>1, <2>1, <2>2, <2>3, <2>5 DEF HostKept, ServedSoFar
    <3>. QED  BY <1>1, <1>3, <2>3, <2>5, <3>2, <3>3, <3>5, <3>6 DEF ServedSoFar, Same, Shifted
  <2>. QED  BY <2>4, <2>6, <2>7, <2>8 DEF HostKept
<1>11. HostsKept'
  BY <1>1, <1>3, <1>4, <1>10, OwnHost DEF EdgeInv, Away, acme, Same, Shifted, TakenUp
<1>. QED  BY <1>5, <1>6, <1>7, <1>8, <1>9, <1>11 DEF EdgeInv

\* A deploy notes how it went, an issue does not.
LEMMA NoteKeeps ==
  ASSUME EdgeInv, NEW j \in Jobs, job[j] # Idle, NEW error \in BOOLEAN, Note(j, error), job[j].at = IF error THEN "bad" ELSE "good"
  PROVE  EdgeInv'
<1>0. PICK h \in Hosts : h = job[j].host
  BY EdgeJobs DEF EdgeInv
<1> DEFINE r == [row[h] EXCEPT !.error = error]
<1>1. /\ h = job[j].host /\ job[j] \in JobType /\ JobFits(job[j]) /\ job[j].kind \in {"deploy", "issue"} /\ job[j].at \in {"good", "bad"}
      /\ UNCHANGED <<edge, acme, world, raced>>
      /\ row' = IF row[h] = Gone \/ job[j].kind = "issue" THEN row ELSE [row EXCEPT ![h] = r]
      /\ job' = [job EXCEPT ![j] = Idle]
  BY <1>0, EdgeJobs DEF EdgeInv, Note, JobFits, Ordering, AtWork
<1>2. JobTypes /\ Others(j) /\ job'[j] = Idle
  BY <1>1, IdleMoves DEF EdgeInv
<1>3. row[h] # Gone => r \in RowType /\ r.n = row[h].n /\ r.error = error
  <2>1. row[h] # Gone => row[h] \in RowType
    BY EdgeRows DEF EdgeInv, EdgeTypes
  <2>. QED  BY <2>1 DEF RowType
<1> HIDE DEF r
<1>4. /\ row' \in [Hosts -> Rows] /\ \A g \in Hosts \ {h} : row'[g] = row[g]
      /\ row'[h] = Gone <=> row[h] = Gone
      /\ row[h] # Gone => row'[h].n = row[h].n /\ row'[h].error = IF job[j].kind = "issue" THEN row[h].error ELSE error
  <2>1. CASE row[h] = Gone \/ job[j].kind = "issue"
    BY <1>1, <2>1 DEF EdgeInv, EdgeTypes
  <2>2. CASE ~(row[h] = Gone \/ job[j].kind = "issue")
    <3>1. r \in Rows /\ r # Gone
      BY <1>3, <2>2, EdgeRows DEF Rows, RowType
    <3>. QED  BY <1>1, <1>3, <2>2, <3>1 DEF EdgeInv, EdgeTypes
  <2>. QED  BY <2>1, <2>2
<1>5. EdgeTypes' /\ Counted'
  <2>1. Counted'
    BY <1>1, <1>4 DEF EdgeInv, Counted, world, acme
  <2>. QED  BY <1>1, <1>4, <2>1 DEF EdgeInv, EdgeTypes, edge, nginx, world, acme
<1>6. JobsFit'
  BY <1>2, FitAfter DEF EdgeInv
<1>7. CertsNamed'
  BY <1>1, <1>2, NamedKept DEF EdgeInv, acme, edge, nginx
<1>8. Throttled'
  <2>1. ~PastAttempt(j)'
    BY <1>2 DEF PastAttempt
  <2>. QED  BY <1>1, <1>2, <2>1, ThrottleKept DEF EdgeInv, acme
<1>9. JobsApart'
  BY <1>1, <1>2, ApartKept DEF EdgeInv
<1>10. ASSUME h \notin raced PROVE HostKept(h)'
  <2>1. HostKept(h) /\ j \in On(h)
    BY <1>1, <1>10 DEF EdgeInv, HostsKept, On
  <2>2. \A i \in On(h) \ {j} : job[i].kind \in {"issue", "renew"} /\ job[i].at \notin {"test", "undo", "reload", "delete", "good"}
    BY <1>1, <1>10, <2>1, Bystanders
  <2>3. row[h] # Gone
    BY <1>1, <2>1 DEF HostKept, GoneClean
  <2>4. PairKept(h)'
    BY <1>1, <1>2, <2>1, PairUntouched DEF HostKept, acme
  <2>5. j \notin On(h)' /\ \A i \in On(h)' : i \in On(h) \ {j} /\ job'[i] = job[i]
    BY <1>2, OthersOn
  <2>6. UNCHANGED <<file, loaded, signalled, behind, fallback>>
    BY <1>1 DEF edge, nginx
  <2>7. FileKept(h)'
    <3>1. ~fallback => file[h].ok
      BY <1>1, <2>1, <2>2 DEF HostKept, FileKept
    <3>. QED  BY <2>2, <2>5, <2>6, <3>1 DEF FileKept
  <2>8. GoneClean(h)'
    BY <1>4, <2>2, <2>3, <2>5 DEF GoneClean
  <2>9. ServedSoFar(h)'
    <3>1. AsSaved(h) => AsSaved(h)'
      BY <1>4, <2>3, <2>6 DEF AsSaved, TakenUp
    <3>2. ~row'[h].error => AsSaved(h)
      <4>1. CASE job[j].kind = "issue"
        BY <1>1, <1>4, <2>1, <2>2, <2>3, <4>1 DEF HostKept, ServedSoFar
      <4>2. CASE job[j].kind = "deploy"
        BY <1>1, <1>4, <2>1, <2>3, <4>2 DEF HostKept, ServedSoFar
      <4>. QED  BY <1>1, <4>1, <4>2
    <3>3. \A i \in On(h)' : /\ job'[i].kind = "issue" => job'[i].conf.n = row[h].n
                            /\ job'[i].kind # "deploy" /\ job'[i].at \notin {"test", "undo", "reload"}
      BY <2>1, <2>2, <2>3, <2>5 DEF HostKept, ServedSoFar
    <3>. QED  BY <1>4, <2>3, <3>1, <3>2, <3>3 DEF ServedSoFar
  <2>. QED  BY <2>4, <2>7, <2>8, <2>9 DEF HostKept
<1>11. HostsKept'
  BY <1>1, <1>2, <1>4, <1>10, OwnHost DEF EdgeInv, Away, edge, nginx, acme, TakenUp
<1>. QED  BY <1>5, <1>6, <1>7, <1>8, <1>9, <1>11 DEF EdgeInv

LEMMA DeployedKeeps == ASSUME EdgeInv, NEW j \in Jobs, Deployed(j) \/ DeployFailed(j) PROVE EdgeInv'
<1>1. CASE Deployed(j)
  BY <1>1, NoteKeeps DEF Deployed, At
<1>2. CASE DeployFailed(j)
  BY <1>2, NoteKeeps DEF DeployFailed, At
<1>. QED  BY <1>1, <1>2

LEMMA UnlinkKeeps == ASSUME EdgeInv, NEW j \in Jobs, Unlink(j) PROVE EdgeInv'
<1>0. PICK h \in Hosts : h = job[j].host
  BY EdgeJobs DEF EdgeInv, Unlink, At
<1>1. /\ h = job[j].host /\ job[j] # Idle /\ job[j] \in JobType /\ JobFits(job[j]) /\ job[j].at = "unlink" /\ job[j].kind = "remove"
      /\ UNCHANGED <<row, loaded, signalled, behind, fallback, acme, world, raced>> /\ file' = [file EXCEPT ![h] = NoFile]
  BY <1>0, EdgeJobs DEF EdgeInv, EdgeTypes, Unlink, nginx, At, JobFits, Ordering, Placing, AtWork
<1>2. /\ JobTypes /\ Others(j) /\ job'[j] # Idle /\ job'[j].at = "delete"
      /\ job'[j].kind = "remove" /\ job'[j].host = h /\ job'[j].staging = job[j].staging
  <2>1. PICK f \in Files : f = file[h]
    BY DEF EdgeInv, EdgeTypes
  <2>2. "delete" \in Steps /\ JobsFit
    BY DEF Steps, EdgeInv
  <2>3. job' = [job EXCEPT ![j].at = "delete", ![j].kept = f]
    BY <1>1, <2>1 DEF Unlink
  <2>4. /\ JobTypes /\ Others(j) /\ job'[j] \in JobType /\ job'[j].at = "delete"
        /\ job'[j].kind = job[j].kind /\ job'[j].host = job[j].host /\ job'[j].staging = job[j].staging
    BY <1>1, <2>2, <2>3, KeepMoves
  <2>. QED  BY <1>1, <2>4, EdgeEmpty
<1>3. file'[h] = NoFile /\ \A g \in Hosts \ {h} : file'[g] = file[g]
  BY <1>1 DEF EdgeInv, EdgeTypes
<1>4. EdgeTypes' /\ Counted'
  BY <1>1, EdgeEmpty DEF EdgeInv, EdgeTypes, Counted, world, acme
<1>5. JobsFit'
  <2>1. JobFits(job'[j])
    BY <1>1, <1>2 DEF JobFits, Placing
  <2>. QED  BY <1>2, <2>1, FitAfter DEF EdgeInv
<1>6. CertsNamed'
  <2>1. Named(job[j])'
    BY <1>2 DEF Named
  <2>. QED  BY <1>1, <1>2, <1>3, <2>1, NamedKept, EdgeEmpty DEF EdgeInv, acme
<1>7. Throttled'
  <2>1. ~PastAttempt(j)'
    BY <1>2 DEF PastAttempt, IsCertifying
  <2>. QED  BY <1>1, <1>2, <2>1, ThrottleKept DEF EdgeInv, acme
<1>8. JobsApart'
  BY <1>1, <1>2, ApartKept DEF EdgeInv
<1>9. ASSUME h \notin raced PROVE HostKept(h)'
  <2>1. HostKept(h) /\ j \in On(h)
    BY <1>1, <1>9 DEF EdgeInv, HostsKept, On
  <2>2. \A i \in On(h) \ {j} : job[i].kind \in {"issue", "renew"} /\ job[i].at \notin {"test", "undo", "reload", "delete", "good"}
    BY <1>1, <1>9, <2>1, Bystanders
  <2>3. row[h] # Gone
    BY <1>1, <2>1 DEF HostKept, GoneClean
  <2>4. PairKept(h)'
    BY <1>1, <1>2, <2>1, PairUntouched DEF HostKept, acme
  <2>5. j \in On(h)' /\ \A i \in On(h)' \ {j} : i \in On(h) /\ job'[i] = job[i]
    BY <1>2, OthersOn
  <2>6. FileKept(h)'
    BY <1>2, <1>3, <2>2, <2>5, EdgeEmpty DEF FileKept
  <2>7. GoneClean(h)'
    BY <1>1, <1>2, <1>3, <2>2, <2>3, <2>5 DEF GoneClean
  <2>8. ServedSoFar(h)'
    <3>1. \A i \in On(h)' \ {j} : /\ job'[i].kind = "issue" => job'[i].conf.n = row[h].n
                                  /\ job'[i].kind # "deploy" /\ job'[i].at \notin {"test", "undo", "reload"}
      BY <1>1, <2>1, <2>2, <2>3, <2>5 DEF HostKept, ServedSoFar
    <3>. QED  BY <1>1, <1>2, <2>3, <2>5, <3>1 DEF ServedSoFar
  <2>. QED  BY <2>4, <2>6, <2>7, <2>8 DEF HostKept
<1>10. HostsKept'
  BY <1>1, <1>2, <1>3, <1>9, OwnHost DEF EdgeInv, Away, acme, TakenUp
<1>. QED  BY <1>4, <1>5, <1>6, <1>7, <1>8, <1>10 DEF EdgeInv

LEMMA RemoveRowKeeps == ASSUME EdgeInv, NEW j \in Jobs, RemoveRow(j) PROVE EdgeInv'
<1>0. PICK h \in Hosts : h = job[j].host
  BY EdgeJobs DEF EdgeInv, RemoveRow, At
<1>1. /\ h = job[j].host /\ job[j] # Idle /\ job[j] \in JobType /\ JobFits(job[j]) /\ job[j].at = "delete" /\ job[j].kind = "remove"
      /\ UNCHANGED <<file, loaded, behind, fallback, acme, world, raced>> /\ row' = [row EXCEPT ![h] = Gone]
      /\ job' = [job EXCEPT ![j] = Idle] /\ (UNCHANGED signalled \/ NginxReload)
  BY <1>0, EdgeJobs DEF EdgeInv, RemoveRow, At, JobFits, Ordering, Placing, AtWork
<1>2. JobTypes /\ Others(j) /\ job'[j] = Idle
  BY <1>1, IdleMoves DEF EdgeInv
<1>3. /\ row'[h] = Gone /\ \A g \in Hosts \ {h} : row'[g] = row[g]
      /\ row' \in [Hosts -> Rows]
  BY <1>1 DEF EdgeInv, EdgeTypes, Rows
<1>4. signalled' \in BOOLEAN /\ (TakenUp' => TakenUp)
  <2>1. CASE UNCHANGED signalled
    <3>1. signalled \in BOOLEAN /\ UNCHANGED <<signalled, behind, fallback>>
      BY <1>1, <2>1 DEF EdgeInv, EdgeTypes
    <3>. QED  BY <3>1 DEF TakenUp
  <2>2. CASE NginxReload
    <3>1. signalled' = (signalled \/ NginxTest) /\ UNCHANGED <<behind, fallback>>
      BY <1>1, <2>2 DEF NginxReload
    <3>. QED  BY <3>1 DEF TakenUp
  <2>. QED  BY <1>1, <2>1, <2>2
<1>5. EdgeTypes' /\ Counted'
  <2>1. Counted'
    BY <1>1, <1>3 DEF EdgeInv, Counted, world, acme
  <2>. QED  BY <1>1, <1>3, <1>4, <2>1 DEF EdgeInv, EdgeTypes, world, acme
<1>6. JobsFit'
  BY <1>2, FitAfter DEF EdgeInv
<1>7. CertsNamed'
  BY <1>1, <1>2, NamedKept DEF EdgeInv, acme
<1>8. Throttled'
  <2>1. ~PastAttempt(j)'
    BY <1>2 DEF PastAttempt
  <2>. QED  BY <1>1, <1>2, <2>1, ThrottleKept DEF EdgeInv, acme
<1>9. JobsApart'
  BY <1>1, <1>2, ApartKept DEF EdgeInv
<1>10. ASSUME h \notin raced PROVE HostKept(h)'
  <2>1. HostKept(h) /\ j \in On(h)
    BY <1>1, <1>10 DEF EdgeInv, HostsKept, On
  <2>2. \A i \in On(h) \ {j} : job[i].kind = "renew" /\ job[i].at \notin {"test", "undo", "reload", "delete", "good"}
    BY <1>1, <1>10, <2>1, Bystanders DEF Alone
  <2>3. PairKept(h)'
    BY <1>1, <1>2, <2>1, PairUntouched DEF HostKept, acme
  <2>4. \A i \in On(h)' : i \in On(h) \ {j} /\ job'[i] = job[i]
    BY <1>2, OthersOn
  <2>5. file'[h] = NoFile
    BY <1>1, <2>1 DEF HostKept, GoneClean
  <2>6. FileKept(h)' /\ GoneClean(h)' /\ ServedSoFar(h)'
    BY <1>3, <2>2, <2>4, <2>5, EdgeEmpty DEF FileKept, GoneClean, ServedSoFar
  <2>. QED  BY <2>3, <2>6 DEF HostKept
<1>11. HostsKept'
  BY <1>1, <1>2, <1>3, <1>4, <1>10, OwnHost DEF EdgeInv, Away, acme, TakenUp
<1>. QED  BY <1>5, <1>6, <1>7, <1>8, <1>9, <1>11 DEF EdgeInv

\* A request begins with its host to itself, or the host is raced.
LEMMA MeetsNobody ==
  ASSUME EdgeInv, NEW j \in Jobs, job[j] = Idle, NEW h \in Hosts, raced' = Meets(h)
  PROVE  /\ raced \subseteq raced' /\ raced' \subseteq Hosts
         /\ h \notin raced' => On(h) = {} /\ HostKept(h)
BY DEF Meets, EdgeInv, EdgeTypes, HostsKept

LEMMA RequestKeeps ==
  ASSUME EdgeInv, NEW j \in Jobs, NEW h \in Hosts, job[j] = Idle,
         JobTypes, Others(j), job'[j] \in JobType, job'[j].host = h, ~job'[j].staging,
         \/ job'[j].kind = "deploy" /\ job'[j].at = "read"
         \/ job'[j].kind = "remove" /\ job'[j].at = "unlink",
         UNCHANGED <<edge, acme, aged, expired, restarts>>, raced' = Meets(h),
         asked < MaxRequests, asked' = asked + 1,
         row' \in [Hosts -> Rows], \A g \in Hosts \ {h} : row'[g] = row[g], row'[h] # Gone, row'[h].n <= asked'
  PROVE  EdgeInv'
<1>1. job'[j] # Idle /\ raced \subseteq raced' /\ raced' \subseteq Hosts
  BY EdgeEmpty, MeetsNobody
<1>2. EdgeTypes' /\ Counted'
  <2>1. asked' \in 0..MaxRequests /\ asked <= asked' /\ asked \in Nat
    BY EdgeNumbers DEF EdgeInv, EdgeTypes
  <2>2. \A g \in Hosts : row'[g] # Gone => row'[g].n <= asked'
    <3>1. ASSUME NEW g \in Hosts, g # h, row[g] # Gone PROVE row[g].n <= asked'
      <4>1. row[g].n <= asked /\ row[g].n \in 1..MaxRequests
        BY <3>1, EdgeRows DEF EdgeInv, Counted, EdgeTypes
      <4>. QED  BY <2>1, <4>1, EdgeNumbers
    <3>. QED  BY <3>1
  <2>. QED  BY <1>1, <2>1, <2>2 DEF EdgeInv, EdgeTypes, Counted, edge, nginx, acme
<1>3. JobsFit'
  <2>1. JobFits(job'[j])
    BY DEF JobFits
  <2>. QED  BY <2>1, FitAfter DEF EdgeInv
<1>4. CertsNamed'
  <2>1. Named(job[j])'
    BY DEF Named
  <2>. QED  BY <2>1, NamedKept DEF EdgeInv, acme, edge, nginx
<1>5. Throttled'
  <2>1. ~PastAttempt(j)'
    BY DEF PastAttempt, IsCertifying
  <2>. QED  BY <2>1, ThrottleKept DEF EdgeInv, acme
<1>6. JobsApart'
  BY ApartBegins DEF EdgeInv
<1>7. ASSUME h \notin raced' PROVE HostKept(h)'
  <2>1. On(h) = {} /\ HostKept(h)
    BY <1>7, MeetsNobody
  <2>2. On(h)' = {j}
    BY <1>1, <2>1, OthersOn
  <2>3. PairKept(h)' /\ FileKept(h)' /\ GoneClean(h)' /\ ServedSoFar(h)'
    BY <2>1, <2>2 DEF HostKept, PairKept, FileKept, GoneClean, ServedSoFar, edge, nginx, acme
  <2>. QED  BY <2>3 DEF HostKept
<1>8. HostsKept'
  BY <1>1, <1>7, OwnHost DEF EdgeInv, Away, acme, edge, nginx, TakenUp
<1>. QED  BY <1>2, <1>3, <1>4, <1>5, <1>6, <1>8 DEF EdgeInv

LEMMA SaveRow ==
  ASSUME EdgeInv, NEW j \in Jobs, NEW h \in Hosts, Save(j, h)
  PROVE  row' \in [Hosts -> Rows] /\ (\A g \in Hosts \ {h} : row'[g] = row[g]) /\ row'[h] # Gone /\ row'[h].n <= asked'
<1>1. asked < MaxRequests /\ asked' = asked + 1 /\ asked \in Nat /\ 1 \in 1..MaxRequests
  BY EdgeNumbers DEF Save, Ask, EdgeInv, EdgeTypes
<1>2. PICK ok \in BOOLEAN :
        row' = [row EXCEPT ![h] = IF row[h] = Gone THEN [is |-> "row", n |-> 1, ok |-> ok, cert |-> 0, error |-> FALSE, enabled |-> TRUE]
                                  ELSE [row[h] EXCEPT !.n = @ + 1, !.ok = ok]]
  BY DEF Save
<1>3. CASE row[h] = Gone
  <2> DEFINE r == [is |-> "row", n |-> 1, ok |-> ok, cert |-> 0, error |-> FALSE, enabled |-> TRUE]
  <2>1. r \in RowType /\ r.n = 1
    BY <1>1, EdgeNumbers DEF RowType
  <2>2. row' = [row EXCEPT ![h] = r]
    BY <1>2, <1>3
  <2>. HIDE DEF r
  <2>3. r \in Rows /\ r # Gone
    BY <2>1, EdgeRows DEF Rows, RowType
  <2>4. 1 <= asked'
    BY <1>1
  <2>. QED  BY <2>1, <2>2, <2>3, <2>4 DEF EdgeInv, EdgeTypes
<1>4. CASE row[h] # Gone
  <2> DEFINE n == row[h].n + 1
             r == [row[h] EXCEPT !.n = n, !.ok = ok]
  <2>1. row[h] \in RowType /\ row[h].n \in 1..MaxRequests /\ row[h].n <= asked
    BY <1>4, EdgeRows DEF EdgeInv, EdgeTypes, Counted
  <2>2. n \in 1..MaxRequests /\ n <= asked'
    BY <1>1, <2>1, EdgeNumbers
  <2>3. row' = [row EXCEPT ![h] = r]
    BY <1>2, <1>4
  <2>. HIDE DEF n
  <2>4. r \in RowType /\ r.n = n
    BY <2>1, <2>2 DEF RowType
  <2>. HIDE DEF r
  <2>5. r \in Rows /\ r # Gone
    BY <2>4, EdgeRows DEF Rows, RowType
  <2>. QED  BY <2>2, <2>3, <2>4, <2>5 DEF EdgeInv, EdgeTypes
<1>. QED  BY <1>3, <1>4

LEMMA SaveKeepsEdge == ASSUME EdgeInv, NEW j \in Jobs, NEW h \in Hosts, Save(j, h) PROVE EdgeInv'
<1>1. /\ job[j] = Idle /\ Begin(j, "deploy", h, "read") /\ raced' = Meets(h)
      /\ UNCHANGED <<edge, acme, aged, expired, restarts>> /\ asked < MaxRequests /\ asked' = asked + 1
  BY DEF Save, Ask, Free
<1>2. /\ JobTypes /\ Others(j) /\ job'[j] \in JobType
      /\ job'[j].kind = "deploy" /\ job'[j].host = h /\ job'[j].at = "read" /\ ~job'[j].staging
  BY <1>1, BeginMoves DEF EdgeInv, AtWork, Steps
<1>. QED  BY <1>1, <1>2, SaveRow, RequestKeeps

LEMMA RedeployKeeps == ASSUME EdgeInv, NEW j \in Jobs, NEW h \in Hosts, Redeploy(j, h) PROVE EdgeInv'
<1> DEFINE r == [row[h] EXCEPT !.error = FALSE]
<1>1. /\ job[j] = Idle /\ Begin(j, "deploy", h, "read") /\ raced' = Meets(h) /\ row[h] # Gone /\ row' = [row EXCEPT ![h] = r]
      /\ UNCHANGED <<edge, acme, aged, expired, restarts>> /\ asked < MaxRequests /\ asked' = asked + 1
  BY DEF Redeploy, Ask, Free
<1>2. /\ JobTypes /\ Others(j) /\ job'[j] \in JobType
      /\ job'[j].kind = "deploy" /\ job'[j].host = h /\ job'[j].at = "read" /\ ~job'[j].staging
  BY <1>1, BeginMoves DEF EdgeInv, AtWork, Steps
<1>3. row[h] \in RowType /\ row[h].n <= asked /\ row[h].n \in 1..MaxRequests /\ asked \in Nat
  BY <1>1, EdgeRows, EdgeNumbers DEF EdgeInv, EdgeTypes, Counted
<1>4. r \in RowType /\ r.n = row[h].n
  BY <1>3 DEF RowType
<1>. HIDE DEF r
<1>5. r \in Rows /\ r # Gone
  BY <1>4, EdgeRows DEF Rows, RowType
<1>6. row' \in [Hosts -> Rows] /\ (\A g \in Hosts \ {h} : row'[g] = row[g]) /\ row'[h] = r
  BY <1>1, <1>5 DEF EdgeInv, EdgeTypes
<1>7. row'[h].n <= asked'
  BY <1>1, <1>3, <1>4, <1>6, EdgeNumbers
<1>. QED  BY <1>1, <1>2, <1>5, <1>6, <1>7, RequestKeeps

\* Switching off leaves all but the flag of the row as it was.
LEMMA ToggleKeepsEdge == ASSUME EdgeInv, NEW j \in Jobs, NEW h \in Hosts, Toggle(j, h) PROVE EdgeInv'
<1> DEFINE r == [row[h] EXCEPT !.enabled = ~@]
<1>1. /\ job[j] = Idle /\ row[h] # Gone /\ row' = [row EXCEPT ![h] = r]
      /\ UNCHANGED <<edge, acme, aged, expired, restarts>> /\ asked < MaxRequests /\ asked' = asked + 1
  BY DEF Toggle, Ask, Free
<1>2. row[h] \in RowType /\ row[h].n <= asked /\ row[h].n \in 1..MaxRequests /\ asked \in Nat
  BY <1>1, EdgeRows, EdgeNumbers DEF EdgeInv, EdgeTypes, Counted
<1>3. r \in RowType /\ r.n = row[h].n /\ r.error = row[h].error
  BY <1>2 DEF RowType
<1>. HIDE DEF r
<1>4. r \in Rows /\ r # Gone
  BY <1>3, EdgeRows DEF Rows, RowType
<1>5. row' \in [Hosts -> Rows] /\ (\A g \in Hosts \ {h} : row'[g] = row[g]) /\ row'[h] = r
  BY <1>1, <1>4 DEF EdgeInv, EdgeTypes
<1>6. row'[h].n <= asked'
  BY <1>1, <1>2, <1>3, <1>5, EdgeNumbers
<1>7. CASE ~row[h].enabled
  <2>1. Begin(j, "deploy", h, "read") /\ raced' = Meets(h)
    BY <1>7 DEF Toggle
  <2>2. /\ JobTypes /\ Others(j) /\ job'[j] \in JobType
        /\ job'[j].kind = "deploy" /\ job'[j].host = h /\ job'[j].at = "read" /\ ~job'[j].staging
    BY <2>1, BeginMoves DEF EdgeInv, AtWork, Steps
  <2>. QED  BY <1>1, <1>4, <1>5, <1>6, <2>1, <2>2, RequestKeeps
<1>8. CASE row[h].enabled
  <2>1. UNCHANGED <<job, raced, file, loaded, signalled, behind, fallback, pem, key, tried, spent, txt, orders, aged, expired, restarts>>
    BY <1>1, <1>8 DEF Toggle, edge, nginx, acme
  <2>2. \A g \in Hosts : RowKept(g)
    BY <1>1, <1>3, <1>4, <1>5 DEF RowKept
  <2>3. asked' \in 0..MaxRequests /\ asked <= asked'
    BY <1>1, <1>2, EdgeNumbers
  <2>4. Counted'
    <3>1. ASSUME NEW g \in Hosts, g # h, row[g] # Gone PROVE row[g].n <= asked'
      <4>1. row[g].n <= asked /\ row[g].n \in 1..MaxRequests
        BY <3>1, EdgeRows DEF EdgeInv, Counted, EdgeTypes
      <4>. QED  BY <1>2, <2>3, <4>1, EdgeNumbers
    <3>. QED  BY <1>5, <1>6, <2>1, <3>1 DEF EdgeInv, Counted
  <2>5. EdgeTypes'
    BY <1>5, <2>1, <2>3 DEF EdgeInv, EdgeTypes
  <2>6. JobsFit' /\ CertsNamed' /\ Throttled' /\ JobsApart'
    BY <2>1 DEF EdgeInv, JobsFit, CertsNamed, Named, Throttled, PastAttempt, JobsApart
  <2>7. ASSUME NEW g \in Hosts \ raced' PROVE HostKept(g)'
    <3>1. HostKept(g)
      BY <2>1, <2>7 DEF EdgeInv, HostsKept
    <3>2. (\A i \in Jobs : Quiet(i, g)) /\ \A i \in On(g) \cup On(g)' : job'[i] = job[i]
      BY <2>1 DEF Quiet, On
    <3>3. TakenUp' => TakenUp
      BY <2>1 DEF TakenUp
    <3>. QED  BY <2>1, <2>2, <3>1, <3>2, <3>3, HostUntouched
  <2>8. HostsKept'
    BY <2>7 DEF HostsKept
  <2>. QED  BY <2>4, <2>5, <2>6, <2>8 DEF EdgeInv
<1>. QED  BY <1>7, <1>8

LEMMA DeleteKeepsEdge == ASSUME EdgeInv, NEW j \in Jobs, NEW h \in Hosts, Delete(j, h) PROVE EdgeInv'
<1>1. /\ job[j] = Idle /\ Begin(j, "remove", h, "unlink") /\ raced' = Meets(h) /\ row[h] # Gone /\ row' = row
      /\ UNCHANGED <<edge, acme, aged, expired, restarts>> /\ asked < MaxRequests /\ asked' = asked + 1
  BY DEF Delete, Ask, Free
<1>2. /\ JobTypes /\ Others(j) /\ job'[j] \in JobType
      /\ job'[j].kind = "remove" /\ job'[j].host = h /\ job'[j].at = "unlink" /\ ~job'[j].staging
  BY <1>1, BeginMoves DEF EdgeInv, AtWork, Steps
<1>3. row' \in [Hosts -> Rows] /\ row'[h].n <= asked'
  <2>1. row[h].n <= asked /\ row[h].n \in 1..MaxRequests /\ asked \in Nat
    BY <1>1, EdgeRows, EdgeNumbers DEF EdgeInv, EdgeTypes, Counted
  <2>. QED  BY <1>1, <2>1, EdgeNumbers DEF EdgeInv, EdgeTypes
<1>. QED  BY <1>1, <1>2, <1>3, RequestKeeps

LEMMA IssueKeepsEdge == ASSUME EdgeInv, NEW j \in Jobs, NEW h \in Hosts, NEW staging \in BOOLEAN, Issue(j, h, staging) PROVE EdgeInv'
<1>1. /\ job[j] = Idle /\ row[h] # Gone /\ asked < MaxRequests /\ asked' = asked + 1
      /\ raced' = IF ~staging /\ Acquiring(h) /\ On(h) = Certifying(h) THEN raced ELSE Meets(h)
      /\ UNCHANGED <<row, edge, acme, aged, expired, restarts>>
  BY DEF Issue, Ask, Free
<1>2. /\ JobTypes /\ Others(j) /\ job'[j] \in JobType /\ job'[j] # Idle
      /\ job'[j].kind = "issue" /\ job'[j].host = h /\ job'[j].at = "attempt" /\ job'[j].staging = staging
      /\ job'[j].conf.n = row[h].n
  <2>1. row[h] \in RowType
    BY <1>1, EdgeRows DEF EdgeInv, EdgeTypes
  <2>. QED  BY <2>1, IssueMoves, EdgeEmpty DEF EdgeInv
<1>3. raced \subseteq raced' /\ raced' \subseteq Hosts
  BY <1>1, MeetsNobody DEF EdgeInv, EdgeTypes
<1>4. EdgeTypes' /\ Counted'
  <2>1. asked' \in 0..MaxRequests /\ asked <= asked' /\ asked \in Nat
    BY <1>1, EdgeNumbers DEF EdgeInv, EdgeTypes
  <2>2. ASSUME NEW g \in Hosts, row[g] # Gone PROVE row[g].n <= asked'
    <3>1. row[g].n <= asked /\ row[g].n \in 1..MaxRequests
      BY <2>2, EdgeRows DEF EdgeInv, Counted, EdgeTypes
    <3>. QED  BY <2>1, <3>1, EdgeNumbers
  <2>. QED  BY <1>1, <1>3, <2>1, <2>2 DEF EdgeInv, EdgeTypes, Counted, edge, nginx, acme
<1>5. JobsFit'
  <2>1. JobFits(job'[j])
    BY <1>2 DEF JobFits
  <2>. QED  BY <1>2, <2>1, FitAfter DEF EdgeInv
<1>6. CertsNamed'
  <2>1. Named(job[j])'
    BY <1>2 DEF Named
  <2>. QED  BY <1>1, <1>2, <2>1, NamedKept DEF EdgeInv, acme, edge, nginx
<1>7. Throttled'
  <2>1. ~PastAttempt(j)'
    BY <1>2 DEF PastAttempt
  <2>. QED  BY <1>1, <1>2, <2>1, ThrottleKept DEF EdgeInv, acme
<1>8. CASE raced' = Meets(h)
  <2>1. JobsApart'
    BY <1>1, <1>2, <1>8, ApartBegins DEF EdgeInv
  <2>2. ASSUME h \notin raced' PROVE HostKept(h)'
    <3>1. On(h) = {} /\ HostKept(h)
      BY <1>1, <1>8, <2>2, MeetsNobody
    <3>2. On(h)' = {j}
      BY <1>2, <3>1, OthersOn
    <3>3. PairKept(h)' /\ FileKept(h)' /\ GoneClean(h)'
      BY <1>1, <1>2, <3>1, <3>2 DEF HostKept, PairKept, FileKept, GoneClean, edge, nginx, acme
    <3>4. ServedSoFar(h)'
      BY <1>1, <1>2, <3>1, <3>2 DEF HostKept, ServedSoFar, AsSaved, TakenUp, edge, nginx
    <3>. QED  BY <3>3, <3>4 DEF HostKept
  <2>3. HostsKept'
    BY <1>1, <1>2, <1>3, <2>2, OwnHost DEF EdgeInv, Away, acme, edge, nginx, TakenUp
  <2>. QED  BY <1>4, <1>5, <1>6, <1>7, <2>1, <2>3 DEF EdgeInv
<1>9. CASE raced' # Meets(h)
  <2>1. ~staging /\ raced' = raced /\ On(h) = Certifying(h)
    BY <1>1, <1>9
  <2>2. \A i \in Jobs : job[i] # Idle /\ job[i].host = h => job[i].kind \in {"issue", "renew"} /\ ~job[i].staging
    BY <2>1 DEF On, Certifying
  <2>3. JobsApart'
    <3>1. \A i \in Jobs \ {j} : job'[i] = job[i]
      BY <1>2 DEF Others
    <3>. QED  BY <1>2, <2>1, <2>2, <3>1 DEF EdgeInv, JobsApart, Alone
  <2>4. ASSUME h \notin raced PROVE HostKept(h)'
    <3>1. HostKept(h)
      BY <2>4 DEF EdgeInv, HostsKept
    <3>2. j \notin On(h) /\ j \in On(h)' /\ \A i \in On(h)' \ {j} : i \in On(h) /\ job'[i] = job[i]
      BY <1>1, <1>2, OthersOn
    <3>3. \A i \in On(h) : i \in On(h)' /\ i # j /\ job'[i] = job[i] /\ job[i].kind \notin {"deploy", "remove"}
      BY <1>1, <1>2, <2>2 DEF On, Others
    <3>4. PairKept(h)'
      BY <1>1, <1>2, <3>1, PairUntouched DEF HostKept, acme
    <3>5. UNCHANGED <<row, file, loaded, signalled, behind, fallback>>
      BY <1>1 DEF edge, nginx
    <3>6. FileKept(h)' /\ GoneClean(h)'
      BY <1>1, <1>2, <3>1, <3>2, <3>3, <3>5 DEF HostKept, FileKept, GoneClean
    <3>7. ServedSoFar(h)'
      <4>1. ~row[h].error => AsSaved(h)
        BY <1>1, <3>1, <3>3 DEF HostKept, ServedSoFar
      <4>. QED  BY <1>1, <1>2, <3>1, <3>2, <3>5, <4>1 DEF HostKept, ServedSoFar, AsSaved, TakenUp
    <3>. QED  BY <3>4, <3>6, <3>7 DEF HostKept
  <2>5. HostsKept'
    BY <1>1, <1>2, <2>1, <2>4, OwnHost DEF EdgeInv, Away, acme, edge, nginx, TakenUp
  <2>. QED  BY <1>4, <1>5, <1>6, <1>7, <2>3, <2>5 DEF EdgeInv
<1>. QED  BY <1>8, <1>9

LEMMA RestartKeeps == ASSUME EdgeInv, Restart PROVE EdgeInv'
<1>1. /\ restarts < MaxRestarts /\ restarts' = restarts + 1
      /\ raced' = raced \union {job[j].host : j \in {i \in Jobs : ~Free(i)}}
      /\ job' = [j \in Jobs |-> Idle] /\ tried' = {} /\ spent' = [h \in Hosts |-> 0]
      /\ fallback' = ~AllStand /\ signalled' = FALSE /\ behind' = FALSE
      /\ loaded' = IF AllStand THEN AsOnDisk ELSE NothingServed
      /\ UNCHANGED <<row, file, pem, key, txt, orders, asked, aged, expired>>
  BY DEF Restart
<1>2. \A j \in Jobs : job'[j] = Idle
  BY <1>1
<1>3. raced \subseteq raced' /\ raced' \subseteq Hosts /\ \A h \in Hosts \ raced' : On(h) = {}
  <2>1. \A j \in Jobs : ~Free(j) => job[j].host \in Hosts
    BY EdgeJobs DEF EdgeInv, Free
  <2>. QED  BY <1>1, <2>1 DEF EdgeInv, EdgeTypes, On, Free
<1>4. EdgeTypes' /\ Counted'
  <2>1. restarts' \in 0..MaxRestarts
    BY <1>1, EdgeNumbers DEF EdgeInv, EdgeTypes
  <2>2. loaded' \in [Hosts -> [conf : Files, cert : 0..MaxOrders]] /\ fallback' \in BOOLEAN
    BY <1>1, DiskLoads, EdgeEmpty DEF EdgeInv
  <2>3. signalled' \in BOOLEAN /\ behind' \in BOOLEAN
    BY <1>1
  <2>4. Counted'
    BY <1>1 DEF EdgeInv, Counted
  <2>. QED  BY <1>1, <1>3, <2>1, <2>2, <2>3, <2>4, EdgeNumbers DEF EdgeInv, EdgeTypes
<1>5. JobsFit'
  BY <1>1, <1>2 DEF JobsFit
<1>6. CertsNamed' /\ Throttled' /\ JobsApart'
  BY <1>1, <1>2 DEF EdgeInv, CertsNamed, Throttled, PastAttempt, JobsApart
<1>7. ASSUME NEW h \in Hosts \ raced' PROVE HostKept(h)'
  <2>1. HostKept(h) /\ On(h) = {} /\ On(h)' = {}
    BY <1>2, <1>3 DEF EdgeInv, HostsKept, On
  <2>2. ~fallback' => AllStand /\ loaded'[h].conf = file[h]
    BY <1>1, DiskLoads DEF EdgeInv
  <2>3. PairKept(h)' /\ GoneClean(h)'
    BY <1>1, <2>1 DEF HostKept, PairKept, GoneClean
  <2>4. FileKept(h)'
    BY <1>1, <2>1, <2>2 DEF FileKept, AllStand, Stands
  <2>5. ServedSoFar(h)'
    BY <1>1, <2>1, <2>2 DEF HostKept, ServedSoFar, AsSaved, TakenUp
  <2>. QED  BY <2>3, <2>4, <2>5 DEF HostKept
<1>8. HostsKept'
  BY <1>7 DEF HostsKept
<1>. QED  BY <1>4, <1>5, <1>6, <1>8 DEF EdgeInv

LEMMA EdgeInit == Init => EdgeInv
<1>. SUFFICES ASSUME Init PROVE EdgeInv
  OBVIOUS
<1>1. /\ row = [h \in Hosts |-> Gone] /\ file = [h \in Hosts |-> NoFile] 
      /\ loaded = NothingServed /\ signalled = FALSE /\ behind = FALSE /\ fallback = FALSE
      /\ pem = [h \in Hosts |-> 0] /\ key = [h \in Hosts |-> 0] /\ tried = {} /\ spent = [h \in Hosts |-> 0] /\ txt = {}
      /\ aged = {} /\ expired = {} /\ job = [j \in Jobs |-> Idle] /\ orders = 0 /\ asked = 0 /\ restarts = 0 /\ raced = {}
  BY DEF Init
<1>2. EdgeTypes /\ Counted
  <2>1. 0 \in 0..MaxOrders /\ 0 \in 0..MaxRequests /\ 0 \in 0..MaxRestarts
    BY EdgeNumbers
  <2>2. row \in [Hosts -> Rows] /\ file \in [Hosts -> Files] /\ Counted
    BY <1>1, EdgeEmpty DEF Rows, Counted
  <2>. QED  BY <1>1, <2>1, <2>2, EdgeEmpty DEF EdgeTypes
<1>3. JobsFit /\ Throttled /\ JobsApart
  BY <1>1 DEF JobsFit, Throttled, PastAttempt, JobsApart
<1>4. CertsNamed
  BY <1>1, EdgeEmpty DEF CertsNamed
<1>5. HostsKept
  BY <1>1, EdgeEmpty DEF HostsKept, HostKept, PairKept, FileKept, GoneClean, ServedSoFar, On
<1>. QED  BY <1>2, <1>3, <1>4, <1>5 DEF EdgeInv

LEMMA EdgeNext == EdgeInv /\ [Next]_vars => EdgeInv'
<1>. SUFFICES ASSUME EdgeInv, [Next]_vars PROVE EdgeInv'
  OBVIOUS
<1>1. ASSUME NEW j \in Jobs, NEW h \in Hosts,
             \/ Save(j, h) \/ Redeploy(j, h) \/ Toggle(j, h) \/ Delete(j, h)
             \/ \E staging \in BOOLEAN : Issue(j, h, staging)
      PROVE  EdgeInv'
  BY <1>1, SaveKeepsEdge, RedeployKeeps, ToggleKeepsEdge, DeleteKeepsEdge, IssueKeepsEdge
<1>2. ASSUME NEW j \in Jobs,
             \/ CheckAllCerts(j) \/ Attempt(j) \/ NoOrder(j) \/ Order(j) \/ Proof(j) \/ WriteCert(j) \/ WriteKey(j)
             \/ StoreMeta(j)
      PROVE  EdgeInv'
  BY <1>2, RenewalKeeps, AttemptKeeps, NoOrderKeeps, OrderKeeps, ProofKeeps, WriteCertKeeps, WriteKeyKeeps,
     StoreMetaKeeps
<1>3. ASSUME NEW j \in Jobs,
             \/ ReadRow(j) \/ Put(j) \/ Test(j) \/ Undo(j) \/ Reload(j)
             \/ Deployed(j) \/ DeployFailed(j) \/ Unlink(j) \/ RemoveRow(j)
      PROVE  EdgeInv'
  BY <1>3, ReadRowKeeps, PutKeepsFile, TestKeeps, UndoKeepsFile, ReloadKeeps, DeployedKeeps, UnlinkKeeps,
     RemoveRowKeeps
<1>4. CASE (\E h \in Hosts : CooldownOver(h)) \/ MasterReloads \/ MonthsPass \/ Restart
  BY <1>4, CooldownKeeps, MasterKeeps, MonthsKeep, RestartKeeps
<1>5. CASE UNCHANGED vars
  BY <1>5, EdgeStays
<1>. QED  BY <1>1, <1>2, <1>3, <1>4, <1>5 DEF Next

\* At rest this is what the properties say.
LEMMA EdgeMeans == EdgeInv => EdgeAsAsked /\ OneOrderPerGap
<1>. SUFFICES ASSUME EdgeInv PROVE EdgeAsAsked /\ OneOrderPerGap
  OBVIOUS
<1>1. TypeOK
  <2>1. \A j \in Jobs : job[j] # Idle => job[j].kind \in AtWork /\ job[j].at \in Steps
    BY EdgeJobs DEF EdgeInv
  <2>2. aged \subseteq 1..MaxOrders
    BY EdgeNumbers DEF EdgeInv, EdgeTypes, Counted
  <2>. QED  BY <2>1, <2>2 DEF EdgeInv, EdgeTypes, TypeOK
<1>2. AtRest => \A h \in Hosts : On(h) = {}
  BY DEF AtRest, Free, On
<1>3. BadEditHarmless
  BY <1>2 DEF BadEditHarmless, EdgeInv, HostsKept, HostKept, PairKept, FileKept, CertsNamed, Stands
<1>4. EdgeFollowsRow
  BY <1>2 DEF EdgeFollowsRow, EdgeInv, HostsKept, HostKept, GoneClean, ServedSoFar, AsSaved, TakenUp
<1>5. OneOrderPerGap
  BY DEF OneOrderPerGap, EdgeInv, Throttled
<1>. QED  BY <1>1, <1>3, <1>4, <1>5 DEF EdgeAsAsked

(***************************************************************************)
(* How hosts get into the table                                            *)
(*                                                                         *)
(* The entry that a request is about to insert has been through the rules  *)
(* that its mode asks for, and it has answered with one ok for every row   *)
(* it made, except for the row it has just made.                           *)
(***************************************************************************)
LEMMA ImportCardinality == \A S : Import!Cardinality(S) = Cardinality(S)
BY DEF Cardinality, Import!Cardinality, IsFiniteSet, Import!IsFiniteSet

LEMMA ImportNumbers ==
  /\ FileLength \in Nat \ {0} /\ MaxHosts \in Nat /\ MaxAsked \in Nat /\ Entries \subseteq Import!EntryType
  /\ Import!None \notin Import!AllTunnels /\ Import!None \notin Zones
BY HostsAssumption

Oks(results) == {i \in DOMAIN results : results[i]}

Placed ==
  [id : 1..MaxHosts, via : Import!Doors, name : Names, upper : {FALSE}, mode : {"tunnel", "local"},
   tunnel : {Import!None} \cup Import!AllTunnels, zone : {Import!None} \cup Zones, protocol : {"http", "tcp"}]

Asked ==
  [at : Import!Steps, door : Import!Doors, left : 0..FileLength, entry : {Import!None} \cup Import!EntryType,
   made : Nat, results : Seq(BOOLEAN)]

\* A request q says and holds what it should at its step.
Asks(q) ==
  /\ q \in Asked
  /\ q.at # "answer" => q.left # 0
  /\ q.at \in {"tunnel", "zone", "insert", "inserted"} => q.entry \in Import!EntryType
  /\ q.at \in {"zone", "insert"} /\ q.entry.mode = "tunnel" =>
       q.entry.tunnel \in Import!AllTunnels /\ Import!Carries(q.entry.tunnel, q.entry.protocol)
  /\ q.made = Cardinality(Oks(q.results)) + (IF q.at = "inserted" THEN 1 ELSE 0)

ImportInv ==
  /\ rows \subseteq Placed /\ tunnels \subseteq Import!AllTunnels /\ zones \subseteq Zones
  /\ inserted \in 0..MaxHosts /\ requests \in 0..MaxAsked
  /\ Import!OneRowPerName /\ Import!FormAndFileCarried
  /\ request \in [Callers -> {Import!Idle} \cup Asked]
  /\ \A c \in Callers : request[c] # Import!Idle => Asks(request[c])

LEMMA ImportEmpty == /\ \A q \in Asked : q # Import!Idle
                     /\ Import!Idle.at \notin Import!Steps
BY DEF Asked, Import!Idle, Import!Steps

LEMMA ImportMeans == ImportInv => Import!HostsPlaced /\ Import!ImportTellsTruth
<1>. SUFFICES ASSUME ImportInv PROVE Import!HostsPlaced /\ Import!ImportTellsTruth
  OBVIOUS
<1>1. Import!TypeOK
  BY ImportNumbers DEF ImportInv, Import!TypeOK, Placed, Asks, Asked
<1>2. Import!ImportTellsTruth
  <2>. SUFFICES ASSUME NEW c \in Callers, request[c] # Import!Idle
                PROVE  request[c].made = Import!Cardinality({i \in DOMAIN request[c].results : request[c].results[i]})
                                          + (IF Import!At(c, "inserted") THEN 1 ELSE 0)
    BY DEF Import!ImportTellsTruth
  <2>. QED  BY ImportCardinality DEF ImportInv, Asks, Oks, Import!At
<1>. QED  BY <1>1, <1>2 DEF Import!HostsPlaced, ImportInv

LEMMA ImportInit == Import!Init => ImportInv
BY ImportNumbers DEF Import!Init, ImportInv, Import!OneRowPerName, Import!FormAndFileCarried

\* Where one request goes on and the tables stay.
LEMMA RequestMoves ==
  ASSUME ImportInv, NEW c \in Callers, NEW q, q = Import!Idle \/ Asks(q),
         request' = [request EXCEPT ![c] = q], UNCHANGED <<rows, tunnels, zones, inserted>>, requests' \in 0..MaxAsked
  PROVE  ImportInv'
<1>1. request' \in [Callers -> {Import!Idle} \cup Asked]
  BY DEF ImportInv, Asks
<1>2. \A d \in Callers : request'[d] # Import!Idle => Asks(request'[d])
  BY DEF ImportInv
<1>3. (\A d \in Callers : request[d] # Import!Idle => Asks(request[d]))'
  BY <1>2
<1>. QED  BY <1>1, <1>3 DEF ImportInv, Import!OneRowPerName, Import!FormAndFileCarried, Import!Carried,
                            Import!Carries

\* An entry's outcome makes one more ok, or none.
LEMMA OksFinite ==
  ASSUME NEW s \in Seq(BOOLEAN) PROVE IsFiniteSet(Oks(s)) /\ Cardinality(Oks(s)) \in Nat
<1>1. IsFiniteSet(1..Len(s))
  BY FS_Interval
<1>2. Oks(s) \subseteq 1..Len(s)
  BY DEF Oks
<1>. QED  BY <1>1, <1>2, FS_Subset, FS_CardinalityType

LEMMA OksCount ==
  ASSUME NEW s \in Seq(BOOLEAN), NEW ok \in BOOLEAN
  PROVE  Cardinality(Oks(Append(s, ok))) = Cardinality(Oks(s)) + (IF ok THEN 1 ELSE 0)
<1>3. IsFiniteSet(Oks(s)) /\ Cardinality(Oks(s)) \in Nat
  BY OksFinite
<1>4. Oks(Append(s, ok)) = IF ok THEN Oks(s) \cup {Len(s) + 1} ELSE Oks(s)
  BY DEF Oks
<1>5. Len(s) + 1 \notin Oks(s)
  BY DEF Oks
<1>6. Cardinality(Oks(s) \cup {Len(s) + 1}) = Cardinality(Oks(s)) + 1
  BY <1>3, <1>5, FS_AddElement
<1>. QED  BY <1>3, <1>4, <1>6

LEMMA AskedAt ==
  ASSUME ImportInv, NEW c \in Callers, request[c].at \in Import!Steps
  PROVE  Asks(request[c])
BY ImportEmpty DEF ImportInv

LEMMA ResultKeeps ==
  ASSUME ImportInv, NEW c \in Callers, NEW ok \in BOOLEAN, Import!Result(c, ok), request[c].at \in Import!Steps \ {"answer"},
         ok <=> request[c].at = "inserted", UNCHANGED <<rows, tunnels, zones, inserted, requests>>
  PROVE  ImportInv'
<1>. DEFINE r == request[c]
            q == [at |-> IF r.left = 1 THEN "answer" ELSE "read", door |-> r.door, left |-> r.left - 1, entry |-> Import!None,
                  made |-> r.made, results |-> Append(r.results, ok)]
<1>1. Asks(r)
  BY AskedAt
<1>2. request' = [request EXCEPT ![c] = q]
  BY <1>1 DEF Import!Result, ImportInv, Asks, Asked
<1>3. q \in Asked
  BY <1>1, ImportNumbers DEF Asks, Asked, Import!Steps
<1>4. r.results \in Seq(BOOLEAN)
  BY <1>1 DEF Asks, Asked
<1>5. q.made = Cardinality(Oks(q.results)) + (IF q.at = "inserted" THEN 1 ELSE 0)
  BY <1>1, <1>4, OksCount, OksFinite DEF Asks
<1>6. q.at # "answer" => q.left # 0
  BY <1>1 DEF Asks, Asked
<1>7. Asks(q)
  BY <1>3, <1>5, <1>6 DEF Asks
<1>. HIDE DEF q
<1>. QED  BY <1>2, <1>7, RequestMoves DEF ImportInv

\* The rest of a request stays as it is.
LEMMA GoKeeps ==
  ASSUME ImportInv, NEW c \in Callers, NEW step \in {"zone", "insert"}, Import!Go(c, step),
         request[c].at \in {"tunnel", "zone"}, UNCHANGED <<rows, tunnels, zones, inserted, requests>>,
         request[c].entry.mode = "tunnel" =>
           request[c].entry.tunnel \in Import!AllTunnels /\ Import!Carries(request[c].entry.tunnel, request[c].entry.protocol)
  PROVE  ImportInv'
<1>. DEFINE r == request[c]
            q == [at |-> step, door |-> r.door, left |-> r.left, entry |-> r.entry, made |-> r.made, results |-> r.results]
<1>1. Asks(r)
  BY AskedAt DEF Import!Steps
<1>2. request' = [request EXCEPT ![c] = q]
  <2>1. [r EXCEPT !.at = step] = q
    BY <1>1 DEF Asks, Asked
  <2>. HIDE DEF q
  <2>. QED  BY <2>1 DEF Import!Go, ImportInv
<1>3. Asks(q)
  BY <1>1 DEF Asks, Asked, Import!Steps
<1>. HIDE DEF q
<1>. QED  BY <1>2, <1>3, RequestMoves DEF ImportInv

LEMMA BeginKeeps ==
  ASSUME ImportInv, NEW c \in Callers, NEW door \in Import!Doors, NEW n \in 1..FileLength, Import!Begin(c, door, n)
  PROVE  ImportInv'
<1>. DEFINE q == [at |-> "read", door |-> door, left |-> n, entry |-> Import!None, made |-> 0, results |-> <<>>]
<1>1. Oks(<<>>) = {} /\ Cardinality({}) = 0
  BY FS_EmptySet DEF Oks
<1>2. Asks(q)
  BY <1>1, ImportNumbers DEF Asks, Asked, Import!Steps
<1>3. request' = [request EXCEPT ![c] = q]
  BY DEF Import!Begin
<1>4. requests' \in 0..MaxAsked
  BY ImportNumbers DEF Import!Begin, ImportInv
<1>. HIDE DEF q
<1>. QED  BY <1>2, <1>3, <1>4, RequestMoves DEF Import!Begin, Import!tables

LEMMA ReadKeeps ==
  ASSUME ImportInv, NEW c \in Callers, Import!ReadEntry(c) PROVE ImportInv'
<1>. DEFINE r == request[c]
<1>1. Asks(r) /\ r.at = "read"
  BY AskedAt DEF Import!ReadEntry, Import!At, Import!Steps
<1>2. UNCHANGED <<rows, tunnels, zones, inserted, requests>>
  BY DEF Import!ReadEntry, Import!tables, Import!bounds
<1>3. CASE Import!Refuse(c)
  BY <1>1, <1>2, <1>3, ResultKeeps DEF Import!Refuse, Import!Steps
<1>4. ASSUME NEW e \in Entries,
             request' = [request EXCEPT ![c].entry = e, ![c].at = IF e.mode = "local" THEN "insert" ELSE "tunnel"]
      PROVE  ImportInv'
  <2>. DEFINE q == [at |-> IF e.mode = "local" THEN "insert" ELSE "tunnel", door |-> r.door, left |-> r.left, entry |-> e,
                    made |-> r.made, results |-> r.results]
  <2>1. request' = [request EXCEPT ![c] = q]
    BY <1>1, <1>4 DEF ImportInv, Asks, Asked
  <2>2. Asks(q)
    BY <1>1, ImportNumbers DEF Asks, Asked, Import!Steps
  <2>. HIDE DEF q
  <2>. QED  BY <1>2, <2>1, <2>2, RequestMoves DEF ImportInv
<1>. QED  BY <1>3, <1>4 DEF Import!ReadEntry

LEMMA TunnelKeeps ==
  ASSUME ImportInv, NEW c \in Callers, Import!CheckTunnel(c) PROVE ImportInv'
<1>1. Asks(request[c]) /\ request[c].at = "tunnel"
  BY AskedAt DEF Import!CheckTunnel, Import!At, Import!Steps
<1>2. UNCHANGED <<rows, tunnels, zones, inserted, requests>>
  BY DEF Import!CheckTunnel, Import!tables, Import!bounds
<1>3. CASE Import!TunnelProblem(request[c].entry)
  BY <1>1, <1>2, <1>3, ResultKeeps DEF Import!CheckTunnel, Import!Refuse, Import!Steps
<1>4. CASE ~Import!TunnelProblem(request[c].entry)
  <2>1. request[c].entry.tunnel \in Import!AllTunnels /\ Import!Carries(request[c].entry.tunnel, request[c].entry.protocol)
    BY <1>4 DEF Import!TunnelProblem, ImportInv
  <2>2. \E step \in {"zone", "insert"} : Import!Go(c, step)
    BY <1>4 DEF Import!CheckTunnel
  <2>. QED  BY <1>1, <1>2, <2>1, <2>2, GoKeeps
<1>. QED  BY <1>3, <1>4

LEMMA ZoneKeeps ==
  ASSUME ImportInv, NEW c \in Callers, Import!CheckZone(c) PROVE ImportInv'
<1>1. Asks(request[c]) /\ request[c].at = "zone"
  BY AskedAt DEF Import!CheckZone, Import!At, Import!Steps
<1>2. UNCHANGED <<rows, tunnels, zones, inserted, requests>>
  BY DEF Import!CheckZone, Import!tables, Import!bounds
<1>3. Import!Go(c, "insert") \/ Import!Refuse(c)
  BY DEF Import!CheckZone
<1>4. CASE Import!Refuse(c)
  BY <1>1, <1>2, <1>4, ResultKeeps DEF Import!Refuse, Import!Steps
<1>5. CASE Import!Go(c, "insert")
  BY <1>1, <1>2, <1>5, GoKeeps DEF Asks
<1>. QED  BY <1>3, <1>4, <1>5

LEMMA InsertKeepsHosts ==
  ASSUME ImportInv, NEW c \in Callers, Import!Insert(c) PROVE ImportInv'
<1>. DEFINE q == request[c]
            s == Import!Stored(q.entry, q.door)
            n == [id |-> inserted + 1, via |-> q.door, name |-> s.name, upper |-> s.upper, mode |-> s.mode,
                  tunnel |-> s.tunnel, zone |-> s.zone, protocol |-> s.protocol]
<1>1. Asks(q) /\ q.at = "insert" /\ q.entry \in Import!EntryType
  BY AskedAt DEF Import!Insert, Import!At, Import!Steps, Asks
<1>2. UNCHANGED <<tunnels, zones, requests>>
  BY DEF Import!Insert, Import!tables
<1>3. CASE Import!Violates(s)
  BY <1>1, <1>2, <1>3, ResultKeeps DEF Import!Insert, Import!Refuse, Import!Steps
<1>4. CASE ~Import!Violates(s)
  <2>1. /\ inserted < MaxHosts /\ inserted' = inserted + 1 /\ rows' = rows \cup {n}
        /\ request' = [request EXCEPT ![c].at = "inserted", ![c].made = @ + 1]
    BY <1>4 DEF Import!Insert
  <2>2. n \in Placed
    BY <1>1, <2>1, ImportNumbers DEF Placed, Import!Stored, Import!EntryType, ImportInv, Asks, Asked,
                                     Import!Doors
  <2>3. \A r \in rows : r.name # n.name
    <3>1. \A r \in rows : ~(r.name = s.name /\ r.upper = s.upper) /\ r.upper = FALSE /\ s.upper = FALSE
      BY <1>4 DEF Import!Violates, ImportInv, Placed, Import!Stored
    <3>. QED  BY <3>1
  <2>4. n.via # "assistant" => Import!Carried(n)
    BY <1>1 DEF Import!Stored, Import!Carried, Asks
  <2>5. Import!OneRowPerName' /\ Import!FormAndFileCarried' /\ rows' \subseteq Placed
    BY <1>2, <2>1, <2>2, <2>3, <2>4 DEF ImportInv, Import!OneRowPerName, Import!FormAndFileCarried
  <2>. DEFINE p == [at |-> "inserted", door |-> q.door, left |-> q.left, entry |-> q.entry, made |-> q.made + 1,
                    results |-> q.results]
  <2>6. request' = [request EXCEPT ![c] = p]
    BY <1>1, <2>1 DEF ImportInv, Asks, Asked
  <2>7. q.results \in Seq(BOOLEAN) /\ Cardinality(Oks(q.results)) \in Nat /\ q.made = Cardinality(Oks(q.results))
    <3>1. q.results \in Seq(BOOLEAN) /\ q.made \in Nat
      BY <1>1 DEF Asks, Asked
    <3>2. Cardinality(Oks(q.results)) \in Nat
      BY <3>1, OksFinite
    <3>. QED  BY <1>1, <3>1, <3>2 DEF Asks
  <2>8. Asks(p)
    BY <1>1, <2>7 DEF Asks, Asked, Import!Steps
  <2>. HIDE DEF p
  <2>9. request' \in [Callers -> {Import!Idle} \cup Asked] /\ \A d \in Callers : request'[d] # Import!Idle => Asks(request'[d])
    BY <2>6, <2>8 DEF ImportInv, Asks
  <2>10. (\A d \in Callers : request[d] # Import!Idle => Asks(request[d]))'
    BY <2>9
  <2>11. inserted' \in 0..MaxHosts
    BY <2>1, ImportNumbers DEF ImportInv
  <2>. HIDE DEF s, n, q
  <2>. QED  BY <1>2, <2>5, <2>9, <2>10, <2>11 DEF ImportInv
<1>. QED  BY <1>3, <1>4

LEMMA InsertedKeeps ==
  ASSUME ImportInv, NEW c \in Callers, Import!Inserted(c) PROVE ImportInv'
BY ResultKeeps DEF Import!Inserted, Import!At, Import!Steps, Import!tables, Import!bounds

LEMMA AnswerKeeps ==
  ASSUME ImportInv, NEW c \in Callers, Import!Answer(c) PROVE ImportInv'
BY RequestMoves DEF Import!Answer, Import!tables, Import!bounds, ImportInv

\* What a deletion leaves of the rows: the same ones, without the reference.
LEMMA RowsLose ==
  ASSUME ImportInv, NEW f \in [rows -> Placed],
         \A r \in rows : f[r].name = r.name /\ f[r].via = r.via /\ (r.via # "assistant" => Import!Carried(f[r])),
         rows' = {f[r] : r \in rows}, UNCHANGED <<request, inserted, requests>>,
         tunnels' \subseteq tunnels, zones' \subseteq zones
  PROVE  ImportInv'
<1>1. Import!OneRowPerName'
  BY DEF ImportInv, Import!OneRowPerName
<1>2. Import!FormAndFileCarried'
  BY DEF Import!FormAndFileCarried
<1>. QED  BY <1>1, <1>2 DEF ImportInv

LEMMA DeleteTunnelKeeps ==
  ASSUME ImportInv, NEW t \in tunnels, Import!DeleteTunnel(t) PROVE ImportInv'
<1>. DEFINE f == [r \in rows |-> [r EXCEPT !.tunnel = IF @ = t THEN Import!None ELSE @]]
<1>1. f \in [rows -> Placed] /\ \A r \in rows : f[r].name = r.name /\ f[r].via = r.via
  <2>1. \A r \in rows : f[r] = [r EXCEPT !.tunnel = IF r.tunnel = t THEN Import!None ELSE r.tunnel]
    OBVIOUS
  <2>. HIDE DEF f
  <2>2. \A r \in rows : f[r] \in Placed /\ f[r].name = r.name /\ f[r].via = r.via
    <3>. SUFFICES ASSUME NEW r \in rows PROVE f[r] \in Placed /\ f[r].name = r.name /\ f[r].via = r.via
      OBVIOUS
    <3>. DEFINE v == IF r.tunnel = t THEN Import!None ELSE r.tunnel
    <3>1. r \in Placed
      BY DEF ImportInv
    <3>2. v \in {Import!None} \cup Import!AllTunnels /\ f[r] = [r EXCEPT !.tunnel = v]
      BY <2>1, <3>1 DEF Placed
    <3>. HIDE DEF v
    <3>. QED  BY <3>1, <3>2 DEF Placed
  <2>3. f = [r \in rows |-> f[r]]
    BY DEF f
  <2>. QED  BY <2>2, <2>3
<1>2. \A r \in rows : r.via # "assistant" => Import!Carried(f[r])
  BY DEF ImportInv, Placed, Import!FormAndFileCarried, Import!Carried
<1>3. rows' = {f[r] : r \in rows}
  BY DEF Import!DeleteTunnel
<1>. HIDE DEF f
<1>. QED  BY <1>1, <1>2, <1>3, RowsLose DEF Import!DeleteTunnel, Import!bounds

LEMMA PruneZoneKeeps ==
  ASSUME ImportInv, NEW z \in zones, Import!PruneZone(z) PROVE ImportInv'
<1>. DEFINE f == [r \in rows |-> [r EXCEPT !.zone = IF @ = z THEN Import!None ELSE @]]
<1>1. f \in [rows -> Placed] /\ \A r \in rows : f[r].name = r.name /\ f[r].via = r.via
  <2>1. \A r \in rows : f[r] = [r EXCEPT !.zone = IF r.zone = z THEN Import!None ELSE r.zone]
    OBVIOUS
  <2>. HIDE DEF f
  <2>2. \A r \in rows : f[r] \in Placed /\ f[r].name = r.name /\ f[r].via = r.via
    <3>. SUFFICES ASSUME NEW r \in rows PROVE f[r] \in Placed /\ f[r].name = r.name /\ f[r].via = r.via
      OBVIOUS
    <3>. DEFINE v == IF r.zone = z THEN Import!None ELSE r.zone
    <3>1. r \in Placed
      BY DEF ImportInv
    <3>2. v \in {Import!None} \cup Zones /\ f[r] = [r EXCEPT !.zone = v]
      BY <2>1, <3>1 DEF Placed
    <3>. HIDE DEF v
    <3>. QED  BY <3>1, <3>2 DEF Placed
  <2>3. f = [r \in rows |-> f[r]]
    BY DEF f
  <2>. QED  BY <2>2, <2>3
<1>2. \A r \in rows : r.via # "assistant" => Import!Carried(f[r])
  BY DEF ImportInv, Placed, Import!FormAndFileCarried, Import!Carried
<1>3. rows' = {f[r] : r \in rows}
  BY DEF Import!PruneZone
<1>. HIDE DEF f
<1>. QED  BY <1>1, <1>2, <1>3, RowsLose DEF Import!PruneZone, Import!bounds

LEMMA ImportNext == ImportInv /\ [Import!Next]_importVars => ImportInv'
<1>. SUFFICES ASSUME ImportInv, [Import!Next]_importVars PROVE ImportInv'
  OBVIOUS
<1>1. ASSUME NEW c \in Callers, Import!SubmitForm(c) \/ Import!CallTool(c) \/ Import!ImportFile(c) PROVE ImportInv'
  <2>1. "form" \in Import!Doors /\ "assistant" \in Import!Doors /\ "bulk" \in Import!Doors /\ 1 \in 1..FileLength
    BY ImportNumbers DEF Import!Doors
  <2>. QED  BY <1>1, <2>1, BeginKeeps DEF Import!SubmitForm, Import!CallTool, Import!ImportFile
<1>2. ASSUME NEW c \in Callers,
             \/ Import!ReadEntry(c) \/ Import!CheckTunnel(c) \/ Import!CheckZone(c) \/ Import!Insert(c)
             \/ Import!Inserted(c) \/ Import!Answer(c)
      PROVE  ImportInv'
  BY <1>2, ReadKeeps, TunnelKeeps, ZoneKeeps, InsertKeepsHosts, InsertedKeeps, AnswerKeeps
<1>3. ASSUME NEW r \in rows, Import!DeleteHost(r) PROVE ImportInv'
  BY <1>3 DEF Import!DeleteHost, Import!tables, Import!bounds, ImportInv, Import!OneRowPerName,
              Import!FormAndFileCarried
<1>4. CASE Import!Die
  BY <1>4 DEF Import!Die, Import!tables, Import!bounds, ImportInv, Import!OneRowPerName,
              Import!FormAndFileCarried
<1>5. CASE UNCHANGED importVars
  BY <1>5 DEF importVars, ImportInv, Import!OneRowPerName, Import!FormAndFileCarried
<1>. QED  BY <1>1, <1>2, <1>3, <1>4, <1>5, DeleteTunnelKeeps, PruneZoneKeeps DEF Import!Next

(***************************************************************************)
(* The hosts page in several tabs                                          *)
(*                                                                         *)
(* What a form sends of the tunnel was picked in it; and as long as no     *)
(* request of the list began after a click, none is under way in its tab   *)
(* and the list shows what the click did.                                  *)
(***************************************************************************)
LEMMA EditNumbers == MaxPuts \in Nat /\ Edit!NoTunnel \notin Tunnels
BY HostsAssumption

SomeTunnel == Tunnels \cup {Edit!NoTunnel}
FullList == [read : {TRUE}, rows : [EditedHosts -> Edit!Row]]
Form == [open : {TRUE}, host : EditedHosts, seen : Edit!Row, tunnel : SomeTunnel, picked : BOOLEAN]
Sent == [at : {"sent", "write"}, host : EditedHosts, tunnel : SomeTunnel, picked : BOOLEAN]
Clicked ==
  [at : {"sent", "write"}, tab : Tabs, host : EditedHosts, previous : FullList, shown : BOOLEAN,
   value : BOOLEAN, alone : BOOLEAN]
Settling == [at |-> "done"]

EditTypes ==
  /\ eRow \in [EditedHosts -> Edit!Row]
  /\ list \in [Tabs -> {Edit!NoList} \cup FullList] /\ fetch \in [Tabs -> {Edit!NoList} \cup FullList]
  /\ form \in [Tabs -> {Edit!Closed} \cup Form] /\ put \in [Tabs -> {Edit!NoPut} \cup Sent]
  /\ click \in [Clicks -> {Edit!NoClick, Settling} \cup Clicked]
  /\ puts \in 0..MaxPuts

FormPicks == \A t \in Tabs : form[t] \in Form /\ ~form[t].picked => form[t].tunnel = form[t].seen.tunnel
PutPicks == \A t \in Tabs : put[t] \in Sent /\ ~put[t].picked => put[t].tunnel = Edit!NoTunnel

\* What a click k that is alone sees of the lists l and of the requests for them g.
SwitchStands(k, l, g) ==
  k \in Clicked /\ k.alone =>
    g[k.tab] = Edit!NoList /\ l[k.tab] \in FullList /\ l[k.tab].rows[k.host].enabled = k.shown
ClicksStand == \A c \in Clicks : SwitchStands(click[c], list, fetch)

EditInv == EditTypes /\ FormPicks /\ PutPicks /\ ClicksStand

LEMMA EditEmpty ==
  /\ Edit!NoList \notin FullList /\ Edit!NoList.read = FALSE /\ \A l \in FullList : l.read
  /\ Edit!Closed \notin Form /\ Edit!Closed.open = FALSE /\ \A f \in Form : f.open
  /\ Edit!NoPut \notin Sent /\ Edit!NoPut.at = "none" /\ \A p \in Sent : p.at \in {"sent", "write"}
  /\ {Edit!NoClick, Settling} \cap Clicked = {} /\ Edit!NoClick.at = "new" /\ Settling.at = "done"
  /\ \A k \in Clicked : k.at \in {"sent", "write"}
<1>1. Edit!NoList.read = FALSE /\ \A l \in FullList : l.read = TRUE
  BY DEF Edit!NoList, FullList
<1>2. Edit!Closed.open = FALSE /\ \A f \in Form : f.open = TRUE
  BY DEF Edit!Closed, Form
<1>3. Edit!NoPut.at = "none" /\ \A p \in Sent : p.at \in {"sent", "write"}
  BY DEF Edit!NoPut, Sent
<1>4. Edit!NoClick.at = "new" /\ Settling.at = "done" /\ \A k \in Clicked : k.at \in {"sent", "write"}
  BY DEF Edit!NoClick, Settling, Clicked
<1>5. Edit!NoList \notin FullList /\ Edit!Closed \notin Form
  BY <1>1, <1>2
<1>6. Edit!NoPut \notin Sent /\ {Edit!NoClick, Settling} \cap Clicked = {}
  BY <1>3, <1>4
<1>. QED  BY <1>1, <1>2, <1>3, <1>4, <1>5, <1>6

LEMMA EditMeans == EditInv => Edit!EditTypeOK /\ Edit!ClickStands
<1>. SUFFICES ASSUME EditInv PROVE Edit!EditTypeOK /\ Edit!ClickStands
  OBVIOUS
<1>1. Edit!EditTypeOK
  <2>1. \A t \in Tabs : form[t].open =>
          form[t].host \in EditedHosts /\ form[t].seen \in Edit!Row /\ form[t].tunnel \in Tunnels \union {Edit!NoTunnel}
    <3>. SUFFICES ASSUME NEW t \in Tabs, form[t].open
                  PROVE  form[t].host \in EditedHosts /\ form[t].seen \in Edit!Row /\ form[t].tunnel \in SomeTunnel
      BY DEF SomeTunnel
    <3>1. form[t] \in Form
      BY EditEmpty DEF EditInv, EditTypes
    <3>. QED  BY <3>1 DEF Form
  <2>2. \A t \in Tabs : put[t].at \in {"none", "sent", "write"}
    BY EditEmpty DEF EditInv, EditTypes
  <2>3. \A c \in Clicks : click[c].at \in {"new", "sent", "write", "done"}
    BY EditEmpty DEF EditInv, EditTypes
  <2>4. {Edit!NoList} \cup FullList = Edit!Lists
    BY DEF Edit!Lists, FullList
  <2>. QED  BY <2>1, <2>2, <2>3, <2>4 DEF Edit!EditTypeOK, EditInv, EditTypes
<1>2. Edit!ClickStands
  <2>. SUFFICES ASSUME NEW c \in Clicks, click[c].at \in {"sent", "write"}, click[c].alone
                PROVE  list[click[c].tab].rows[click[c].host].enabled = click[c].shown
    BY DEF Edit!ClickStands
  <2>1. click[c] \in Clicked
    BY EditEmpty DEF EditInv, EditTypes
  <2>. QED  BY <2>1 DEF EditInv, ClicksStand, SwitchStands
<1>. QED  BY <1>1, <1>2

LEMMA EditInit == Edit!EditInit => EditInv
BY EditNumbers, EditEmpty DEF Edit!EditInit, EditInv, EditTypes, FormPicks, PutPicks, ClicksStand,
                              SwitchStands

\* After a request of the list that begins now, no click of the tab is alone; the other
\* clicks are what they were.
LEMMA DisturbedClicks ==
  ASSUME EditTypes, NEW t \in Tabs
  PROVE  /\ Edit!Disturbed(t) \in [Clicks -> {Edit!NoClick, Settling} \cup Clicked]
         /\ \A c \in Clicks : \/ Edit!Disturbed(t)[c] \in Clicked /\ ~Edit!Disturbed(t)[c].alone
                              \/ /\ Edit!Disturbed(t)[c] = click[c]
                                 /\ click[c] \in Clicked => click[c].tab # t
<1>. DEFINE D == Edit!Disturbed(t)
<1>1. \A c \in Clicks : D[c] = IF click[c] \in Clicked /\ click[c].tab = t THEN [click[c] EXCEPT !.alone = FALSE] ELSE click[c]
  BY EditEmpty DEF Edit!Disturbed, EditTypes
<1>2. ASSUME NEW c \in Clicks, click[c] \in Clicked, click[c].tab = t PROVE D[c] \in Clicked /\ ~D[c].alone
  BY <1>1, <1>2 DEF Clicked
<1>3. D = [c \in Clicks |-> D[c]]
  BY DEF Edit!Disturbed
<1>. HIDE DEF D
<1>4. \A c \in Clicks : D[c] \in {Edit!NoClick, Settling} \cup Clicked
  BY <1>1, <1>2 DEF EditTypes
<1>5. D \in [Clicks -> {Edit!NoClick, Settling} \cup Clicked]
  BY <1>3, <1>4
<1>6. \A c \in Clicks : (D[c] \in Clicked /\ ~D[c].alone) \/ (D[c] = click[c] /\ (click[c] \in Clicked => click[c].tab # t))
  <2>. SUFFICES ASSUME NEW c \in Clicks
                PROVE  (D[c] \in Clicked /\ ~D[c].alone) \/ (D[c] = click[c] /\ (click[c] \in Clicked => click[c].tab # t))
    OBVIOUS
  <2>1. ASSUME click[c] \in Clicked, click[c].tab = t PROVE D[c] \in Clicked /\ ~D[c].alone
    BY <1>2, <2>1
  <2>2. CASE ~(click[c] \in Clicked /\ click[c].tab = t)
    BY <1>1, <2>2
  <2>. QED  BY <2>1, <2>2
<1>. QED  BY <1>5, <1>6 DEF D

\* Where only requests of one tab begin and lists of that tab change, the clicks of the
\* others are as before, and none of its own is alone any more.
LEMMA StandApart ==
  ASSUME EditInv, NEW t \in Tabs, click' = Edit!Disturbed(t),
         list' \in [Tabs -> {Edit!NoList} \cup FullList], fetch' \in [Tabs -> {Edit!NoList} \cup FullList],
         \A u \in Tabs \ {t} : list'[u] = list[u] /\ fetch'[u] = fetch[u]
  PROVE  ClicksStand' /\ click' \in [Clicks -> {Edit!NoClick, Settling} \cup Clicked]
<1>1. ASSUME NEW c \in Clicks PROVE SwitchStands(click'[c], list', fetch')
  <2>1. CASE click'[c] \in Clicked /\ ~click'[c].alone
    BY <2>1 DEF SwitchStands
  <2>2. CASE click'[c] = click[c] /\ (click[c] \in Clicked => click[c].tab # t)
    BY <2>2 DEF SwitchStands, EditInv, ClicksStand, Clicked
  <2>. QED  BY <2>1, <2>2, DisturbedClicks DEF EditInv
<1>. QED  BY <1>1, DisturbedClicks DEF EditInv, ClicksStand

LEMMA PollKeeps == ASSUME EditInv, NEW t \in Tabs, Edit!Poll(t) PROVE EditInv'
<1>1. Edit!Listed(eRow) \in FullList
  BY DEF Edit!Listed, FullList, EditInv, EditTypes
<1>2. /\ fetch' \in [Tabs -> {Edit!NoList} \cup FullList] /\ list' \in [Tabs -> {Edit!NoList} \cup FullList]
      /\ \A u \in Tabs \ {t} : list'[u] = list[u] /\ fetch'[u] = fetch[u]
  BY <1>1 DEF Edit!Poll, EditInv, EditTypes
<1>3. ClicksStand' /\ click' \in [Clicks -> {Edit!NoClick, Settling} \cup Clicked]
  BY <1>2, StandApart DEF Edit!Poll
<1>. QED  BY <1>2, <1>3 DEF Edit!Poll, EditInv, EditTypes, FormPicks, PutPicks

LEMMA ReceiveKeeps == ASSUME EditInv, NEW t \in Tabs, Edit!Receive(t) PROVE EditInv'
<1>1. fetch[t] \in FullList /\ fetch[t] # Edit!NoList
  BY EditEmpty DEF Edit!Receive, EditInv, EditTypes
<1>2. ClicksStand'
  BY <1>1 DEF Edit!Receive, EditInv, EditTypes, ClicksStand, SwitchStands, Clicked
<1>. QED  BY <1>1, <1>2 DEF Edit!Receive, EditInv, EditTypes, FormPicks, PutPicks

\* Where the form of one tab changes, and what it sends.
LEMMA FormMoves ==
  ASSUME EditInv, NEW t \in Tabs, NEW f \in Form \cup {Edit!Closed}, NEW p \in Sent \cup {Edit!NoPut},
         form' = [form EXCEPT ![t] = f], put' = [put EXCEPT ![t] = p], puts' \in 0..MaxPuts,
         f \in Form /\ ~f.picked => f.tunnel = f.seen.tunnel,
         p \in Sent /\ ~p.picked => p.tunnel = Edit!NoTunnel,
         UNCHANGED <<eRow, list, fetch, click>>
  PROVE  EditInv'
<1>1. EditTypes'
  BY DEF EditInv, EditTypes
<1>2. FormPicks'
  BY DEF EditInv, EditTypes, FormPicks
<1>3. PutPicks'
  BY DEF EditInv, EditTypes, PutPicks
<1>4. ClicksStand'
  BY DEF EditInv, ClicksStand
<1>. QED  BY <1>1, <1>2, <1>3, <1>4 DEF EditInv

LEMMA SamePut ==
  ASSUME EditInv, NEW t \in Tabs
  PROVE  /\ put[t] \in Sent \cup {Edit!NoPut} /\ (put[t] \in Sent /\ ~put[t].picked => put[t].tunnel = Edit!NoTunnel)
         /\ put = [put EXCEPT ![t] = put[t]]
BY DEF EditInv, EditTypes, PutPicks

LEMMA SameForm ==
  ASSUME EditInv, NEW t \in Tabs
  PROVE  /\ form[t] \in Form \cup {Edit!Closed} /\ (form[t] \in Form /\ ~form[t].picked => form[t].tunnel = form[t].seen.tunnel)
         /\ form = [form EXCEPT ![t] = form[t]]
BY DEF EditInv, EditTypes, FormPicks

LEMMA OpenKeeps == ASSUME EditInv, NEW t \in Tabs, NEW h \in EditedHosts, Edit!Open(t, h) PROVE EditInv'
<1>. DEFINE r == list[t].rows[h]
            f == [open |-> TRUE, host |-> h, seen |-> r, tunnel |-> r.tunnel, picked |-> FALSE]
<1>1. list[t] \in FullList
  BY EditEmpty DEF Edit!Open, EditInv, EditTypes
<1>2. r \in Edit!Row /\ r.tunnel \in SomeTunnel
  BY <1>1 DEF FullList, Edit!Row, SomeTunnel
<1>3. f \in Form /\ f.tunnel = f.seen.tunnel
  BY <1>2 DEF Form
<1>4. form' = [form EXCEPT ![t] = f] /\ put' = put /\ UNCHANGED <<eRow, list, fetch, click, puts>>
  BY DEF Edit!Open
<1>5. puts' \in 0..MaxPuts /\ put' = [put EXCEPT ![t] = put[t]]
  BY <1>4, SamePut DEF EditInv, EditTypes
<1>. HIDE DEF f
<1>. QED  BY <1>3, <1>4, <1>5, SamePut, FormMoves

LEMMA PickKeeps == ASSUME EditInv, NEW t \in Tabs, Edit!Pick(t) PROVE EditInv'
<1>0. PICK n \in Tunnels : form' = [form EXCEPT ![t].tunnel = n, ![t].picked = TRUE]
  BY DEF Edit!Pick
<1>. DEFINE f == [form[t] EXCEPT !.tunnel = n, !.picked = TRUE]
<1>1. form[t] \in Form
  BY EditEmpty DEF Edit!Pick, EditInv, EditTypes
<1>2. f \in Form /\ f.picked
  BY <1>0, <1>1 DEF Form, SomeTunnel
<1>3. form' = [form EXCEPT ![t] = f]
  BY <1>0 DEF EditInv, EditTypes
<1>4. puts' \in 0..MaxPuts /\ put' = [put EXCEPT ![t] = put[t]] /\ UNCHANGED <<eRow, list, fetch, click>>
  BY SamePut DEF EditInv, EditTypes, Edit!Pick
<1>. HIDE DEF f
<1>. QED  BY <1>2, <1>3, <1>4, SamePut, FormMoves

LEMMA CloseKeeps == ASSUME EditInv, NEW t \in Tabs, Edit!Close(t) PROVE EditInv'
<1>1. puts' \in 0..MaxPuts /\ put' = [put EXCEPT ![t] = put[t]]
  BY SamePut DEF EditInv, EditTypes, Edit!Close
<1>. QED  BY <1>1, SamePut, FormMoves, EditEmpty DEF Edit!Close

LEMMA SendKeeps == ASSUME EditInv, NEW t \in Tabs, Edit!Send(t) PROVE EditInv'
<1>. DEFINE f == form[t]
            p == [at |-> "sent", host |-> f.host, tunnel |-> Edit!Payload(f), picked |-> f.picked]
<1>1. f \in Form
  BY EditEmpty DEF Edit!Send, EditInv, EditTypes
<1>2. p \in Sent
  BY <1>1 DEF Form, Sent, SomeTunnel, Edit!Payload
<1>3. ~p.picked => p.tunnel = Edit!NoTunnel
  BY <1>1, SameForm DEF Edit!Payload
<1>4. put' = [put EXCEPT ![t] = p] /\ form' = [form EXCEPT ![t] = f] /\ UNCHANGED <<eRow, list, fetch, click>>
  BY SameForm DEF Edit!Send
<1>5. puts' \in 0..MaxPuts
  BY EditNumbers DEF Edit!Send, EditInv, EditTypes
<1>. HIDE DEF p
<1>. QED  BY <1>2, <1>3, <1>4, <1>5, SameForm, FormMoves

LEMMA HandleKeeps == ASSUME EditInv, NEW t \in Tabs, Edit!Handle(t) PROVE EditInv'
<1>. DEFINE p == [at |-> "write", host |-> put[t].host, tunnel |-> put[t].tunnel, picked |-> put[t].picked]
<1>1. put[t] \in Sent
  BY EditEmpty DEF Edit!Handle, EditInv, EditTypes
<1>2. p \in Sent /\ (~p.picked => p.tunnel = Edit!NoTunnel)
  BY <1>1, SamePut DEF Sent
<1>3. [put EXCEPT ![t].at = "write"] = [put EXCEPT ![t] = p]
  <2>1. [put[t] EXCEPT !.at = "write"] = p
    BY <1>1 DEF Sent
  <2>. HIDE DEF p
  <2>. QED  BY <2>1 DEF EditInv, EditTypes
<1>4. form' = [form EXCEPT ![t] = form[t]] /\ puts' \in 0..MaxPuts /\ UNCHANGED <<eRow, list, fetch, click>>
  BY SameForm DEF Edit!Handle, EditInv, EditTypes
<1>. HIDE DEF p
<1>5. CASE put' = [put EXCEPT ![t] = p]
  BY <1>2, <1>4, <1>5, SameForm, FormMoves
<1>6. CASE put' = [put EXCEPT ![t] = Edit!NoPut]
  BY <1>4, <1>6, SameForm, FormMoves, EditEmpty
<1>. QED  BY <1>3, <1>5, <1>6 DEF Edit!Handle

LEMMA WriteKeeps == ASSUME EditInv, NEW t \in Tabs, Edit!Write(t) PROVE EditInv'
<1>0. PICK p \in Sent : p = put[t]
  BY EditEmpty DEF Edit!Write, EditInv, EditTypes
<1>1. eRow' \in [EditedHosts -> Edit!Row]
  BY <1>0 DEF Edit!Write, EditInv, EditTypes, Edit!Row, Sent, SomeTunnel, Edit!Field
<1>2. Edit!Listed(eRow') \in FullList
  BY <1>1 DEF Edit!Listed, FullList
<1>3. /\ fetch' \in [Tabs -> {Edit!NoList} \cup FullList] /\ list' \in [Tabs -> {Edit!NoList} \cup FullList]
      /\ \A u \in Tabs \ {t} : list'[u] = list[u] /\ fetch'[u] = fetch[u]
  BY <1>2 DEF Edit!Write, EditInv, EditTypes
<1>4. ClicksStand' /\ click' \in [Clicks -> {Edit!NoClick, Settling} \cup Clicked]
  BY <1>3, StandApart DEF Edit!Write
<1>5. put' \in [Tabs -> {Edit!NoPut} \cup Sent] /\ PutPicks'
  BY EditEmpty DEF Edit!Write, EditInv, EditTypes, PutPicks
<1>6. form' \in [Tabs -> {Edit!Closed} \cup Form] /\ FormPicks'
  BY EditEmpty DEF Edit!Write, EditInv, EditTypes, FormPicks
<1>. QED  BY <1>1, <1>3, <1>4, <1>5, <1>6 DEF Edit!Write, EditInv, EditTypes

LEMMA FlippedList ==
  ASSUME NEW l \in FullList, NEW h \in EditedHosts
  PROVE  Edit!Flip(l, h) \in FullList /\ Edit!Flip(l, h).rows[h].enabled = ~l.rows[h].enabled
<1>. DEFINE r == [l.rows[h] EXCEPT !.enabled = ~l.rows[h].enabled]
            m == [l.rows EXCEPT ![h] = r]
<1>1. l.rows \in [EditedHosts -> Edit!Row]
  BY DEF FullList
<1>2. r \in Edit!Row /\ r.enabled = ~l.rows[h].enabled
  BY <1>1 DEF Edit!Row
<1>3. Edit!Flip(l, h) = Edit!Listed(m)
  BY <1>1 DEF Edit!Flip
<1>. HIDE DEF r
<1>4. m \in [EditedHosts -> Edit!Row] /\ m[h] = r
  BY <1>1, <1>2
<1>. HIDE DEF m
<1>. QED  BY <1>2, <1>3, <1>4 DEF Edit!Listed, FullList

LEMMA ClickKeeps ==
  ASSUME EditInv, NEW c \in Clicks, NEW t \in Tabs, NEW h \in EditedHosts, Edit!Click(c, t, h) PROVE EditInv'
<1>. DEFINE k == [at |-> "sent", tab |-> t, host |-> h, previous |-> list[t], shown |-> ~list[t].rows[h].enabled,
                  value |-> FALSE, alone |-> TRUE]
            D == Edit!Disturbed(t)
            m == Edit!Flip(list[t], h)
<1>1. list[t] \in FullList
  BY EditEmpty DEF Edit!Click, EditInv, EditTypes
<1>2. m \in FullList /\ m.rows[h].enabled = ~list[t].rows[h].enabled
  BY <1>1, FlippedList
<1>3. k \in Clicked /\ k.tab = t /\ k.host = h /\ k.shown = ~list[t].rows[h].enabled
  BY <1>1 DEF Clicked
<1>4. list' = [list EXCEPT ![t] = m] /\ click' = [D EXCEPT ![c] = k] /\ fetch' = [fetch EXCEPT ![t] = Edit!NoList]
  BY DEF Edit!Click
<1>. HIDE DEF m, k
<1>5. /\ list' \in [Tabs -> {Edit!NoList} \cup FullList] /\ fetch' \in [Tabs -> {Edit!NoList} \cup FullList]
      /\ \A u \in Tabs \ {t} : list'[u] = list[u] /\ fetch'[u] = fetch[u]
      /\ list'[t] = m /\ fetch'[t] = Edit!NoList
  BY <1>2, <1>4 DEF EditInv, EditTypes
<1>6. D \in [Clicks -> {Edit!NoClick, Settling} \cup Clicked]
  BY DisturbedClicks DEF EditInv
<1>7. ASSUME NEW d \in Clicks PROVE SwitchStands(click'[d], list', fetch')
  <2>1. CASE d = c
    <3>1. click'[d] = k
      BY <1>4, <1>6, <2>1
    <3>. QED  BY <1>2, <1>3, <1>5, <3>1 DEF SwitchStands
  <2>2. CASE d # c
    <3>1. click'[d] = D[d]
      BY <1>4, <1>6, <2>2
    <3>2. CASE D[d] \in Clicked /\ ~D[d].alone
      BY <3>1, <3>2 DEF SwitchStands
    <3>3. CASE D[d] = click[d] /\ (click[d] \in Clicked => click[d].tab # t)
      BY <1>5, <3>1, <3>3 DEF SwitchStands, EditInv, ClicksStand, Clicked
    <3>. QED  BY <3>2, <3>3, DisturbedClicks DEF EditInv
  <2>. QED  BY <2>1, <2>2
<1>8. click' \in [Clicks -> {Edit!NoClick, Settling} \cup Clicked]
  BY <1>3, <1>4, <1>6
<1>9. ClicksStand'
  BY <1>7 DEF ClicksStand
<1>. QED  BY <1>5, <1>8, <1>9 DEF Edit!Click, EditInv, EditTypes, FormPicks, PutPicks

LEMMA ToggleKeeps == ASSUME EditInv, NEW c \in Clicks, Edit!Toggle(c) PROVE EditInv'
<1>0. PICK k \in Clicked : k = click[c]
  BY EditEmpty DEF Edit!Toggle, EditInv, EditTypes
<1>1. eRow[k.host].enabled \in BOOLEAN
  BY <1>0 DEF EditInv, EditTypes, Edit!Row, Clicked
<1>. DEFINE m == [k EXCEPT !.at = "write", !.value = ~eRow[k.host].enabled]
<1>2. m \in Clicked /\ m.tab = k.tab /\ m.host = k.host /\ m.shown = k.shown /\ m.alone = k.alone
  BY <1>1 DEF Clicked
<1>3. click' = [click EXCEPT ![c] = m]
  BY <1>0 DEF Edit!Toggle, EditInv, EditTypes
<1>. HIDE DEF m
<1>4. click' \in [Clicks -> {Edit!NoClick, Settling} \cup Clicked]
  BY <1>2, <1>3 DEF EditInv, EditTypes
<1>5. ASSUME NEW d \in Clicks PROVE SwitchStands(click'[d], list, fetch)
  <2>1. CASE d = c
    BY <1>0, <1>2, <1>3, <2>1 DEF SwitchStands, EditInv, EditTypes, ClicksStand
  <2>2. CASE d # c
    BY <1>3, <2>2 DEF SwitchStands, EditInv, EditTypes, ClicksStand
  <2>. QED  BY <2>1, <2>2
<1>6. ClicksStand'
  BY <1>5 DEF ClicksStand, Edit!Toggle, SwitchStands
<1>. QED  BY <1>4, <1>6 DEF Edit!Toggle, EditInv, EditTypes, FormPicks, PutPicks

\* A click of tab t is answered: the list of that tab is what it was, or is put back.
LEMMA SettledKeeps ==
  ASSUME EditInv, NEW c \in Clicks, NEW k \in Clicked, k = click[c], Edit!Settled(c),
         eRow' \in [EditedHosts -> Edit!Row],
         list' = list \/ list' = [list EXCEPT ![k.tab] = k.previous]
  PROVE  EditInv'
<1>0. PICK t \in Tabs : t = k.tab
  BY DEF Clicked
<1>1. Edit!Listed(eRow') \in FullList /\ k.previous \in FullList
  BY DEF Edit!Listed, FullList, Clicked
<1>2. /\ fetch' \in [Tabs -> {Edit!NoList} \cup FullList] /\ list' \in [Tabs -> {Edit!NoList} \cup FullList]
      /\ \A u \in Tabs \ {t} : list'[u] = list[u] /\ fetch'[u] = fetch[u]
  BY <1>0, <1>1 DEF Edit!Settled, EditInv, EditTypes
<1>. DEFINE D == Edit!Disturbed(t)
<1>3. D \in [Clicks -> {Edit!NoClick, Settling} \cup Clicked]
  BY DisturbedClicks DEF EditInv
<1>4. click' = [D EXCEPT ![c] = Settling]
  BY <1>0 DEF Edit!Settled, Settling
<1>5. ASSUME NEW d \in Clicks PROVE SwitchStands(click'[d], list', fetch')
  <2>1. CASE d = c
    BY <1>3, <1>4, <2>1, EditEmpty DEF SwitchStands
  <2>2. CASE d # c
    <3>1. click'[d] = D[d]
      BY <1>3, <1>4, <2>2
    <3>2. CASE D[d] \in Clicked /\ ~D[d].alone
      BY <3>1, <3>2 DEF SwitchStands
    <3>3. CASE D[d] = click[d] /\ (click[d] \in Clicked => click[d].tab # t)
      BY <1>2, <3>1, <3>3 DEF SwitchStands, EditInv, ClicksStand, Clicked
    <3>. QED  BY <3>2, <3>3, DisturbedClicks DEF EditInv
  <2>. QED  BY <2>1, <2>2
<1>6. click' \in [Clicks -> {Edit!NoClick, Settling} \cup Clicked]
  BY <1>3, <1>4
<1>7. ClicksStand'
  BY <1>5 DEF ClicksStand
<1>. QED  BY <1>2, <1>6, <1>7 DEF Edit!Settled, EditInv, EditTypes, FormPicks, PutPicks

LEMMA ToggledKeeps == ASSUME EditInv, NEW c \in Clicks, Edit!Toggled(c) PROVE EditInv'
<1>0. PICK k \in Clicked : k = click[c]
  BY EditEmpty DEF Edit!Toggled, EditInv, EditTypes
<1>1. eRow' \in [EditedHosts -> Edit!Row]
  BY <1>0 DEF Edit!Toggled, EditInv, EditTypes, Edit!Row, Clicked
<1>. QED  BY <1>0, <1>1, SettledKeeps DEF Edit!Toggled

LEMMA RefusedKeeps == ASSUME EditInv, NEW c \in Clicks, Edit!Refused(c) PROVE EditInv'
<1>0. PICK k \in Clicked : k = click[c]
  BY EditEmpty DEF Edit!Refused, EditInv, EditTypes
<1>. QED  BY <1>0, SettledKeeps DEF Edit!Refused, EditInv, EditTypes

LEMMA EditNext == EditInv /\ [Edit!EditNext]_editVars => EditInv'
<1>. SUFFICES ASSUME EditInv, [Edit!EditNext]_editVars PROVE EditInv'
  OBVIOUS
<1>1. CASE UNCHANGED editVars
  BY <1>1 DEF editVars, EditInv, EditTypes, FormPicks, PutPicks, ClicksStand
<1>. QED
  BY <1>1, PollKeeps, ReceiveKeeps, OpenKeeps, PickKeeps, CloseKeeps, SendKeeps, HandleKeeps, WriteKeeps,
     ClickKeeps,
     ToggleKeeps, ToggledKeeps, RefusedKeeps DEF Edit!EditNext

\* A host whose tunnel changes was moved by the form in which that tunnel was picked.
EditStep ==
  \A h \in EditedHosts : eRow'[h].tunnel # eRow[h].tunnel =>
    \E t \in Tabs : /\ put[t].at = "write" /\ put[t].host = h /\ put[t].picked
                    /\ put[t].tunnel = eRow'[h].tunnel

LEMMA TogglesKeepTunnels ==
  ASSUME EditInv, NEW c \in Clicks, Edit!Toggled(c) PROVE EditStep
<1>0. PICK k \in Clicked : k = click[c]
  BY EditEmpty DEF Edit!Toggled, EditInv, EditTypes
<1>. QED  BY <1>0 DEF Edit!Toggled, EditInv, EditTypes, Edit!Row, Clicked, EditStep

LEMMA WriteMovesAsPicked ==
  ASSUME EditInv, NEW t \in Tabs, Edit!Write(t) PROVE EditStep
<1>0. PICK p \in Sent : p = put[t]
  BY EditEmpty DEF Edit!Write, EditInv, EditTypes
<1>1. p.at = "write" /\ (~p.picked => p.tunnel = Edit!NoTunnel)
  BY <1>0 DEF EditInv, PutPicks, Edit!Write
<1>2. eRow' = [eRow EXCEPT ![p.host].tunnel = Edit!Field(p.tunnel, @)]
  BY <1>0 DEF Edit!Write
<1>. SUFFICES ASSUME NEW h \in EditedHosts, eRow'[h].tunnel # eRow[h].tunnel
              PROVE  p.host = h /\ p.picked /\ p.tunnel = eRow'[h].tunnel
  BY <1>0, <1>1 DEF EditStep
<1>3. h = p.host /\ eRow'[h].tunnel = Edit!Field(p.tunnel, eRow[h].tunnel)
  BY <1>2 DEF EditInv, EditTypes, Edit!Row, Sent
<1>4. p.tunnel # Edit!NoTunnel /\ p.tunnel = eRow'[h].tunnel
  BY <1>3 DEF Edit!Field
<1>. QED  BY <1>1, <1>3, <1>4

LEMMA EditStepMoves == EditInv /\ [Edit!EditNext]_editVars => [EditStep]_editVars
<1>. SUFFICES ASSUME EditInv, Edit!EditNext PROVE EditStep \/ UNCHANGED editVars
  OBVIOUS
<1>1. UNCHANGED eRow => EditStep
  BY DEF EditStep
<1>2. ASSUME NEW t \in Tabs PROVE Edit!Poll(t) \/ Edit!Receive(t) \/ Edit!Pick(t) \/ Edit!Close(t) \/ Edit!Send(t)
                                 \/ Edit!Handle(t) \/ (\E h \in EditedHosts : Edit!Open(t, h)) => UNCHANGED eRow
  BY DEF Edit!Poll, Edit!Receive, Edit!Pick, Edit!Close, Edit!Send, Edit!Handle, Edit!Open
<1>3. ASSUME NEW c \in Clicks
      PROVE  Edit!Toggle(c) \/ Edit!Refused(c) \/ (\E t \in Tabs, h \in EditedHosts : Edit!Click(c, t, h)) => UNCHANGED eRow
  BY DEF Edit!Toggle, Edit!Refused, Edit!Click
<1>. QED  BY <1>1, <1>2, <1>3, TogglesKeepTunnels, WriteMovesAsPicked DEF Edit!EditNext

(***************************************************************************)
(* What is said of a host                                                  *)
(*                                                                         *)
(* A diagnosis whose origin stayed the same knows at each request what the *)
(* ones before it established, unless one was lost; and what the row shows *)
(* is what a deploy has found, or what one that is under way wrote.        *)
(***************************************************************************)
LEMMA DiagnosisNumbers ==
  Attempts \in Nat \ {0} /\ MaxAsked \in Nat /\ MaxChanges \in Nat /\ Origins \subseteq Diagnosis!Origin
BY HostsAssumption

DnsSaid == {"none", "ok"} \cup Diagnosis!DnsReal \cup Diagnosis!DnsSoft

Probing ==
  [kind : Diagnosis!Kinds, at : Diagnosis!Steps, target : Diagnosis!Target, tries : 1..Attempts, dns : DnsSaid,
   verdict : Diagnosis!Verdicts, steady : BOOLEAN, lost : BOOLEAN]

\* A diagnosis d is at a step of its kind.
ProbeFits(d) ==
  /\ d \in Probing
  /\ d.at \in {"deploy", "warn"} => d.kind = "deploy"
  /\ d.at \in {"query", "records"} => d.kind # "diagnose"
  /\ d.at \in {"warn", "sniff", "plain", "proxied", "fetch"} => d.dns \notin Diagnosis!DnsReal

\* The port speaks what the target's scheme says, as far as its first byte tells.
Speaks(t, o) == o.port = "open" /\ (t.https <=> o.hello = "handshake")

\* What d knows of the origin o.
Rejects(o, t) == Diagnosis!Proxied(o, t) = "bad" /\ Diagnosis!Plain(o, t) \notin {"none", "bad"}
Served(o, t) ==
  LET plain == Diagnosis!Plain(o, t)
      visitor == Diagnosis!Visitor(o, t)
  IN  visitor = "good" \/ (visitor = "bad" /\ plain = "bad") \/ (visitor = "error" /\ plain # "error")
Learnt(d, o) ==
  d.steady /\ d.kind # "verify" /\ d.dns \notin Diagnosis!DnsReal =>
    /\ d.at \in {"plain", "proxied", "fetch"} => Speaks(d.target, o)
    /\ d.at = "proxied" => Diagnosis!Plain(o, d.target) \in {"good", "error"}
    /\ d.at = "fetch" /\ ~d.lost => ~Rejects(o, d.target)
    /\ d.at = "write" =>
         /\ d.verdict = "rejected" => Rejects(o, d.target) /\ Diagnosis!Visitor(o, d.target) \in {"none", "bad"}
         /\ Rejects(o, d.target) /\ ~d.lost => d.verdict \in {"rejected", "tls_on_http", "http_on_tls"}
         /\ d.verdict = "ok" /\ ~d.lost /\ Diagnosis!OneFace(o) => Served(o, d.target)

Parked(d) == IF d.dns \in Diagnosis!DnsSoft THEN d.dns ELSE "none"

\* The deploy d has come by the place that writes warnings.
Warned(d) == d.at \in {"sniff", "plain", "proxied", "fetch"} \/ (d.at = "write" /\ d.dns \notin Diagnosis!DnsReal)

DiagnosedRow == [there : BOOLEAN, target : Diagnosis!Target, error : Diagnosis!Errors, warning : Diagnosis!Warnings]
Findings == [error : Diagnosis!Errors, warning : Diagnosis!Warnings]

DiagnosisTypes ==
  /\ dRow \in DiagnosedRow
  /\ public \in {"nxdomain", "empty", "edge", "cname"} /\ zone \in {"none", "ours", "other"}
  /\ origin \in Origins
  /\ dJob \in [Jobs -> {Diagnosis!Idle} \cup Probing]
  /\ found \subseteq Findings
  /\ dAsked \in 0..MaxAsked /\ changes \in 0..MaxChanges

ProbesLearn == \A j \in Jobs : dJob[j] \in Probing => ProbeFits(dJob[j]) /\ Learnt(dJob[j], origin)

\* The error is one that a deploy has found, or of before a deploy that has yet to write, or
\* none, while one is under way that wrote so.
ErrorFollows ==
  \/ \E f \in found : f.error = dRow.error
  \/ \E j \in Diagnosis!Deploys : dJob[j].at = "deploy" \/ dRow.error = "none"

\* The warning is the one of a deploy that has come by its place, unless none has.
WarningFollows ==
  \/ \E f \in found : f.warning = dRow.warning /\ f.error \notin Diagnosis!Cut
  \/ \E j \in Diagnosis!Deploys : Warned(dJob[j]) /\ dRow.warning = Parked(dJob[j])
  \/ (\A f \in found : f.error \in Diagnosis!Cut) /\ \A j \in Diagnosis!Deploys : ~Warned(dJob[j])

RowFollows == dRow.there => ErrorFollows /\ WarningFollows

DiagnosisInv == DiagnosisTypes /\ ProbesLearn /\ RowFollows

LEMMA DiagnosisEmpty ==
  Diagnosis!Idle \notin Probing /\ \A j \in Jobs : j \in Diagnosis!Deploys <=> dJob[j] # Diagnosis!Idle /\ dJob[j].kind = "deploy"
<1>1. Diagnosis!Idle.kind \notin Diagnosis!Kinds
  BY DEF Diagnosis!Idle, Diagnosis!Kinds
<1>2. \A d \in Probing : d.kind \in Diagnosis!Kinds
  BY DEF Probing
<1>. QED  BY <1>1, <1>2 DEF Diagnosis!Deploys

LEMMA DiagnosisMeans ==
  DiagnosisInv => Diagnosis!TypeOK /\ Diagnosis!VerdictHoldsForVisitors /\ Diagnosis!RowShowsLastFindings
<1>. SUFFICES ASSUME DiagnosisInv
              PROVE  Diagnosis!TypeOK /\ Diagnosis!VerdictHoldsForVisitors /\ Diagnosis!RowShowsLastFindings
  OBVIOUS
<1>1. Probing \subseteq Diagnosis!Work
  BY DiagnosisNumbers DEF Probing, Diagnosis!Work, DnsSaid
<1>2. Diagnosis!TypeOK
  BY <1>1, DiagnosisNumbers DEF DiagnosisInv, DiagnosisTypes, DiagnosedRow, Findings, Diagnosis!TypeOK
<1>3. Diagnosis!VerdictHoldsForVisitors
  <2>. SUFFICES ASSUME NEW j \in Jobs, Diagnosis!Judged(j)
                PROVE  LET d == dJob[j] IN
                         /\ d.verdict = "rejected" => Rejects(origin, d.target) /\ Diagnosis!Visitor(origin, d.target) \in {"none", "bad"}
                         /\ Rejects(origin, d.target) /\ ~d.lost => d.verdict \in {"rejected", "tls_on_http", "http_on_tls"}
                         /\ d.verdict = "ok" /\ ~d.lost /\ Diagnosis!OneFace(origin) => Served(origin, d.target)
    BY DEF Diagnosis!VerdictHoldsForVisitors, Rejects, Served
  <2>1. dJob[j] \in Probing
    BY DEF DiagnosisInv, DiagnosisTypes, Diagnosis!Judged, Diagnosis!At
  <2>2. Learnt(dJob[j], origin)
    BY <2>1 DEF DiagnosisInv, ProbesLearn
  <2>. QED  BY <2>2 DEF Learnt, Diagnosis!Judged, Diagnosis!At
<1>4. Diagnosis!RowShowsLastFindings
  BY DEF DiagnosisInv, RowFollows, ErrorFollows, WarningFollows, Diagnosis!RowShowsLastFindings
<1>. QED  BY <1>2, <1>3, <1>4

LEMMA DiagnosisInit == Diagnosis!Init => DiagnosisInv
<1>. SUFFICES ASSUME Diagnosis!Init PROVE DiagnosisInv
  OBVIOUS
<1>1. Diagnosis!Deploys = {}
  BY DEF Diagnosis!Deploys, Diagnosis!Init
<1>2. DiagnosisTypes
  <2>1. PICK t \in Diagnosis!Target : dRow = [there |-> TRUE, target |-> t, error |-> "none", warning |-> "none"]
    BY DEF Diagnosis!Init
  <2>2. dRow \in DiagnosedRow
    BY <2>1 DEF DiagnosedRow, Diagnosis!Errors, Diagnosis!Warnings
  <2>3. found \subseteq Findings
    BY DEF Diagnosis!Init, Diagnosis!Errors, Diagnosis!Warnings, Findings
  <2>4. public \in {"nxdomain", "empty", "edge", "cname"} /\ zone \in {"none", "ours", "other"}
    BY DEF Diagnosis!Init
  <2>5. dJob \in [Jobs -> {Diagnosis!Idle} \cup Probing]
    BY DEF Diagnosis!Init
  <2>6. origin \in Origins
    BY DEF Diagnosis!Init
  <2>7. dAsked \in 0..MaxAsked /\ changes \in 0..MaxChanges
    <3>1. dAsked = 0 /\ changes = 0
      BY DEF Diagnosis!Init
    <3>. QED  BY <3>1, DiagnosisNumbers
  <2>. QED  BY <2>2, <2>3, <2>4, <2>5, <2>6, <2>7 DEF DiagnosisTypes
<1>3. ProbesLearn
  BY DiagnosisEmpty DEF Diagnosis!Init, ProbesLearn
<1>4. RowFollows
  <2>1. [error |-> "none", warning |-> "none"].error \notin Diagnosis!Cut
    BY DEF Diagnosis!Cut, Diagnosis!DnsReal
  <2>2. found = {[error |-> "none", warning |-> "none"]} /\ dRow.error = "none" /\ dRow.warning = "none"
    BY DEF Diagnosis!Init
  <2>. QED  BY <2>1, <2>2 DEF RowFollows, ErrorFollows, WarningFollows
<1>. QED  BY <1>2, <1>3, <1>4 DEF DiagnosisInv

\* Where the diagnosis j goes on, and what it writes, a deploy writes.
LEMMA ProbeMoves ==
  ASSUME DiagnosisInv, NEW j \in Jobs, NEW d \in Probing, NEW e \in Probing, e = dJob[j], d.kind = e.kind,
         dJob' = [dJob EXCEPT ![j] = d], ProbeFits(d), Learnt(d, origin),
         dRow' \in DiagnosedRow,
         dRow'.there = dRow.there, e.kind # "deploy" => dRow' = dRow,
         e.kind = "deploy" /\ dRow.there =>
           /\ (e.at # "deploy" /\ dRow'.error = dRow.error) \/ dRow'.error = "none"
           /\ \/ dRow'.warning = dRow.warning /\ (Warned(d) <=> Warned(e)) /\ (Warned(e) => Parked(d) = Parked(e))
              \/ Warned(d) /\ dRow'.warning = Parked(d),
         zone' \in {"none", "ours", "other"}, UNCHANGED <<public, origin, changes, found, dAsked>>
  PROVE  DiagnosisInv'
<1>1. DiagnosisTypes'
  BY DEF DiagnosisInv, DiagnosisTypes
<1>2. \A i \in Jobs : dJob'[i] = IF i = j THEN d ELSE dJob[i]
  BY DEF DiagnosisInv, DiagnosisTypes
<1>3. ProbesLearn'
  <2>1. ASSUME NEW i \in Jobs, dJob'[i] \in Probing PROVE ProbeFits(dJob'[i]) /\ Learnt(dJob'[i], origin')
    BY <1>2, <2>1 DEF DiagnosisInv, ProbesLearn
  <2>. QED  BY <2>1 DEF ProbesLearn
<1>4. Diagnosis!Deploys' = Diagnosis!Deploys /\ Diagnosis!Deploys \subseteq Jobs
  BY <1>2, DiagnosisEmpty DEF Diagnosis!Deploys
<1>5. CASE e.kind = "deploy"
  <2>1. j \in Diagnosis!Deploys
    BY <1>5, DiagnosisEmpty
  <2>2. SUFFICES ASSUME dRow.there PROVE ErrorFollows' /\ WarningFollows'
    BY <1>1, <1>3 DEF DiagnosisInv, RowFollows
  <2>3. ErrorFollows /\ WarningFollows
    BY <2>2 DEF DiagnosisInv, RowFollows
  <2>4. ErrorFollows'
    <3>1. CASE e.at # "deploy" /\ dRow'.error = dRow.error
      BY <1>2, <1>4, <2>3, <3>1 DEF ErrorFollows
    <3>2. CASE dRow'.error = "none"
      BY <1>4, <2>1, <3>2 DEF ErrorFollows
    <3>. QED  BY <1>5, <2>2, <3>1, <3>2
  <2>5. WarningFollows'
    <3>1. CASE dRow'.warning = dRow.warning /\ (Warned(d) <=> Warned(e)) /\ (Warned(e) => Parked(d) = Parked(e))
      <4>1. \A i \in Diagnosis!Deploys : /\ Warned(dJob'[i]) <=> Warned(dJob[i])
                                        /\ Warned(dJob[i]) => Parked(dJob'[i]) = Parked(dJob[i])
        BY <1>2, <1>4, <3>1
      <4>. QED  BY <1>4, <2>3, <3>1, <4>1 DEF WarningFollows
    <3>2. CASE Warned(d) /\ dRow'.warning = Parked(d)
      BY <1>2, <1>4, <2>1, <3>2 DEF WarningFollows
    <3>. QED  BY <1>5, <2>2, <3>1, <3>2
  <2>. QED  BY <2>4, <2>5
<1>6. CASE e.kind # "deploy"
  <2>1. j \notin Diagnosis!Deploys /\ dRow' = dRow
    BY <1>6, DiagnosisEmpty
  <2>2. \A i \in Diagnosis!Deploys : dJob'[i] = dJob[i]
    BY <1>2, <1>4, <2>1
  <2>3. RowFollows'
    BY <1>4, <2>1, <2>2 DEF DiagnosisInv, RowFollows, ErrorFollows, WarningFollows
  <2>. QED  BY <1>1, <1>3, <2>3 DEF DiagnosisInv
<1>. QED  BY <1>5, <1>6

\* Where it is over.
LEMMA ProbeEnds ==
  ASSUME DiagnosisInv, NEW j \in Jobs, NEW e \in Probing, e = dJob[j],
         NEW error \in Diagnosis!Errors, NEW warning \in Diagnosis!Warnings, Diagnosis!Ends(j, error, warning),
         dRow' \in DiagnosedRow, dRow'.there = dRow.there, e.kind # "deploy" => dRow' = dRow,
         e.kind = "deploy" /\ dRow.there =>
           /\ dRow'.error = error \/ (error = "none" /\ e.at # "deploy" /\ dRow'.error = dRow.error)
           /\ dRow'.warning = dRow.warning
           /\ IF Warned(e) THEN warning = Parked(e) /\ error \notin Diagnosis!Cut ELSE error \in Diagnosis!Cut
  PROVE  DiagnosisInv'
<1>. DEFINE f == [error |-> error, warning |-> warning]
<1>0. /\ dJob' = [dJob EXCEPT ![j] = Diagnosis!Idle] /\ UNCHANGED <<public, zone, origin, changes, dAsked>>
      /\ found' = IF e.kind # "deploy" THEN found ELSE found \cup {f}
      /\ f \in Findings /\ f.error = error /\ f.warning = warning
  BY DEF Diagnosis!Ends, Diagnosis!world, Findings
<1>. HIDE DEF f
<1>1. DiagnosisTypes'
  BY <1>0 DEF DiagnosisInv, DiagnosisTypes
<1>2. \A i \in Jobs : dJob'[i] = IF i = j THEN Diagnosis!Idle ELSE dJob[i]
  BY <1>0 DEF DiagnosisInv, DiagnosisTypes
<1>3. ProbesLearn'
  <2>1. ASSUME NEW i \in Jobs, dJob'[i] \in Probing PROVE ProbeFits(dJob'[i]) /\ Learnt(dJob'[i], origin')
    BY <1>0, <1>2, <2>1, DiagnosisEmpty DEF DiagnosisInv, ProbesLearn
  <2>. QED  BY <2>1 DEF ProbesLearn
<1>4. Diagnosis!Deploys' = Diagnosis!Deploys \ {j} /\ Diagnosis!Deploys \subseteq Jobs
  BY <1>2, DiagnosisEmpty DEF Diagnosis!Deploys
<1>5. CASE e.kind = "deploy"
  <2>1. j \in Diagnosis!Deploys /\ found' = found \cup {f}
    BY <1>0, <1>5, DiagnosisEmpty
  <2>2. SUFFICES ASSUME dRow.there PROVE ErrorFollows' /\ WarningFollows'
    BY <1>1, <1>3 DEF DiagnosisInv, RowFollows
  <2>3. ErrorFollows /\ WarningFollows
    BY <2>2 DEF DiagnosisInv, RowFollows
  <2>4. ErrorFollows'
    <3>1. CASE dRow'.error = error
      BY <1>0, <2>1, <3>1 DEF ErrorFollows
    <3>2. CASE error = "none" /\ e.at # "deploy" /\ dRow'.error = dRow.error
      <4>1. CASE \E g \in found : g.error = dRow.error
        BY <2>1, <3>2, <4>1 DEF ErrorFollows
      <4>2. CASE \E i \in Diagnosis!Deploys : dJob[i].at = "deploy"
        BY <1>2, <1>4, <3>2, <4>2 DEF ErrorFollows
      <4>3. CASE dRow.error = "none"
        BY <1>0, <2>1, <3>2, <4>3 DEF ErrorFollows
      <4>. QED  BY <2>3, <4>1, <4>2, <4>3 DEF ErrorFollows
    <3>. QED  BY <1>5, <2>2, <3>1, <3>2
  <2>5. WarningFollows'
    <3>1. CASE \E g \in found : g.warning = dRow.warning /\ g.error \notin Diagnosis!Cut
      BY <1>5, <2>1, <2>2, <3>1 DEF WarningFollows
    <3>2. ASSUME NEW i \in Diagnosis!Deploys, Warned(dJob[i]), dRow.warning = Parked(dJob[i]) PROVE WarningFollows'
      <4>1. CASE i = j
        BY <1>0, <1>5, <2>1, <2>2, <3>2, <4>1 DEF WarningFollows
      <4>2. CASE i # j
        BY <1>2, <1>4, <1>5, <2>2, <3>2, <4>2 DEF WarningFollows
      <4>. QED  BY <4>1, <4>2
    <3>3. CASE (\A g \in found : g.error \in Diagnosis!Cut) /\ \A i \in Diagnosis!Deploys : ~Warned(dJob[i])
      <4>1. ~Warned(e)
        BY <2>1, <3>3
      <4>. QED  BY <1>0, <1>2, <1>4, <1>5, <2>1, <2>2, <3>3, <4>1 DEF WarningFollows
    <3>. QED  BY <2>3, <3>1, <3>2, <3>3 DEF WarningFollows
  <2>. QED  BY <2>4, <2>5
<1>6. CASE e.kind # "deploy"
  <2>1. j \notin Diagnosis!Deploys /\ dRow' = dRow /\ found' = found
    BY <1>0, <1>6, DiagnosisEmpty
  <2>2. Diagnosis!Deploys' = Diagnosis!Deploys /\ \A i \in Diagnosis!Deploys : dJob'[i] = dJob[i]
    BY <1>2, <1>4, <2>1
  <2>3. RowFollows'
    BY <2>1, <2>2 DEF DiagnosisInv, RowFollows, ErrorFollows, WarningFollows
  <2>. QED  BY <1>1, <1>3, <2>3 DEF DiagnosisInv
<1>. QED  BY <1>5, <1>6

\* A request begins a diagnosis of the row as it is; an edit and a redeploy write to it first.
LEMMA BeginsProbe ==
  ASSUME DiagnosisInv, NEW j \in Jobs, NEW kind \in Diagnosis!Kinds, NEW t \in Diagnosis!Target,
         NEW step \in {"deploy", "query", "sniff"}, NEW tries \in 1..Attempts, Diagnosis!Begin(j, kind, t, step, tries),
         step = "deploy" <=> kind = "deploy", step = "query" => kind = "verify",
         dRow' \in DiagnosedRow,
         dRow'.there = dRow.there, dRow'.warning = dRow.warning, kind # "deploy" => dRow' = dRow,
         UNCHANGED <<public, zone, origin, changes>>
  PROVE  DiagnosisInv'
<1>. DEFINE d == [kind |-> kind, at |-> step, target |-> t, tries |-> tries, dns |-> "none", verdict |-> "ok", steady |-> TRUE,
            lost |-> FALSE]
<1>1. d \in Probing /\ ProbeFits(d) /\ Learnt(d, origin) /\ d.kind = kind /\ d.at = step
  <2>1. d \in Probing
    BY DEF Probing, DnsSaid, Diagnosis!Steps, Diagnosis!Verdicts
  <2>2. "none" \notin Diagnosis!DnsReal
    BY DEF Diagnosis!DnsReal
  <2>3. d.kind = kind /\ d.at = step /\ d.dns = "none"
    OBVIOUS
  <2>. HIDE DEF d
  <2>. QED  BY <2>1, <2>2, <2>3 DEF ProbeFits, Learnt
<1>2. /\ dJob[j] = Diagnosis!Idle /\ dAsked' \in 0..MaxAsked /\ dJob' = [dJob EXCEPT ![j] = d]
      /\ found' = IF kind = "deploy" /\ Diagnosis!Deploys = {} THEN {} ELSE found
  BY DiagnosisNumbers DEF Diagnosis!Begin, DiagnosisInv, DiagnosisTypes
<1>. HIDE DEF d
<1>3. \A i \in Jobs : dJob'[i] = IF i = j THEN d ELSE dJob[i]
  BY <1>2 DEF DiagnosisInv, DiagnosisTypes
<1>4. DiagnosisTypes'
  BY <1>1, <1>2 DEF DiagnosisInv, DiagnosisTypes
<1>5. ProbesLearn'
  <2>1. ASSUME NEW i \in Jobs, dJob'[i] \in Probing PROVE ProbeFits(dJob'[i]) /\ Learnt(dJob'[i], origin')
    BY <1>1, <1>3, <2>1 DEF DiagnosisInv, ProbesLearn
  <2>. QED  BY <2>1 DEF ProbesLearn
<1>6. d # Diagnosis!Idle /\ j \notin Diagnosis!Deploys
  BY <1>1, <1>2, DiagnosisEmpty
<1>7. Diagnosis!Deploys' = IF kind = "deploy" THEN Diagnosis!Deploys \cup {j} ELSE Diagnosis!Deploys
  BY <1>1, <1>3, <1>6 DEF Diagnosis!Deploys
<1>9. CASE kind = "deploy"
  <2>1. j \in Diagnosis!Deploys' /\ dJob'[j] = d /\ d.at = "deploy" /\ ~Warned(d)
    BY <1>1, <1>3, <1>7, <1>9 DEF Warned
  <2>2. ErrorFollows'
    BY <2>1 DEF ErrorFollows
  <2>3. SUFFICES ASSUME dRow.there PROVE WarningFollows'
    BY <1>4, <1>5, <2>2 DEF DiagnosisInv, RowFollows
  <2>4. \A i \in Diagnosis!Deploys' : i = j \/ (i \in Diagnosis!Deploys /\ dJob'[i] = dJob[i])
    BY <1>3, <1>7 DEF Diagnosis!Deploys
  <2>5. CASE Diagnosis!Deploys = {}
    BY <1>2, <1>9, <2>1, <2>4, <2>5 DEF WarningFollows
  <2>6. CASE Diagnosis!Deploys # {}
    <3>1. found' = found /\ WarningFollows
      BY <1>2, <2>3, <2>6 DEF DiagnosisInv, RowFollows
    <3>2. \A i \in Diagnosis!Deploys : i \in Diagnosis!Deploys' /\ dJob'[i] = dJob[i]
      BY <1>3, <1>6, <1>7, <1>9 DEF Diagnosis!Deploys
    <3>. QED  BY <2>1, <2>4, <3>1, <3>2 DEF WarningFollows
  <2>. QED  BY <2>5, <2>6
<1>10. CASE kind # "deploy"
  <2>1. Diagnosis!Deploys' = Diagnosis!Deploys /\ dRow' = dRow /\ found' = found
    BY <1>2, <1>7, <1>10
  <2>2. \A i \in Diagnosis!Deploys : dJob'[i] = dJob[i]
    BY <1>3, <1>6 DEF Diagnosis!Deploys
  <2>3. RowFollows'
    BY <2>1, <2>2 DEF DiagnosisInv, RowFollows, ErrorFollows, WarningFollows
  <2>. QED  BY <1>4, <1>5, <2>3 DEF DiagnosisInv
<1>. QED  BY <1>9, <1>10

LEMMA AsksKeep ==
  ASSUME DiagnosisInv, NEW j \in Jobs,
         Diagnosis!Edit(j) \/ Diagnosis!Redeploy(j) \/ Diagnosis!VerifyDns(j) \/ Diagnosis!Diagnose(j)
  PROVE  DiagnosisInv'
<1>1. 1 \in 1..Attempts /\ Attempts \in 1..Attempts /\ {"deploy", "verify", "diagnose"} \subseteq Diagnosis!Kinds
  BY DiagnosisNumbers DEF Diagnosis!Kinds
<1>2. dRow.target \in Diagnosis!Target /\ "none" \in Diagnosis!Errors
  BY DEF DiagnosisInv, DiagnosisTypes, DiagnosedRow, Diagnosis!Errors
<1>3. ASSUME NEW t \in Diagnosis!Target, dRow' = [dRow EXCEPT !.target = t], Diagnosis!Begin(j, "deploy", t, "deploy", Attempts),
             UNCHANGED <<public, zone, origin, changes>>
      PROVE  DiagnosisInv'
  <2>1. /\ dRow' \in DiagnosedRow
        /\ dRow'.there = dRow.there /\ dRow'.warning = dRow.warning
    BY <1>3 DEF DiagnosisInv, DiagnosisTypes, DiagnosedRow
  <2>. QED  BY <1>1, <1>3, <2>1, BeginsProbe
<1>4. CASE Diagnosis!Edit(j)
  BY <1>3, <1>4 DEF Diagnosis!Edit, Diagnosis!world
<1>5. CASE Diagnosis!Redeploy(j)
  <2>1. dRow' = [dRow EXCEPT !.error = "none"] /\ UNCHANGED <<public, zone, origin, changes>>
    BY <1>5 DEF Diagnosis!Redeploy, Diagnosis!world
  <2>2. /\ dRow' \in DiagnosedRow
        /\ dRow'.there = dRow.there /\ dRow'.warning = dRow.warning
    BY <1>2, <2>1 DEF DiagnosisInv, DiagnosisTypes, DiagnosedRow
  <2>. QED  BY <1>1, <1>2, <1>5, <2>1, <2>2, BeginsProbe DEF Diagnosis!Redeploy
<1>6. CASE Diagnosis!VerifyDns(j) \/ Diagnosis!Diagnose(j)
  <2>1. UNCHANGED <<dRow, public, zone, origin, changes>>
    BY <1>6 DEF Diagnosis!VerifyDns, Diagnosis!Diagnose, Diagnosis!world
  <2>2. /\ dRow' \in DiagnosedRow
        /\ dRow'.there = dRow.there /\ dRow'.warning = dRow.warning
    BY <2>1 DEF DiagnosisInv, DiagnosisTypes, DiagnosedRow
  <2>. QED  BY <1>1, <1>2, <1>6, <2>1, <2>2, BeginsProbe DEF Diagnosis!VerifyDns, Diagnosis!Diagnose
<1>. QED  BY <1>4, <1>5, <1>6

\* The diagnosis at a step, and what is known of it.
LEMMA ProbeAt ==
  ASSUME DiagnosisInv, NEW j \in Jobs, NEW step, Diagnosis!At(j, step)
  PROVE  dJob[j] \in Probing /\ dJob[j].at = step /\ ProbeFits(dJob[j]) /\ Learnt(dJob[j], origin)
BY DEF Diagnosis!At, DiagnosisInv, DiagnosisTypes, ProbesLearn

LEMMA RowUpdates ==
  ASSUME DiagnosisInv, NEW e \in Diagnosis!Errors, NEW w \in Diagnosis!Warnings,
         Diagnosis!Updated([dRow EXCEPT !.error = e]) \/ Diagnosis!Updated([dRow EXCEPT !.warning = w])
  PROVE  /\ dRow' \in DiagnosedRow
         /\ dRow'.there = dRow.there
         /\ dRow.there /\ Diagnosis!Updated([dRow EXCEPT !.error = e]) => dRow'.error = e /\ dRow'.warning = dRow.warning
         /\ dRow.there /\ Diagnosis!Updated([dRow EXCEPT !.warning = w]) => dRow'.warning = w /\ dRow'.error = dRow.error
BY DEF DiagnosisInv, DiagnosisTypes, DiagnosedRow, Diagnosis!Updated

LEMMA DeployedKeepsRow == ASSUME DiagnosisInv, NEW j \in Jobs, Diagnosis!Deployed(j) PROVE DiagnosisInv'
<1>0. PICK e \in Probing : e = dJob[j]
  BY ProbeAt DEF Diagnosis!Deployed
<1>1. e.at = "deploy" /\ e.kind = "deploy" /\ ProbeFits(e)
  BY <1>0, ProbeAt DEF Diagnosis!Deployed, ProbeFits
<1>. DEFINE d == [e EXCEPT !.at = "query"]
<1>2. d \in Probing /\ d.at = "query" /\ d.kind = e.kind /\ d.target = e.target
  BY <1>1 DEF Probing, Diagnosis!Steps
<1>3. dJob' = [dJob EXCEPT ![j] = d]
  BY <1>0 DEF Diagnosis!Deployed, Diagnosis!Go
<1>. HIDE DEF d
<1>4. ProbeFits(d) /\ Learnt(d, origin)
  BY <1>1, <1>2 DEF ProbeFits, Learnt
<1>5. "none" \in Diagnosis!Errors /\ "none" \in Diagnosis!Warnings /\ Diagnosis!Updated([dRow EXCEPT !.error = "none"])
  BY DEF Diagnosis!Errors, Diagnosis!Warnings, Diagnosis!Deployed
<1>6. /\ dRow' \in DiagnosedRow
      /\ dRow'.there = dRow.there /\ (dRow.there => dRow'.error = "none" /\ dRow'.warning = dRow.warning)
  BY <1>5, RowUpdates
<1>7. ~Warned(e) /\ ~Warned(d)
  BY <1>1, <1>2 DEF Warned
<1>8. zone' \in {"none", "ours", "other"} /\ UNCHANGED <<public, origin, changes, found, dAsked>>
  BY DEF Diagnosis!Deployed
<1>. QED  BY <1>0, <1>1, <1>2, <1>3, <1>4, <1>6, <1>7, <1>8, ProbeMoves

LEMMA DeployFailsKeeps == ASSUME DiagnosisInv, NEW j \in Jobs, Diagnosis!DeployFails(j) PROVE DiagnosisInv'
<1>0. PICK e \in Probing : e = dJob[j]
  BY ProbeAt DEF Diagnosis!DeployFails
<1>1. e.kind = "deploy" /\ e.at = "deploy"
  BY <1>0, ProbeAt DEF Diagnosis!DeployFails, ProbeFits
<1>2. "deploy" \in Diagnosis!Errors /\ "none" \in Diagnosis!Warnings /\ Diagnosis!Updated([dRow EXCEPT !.error = "deploy"])
  BY DEF Diagnosis!Errors, Diagnosis!Warnings, Diagnosis!DeployFails
<1>3. /\ dRow' \in DiagnosedRow
      /\ dRow'.there = dRow.there /\ (dRow.there => dRow'.error = "deploy" /\ dRow'.warning = dRow.warning)
  BY <1>2, RowUpdates
<1>4. ~Warned(e) /\ "deploy" \in Diagnosis!Cut
  BY <1>1 DEF Warned, Diagnosis!Cut
<1>. QED  BY <1>0, <1>1, <1>2, <1>3, <1>4, ProbeEnds DEF Diagnosis!DeployFails

LEMMA SameRow ==
  ASSUME DiagnosisInv, dRow' = dRow
  PROVE  dRow' \in DiagnosedRow
BY DEF DiagnosisInv, DiagnosisTypes

\* Where only the diagnosis goes on.
LEMMA OnlyProbeMoves ==
  ASSUME DiagnosisInv, NEW j \in Jobs, NEW d \in Probing, NEW e \in Probing, e = dJob[j], d.kind = e.kind,
         dJob' = [dJob EXCEPT ![j] = d], ProbeFits(d), Learnt(d, origin),
         e.at # "deploy", Warned(d) <=> Warned(e), Warned(e) => Parked(d) = Parked(e),
         UNCHANGED <<dRow, public, zone, origin, changes, found, dAsked>>
  PROVE  DiagnosisInv'
<1>1. zone' \in {"none", "ours", "other"}
  BY DEF DiagnosisInv, DiagnosisTypes
<1>. QED  BY <1>1, SameRow, ProbeMoves

\* verifyDns has returned.
LEMMA DnsFound ==
  ASSUME DiagnosisInv, NEW j \in Jobs, NEW e \in Probing, e = dJob[j], e.at \in {"query", "records"}, ProbeFits(e),
         NEW kind \in {"no_answer", "nxdomain", "no_record", "ok", "wrong_target"}, Diagnosis!DnsIs(j, kind),
         UNCHANGED <<dRow, public, zone, origin, changes, found, dAsked>>
  PROVE  DiagnosisInv'
<1>. DEFINE step == IF kind \in Diagnosis!DnsReal \/ e.kind = "verify" THEN "write" ELSE "warn"
            d == [e EXCEPT !.dns = kind, !.tries = 1, !.at = step]
<1>1. step \in Diagnosis!Steps /\ kind \in DnsSaid /\ 1 \in 1..Attempts
  BY DiagnosisNumbers DEF Diagnosis!Steps, DnsSaid, Diagnosis!DnsReal, Diagnosis!DnsSoft
<1>2. step = "write" => kind \in Diagnosis!DnsReal \/ e.kind = "verify"
  OBVIOUS
<1>3. step \in {"write", "warn"} /\ (step = "warn" => e.kind = "deploy" /\ kind \notin Diagnosis!DnsReal)
  BY DEF ProbeFits, Probing, Diagnosis!Kinds
<1>4. dJob' = [dJob EXCEPT ![j] = d]
  BY DEF Diagnosis!DnsIs
<1>. HIDE DEF step
<1>5. d \in Probing /\ d.at = step /\ d.kind = e.kind /\ d.dns = kind
  BY <1>1 DEF Probing
<1>. HIDE DEF d
<1>6. ProbeFits(d) /\ Learnt(d, origin)
  BY <1>2, <1>3, <1>5 DEF ProbeFits, Learnt
<1>7. CASE e.kind = "deploy"
  <2>1. ~Warned(d) /\ ~Warned(e)
    BY <1>2, <1>3, <1>5, <1>7 DEF Warned
  <2>. QED  BY <1>4, <1>5, <1>6, <2>1, OnlyProbeMoves
<1>8. CASE e.kind # "deploy"
  <2>1. zone' \in {"none", "ours", "other"}
    BY DEF DiagnosisInv, DiagnosisTypes
  <2>. QED  BY <1>4, <1>5, <1>6, <1>8, <2>1, SameRow, ProbeMoves
<1>. QED  BY <1>7, <1>8

LEMMA QueryKeeps == ASSUME DiagnosisInv, NEW j \in Jobs, Diagnosis!Query(j) PROVE DiagnosisInv'
<1>0. PICK e \in Probing : e = dJob[j]
  BY ProbeAt DEF Diagnosis!Query
<1>1. e.at = "query" /\ ProbeFits(e) /\ UNCHANGED <<dRow, public, zone, origin, changes, found, dAsked>>
  BY <1>0, ProbeAt DEF Diagnosis!Query, Diagnosis!world
<1>2. ASSUME NEW kind \in {"no_answer", "nxdomain", "no_record", "ok", "wrong_target"}, Diagnosis!DnsIs(j, kind) PROVE DiagnosisInv'
  BY <1>0, <1>1, <1>2, DnsFound
<1>3. CASE Diagnosis!Again(j) /\ e.tries # 1
  <2>. DEFINE d == [e EXCEPT !.tries = e.tries - 1]
  <2>1. d \in Probing /\ d.at = e.at /\ d.kind = e.kind /\ d.target = e.target
    BY <1>3, DiagnosisNumbers DEF Probing
  <2>2. dJob' = [dJob EXCEPT ![j] = d]
    BY <1>0, <1>3 DEF Diagnosis!Again
  <2>. HIDE DEF d
  <2>3. ProbeFits(d) /\ Learnt(d, origin) /\ ~Warned(d) /\ ~Warned(e)
    BY <1>1, <2>1 DEF ProbeFits, Learnt, Warned
  <2>. QED  BY <1>0, <1>1, <2>1, <2>2, <2>3, OnlyProbeMoves
<1>4. CASE dJob' = [dJob EXCEPT ![j].tries = 1, ![j].at = "records"]
  <2>. DEFINE d == [e EXCEPT !.tries = 1, !.at = "records"]
  <2>1. d \in Probing /\ d.at = "records" /\ d.kind = e.kind /\ d.target = e.target
    <3>1. 1 \in 1..Attempts /\ "records" \in Diagnosis!Steps
      BY DiagnosisNumbers DEF Diagnosis!Steps
    <3>. QED  BY <3>1 DEF Probing
  <2>2. dJob' = [dJob EXCEPT ![j] = d]
    BY <1>0, <1>4
  <2>. HIDE DEF d
  <2>3. ProbeFits(d) /\ Learnt(d, origin) /\ ~Warned(d) /\ ~Warned(e)
    BY <1>1, <2>1 DEF ProbeFits, Learnt, Warned
  <2>. QED  BY <1>0, <1>1, <2>1, <2>2, <2>3, OnlyProbeMoves
<1>. QED
  <2>1. \/ Diagnosis!Again(j) /\ e.tries # 1
        \/ dJob' = [dJob EXCEPT ![j].tries = 1, ![j].at = "records"]
        \/ \E kind \in {"no_answer", "nxdomain", "no_record", "ok", "wrong_target"} : Diagnosis!DnsIs(j, kind)
    BY <1>0 DEF Diagnosis!Query
  <2>. QED  BY <1>2, <1>3, <1>4, <2>1

LEMMA RecordsKeep == ASSUME DiagnosisInv, NEW j \in Jobs, Diagnosis!Records(j) PROVE DiagnosisInv'
<1>0. PICK e \in Probing : e = dJob[j]
  BY ProbeAt DEF Diagnosis!Records
<1>1. e.at = "records" /\ ProbeFits(e) /\ UNCHANGED <<dRow, public, zone, origin, changes, found, dAsked>>
  BY <1>0, ProbeAt DEF Diagnosis!Records, Diagnosis!world
<1>2. \E kind \in {"no_answer", "nxdomain", "no_record", "ok", "wrong_target"} : Diagnosis!DnsIs(j, kind)
  BY DEF Diagnosis!Records
<1>. QED  BY <1>0, <1>1, <1>2, DnsFound

LEMMA WarningKeeps == ASSUME DiagnosisInv, NEW j \in Jobs, Diagnosis!SetMetaWarning(j) PROVE DiagnosisInv'
<1>0. PICK e \in Probing : e = dJob[j]
  BY ProbeAt DEF Diagnosis!SetMetaWarning
<1>1. e.at = "warn" /\ e.kind = "deploy" /\ ProbeFits(e) /\ UNCHANGED <<public, zone, origin, changes, found, dAsked>>
  BY <1>0, ProbeAt DEF Diagnosis!SetMetaWarning, ProbeFits, Diagnosis!world
<1>. DEFINE d == [e EXCEPT !.at = "sniff"]
<1>2. d \in Probing /\ d.at = "sniff" /\ d.kind = e.kind /\ d.dns = e.dns
  BY DEF Probing, Diagnosis!Steps
<1>3. dJob' = [dJob EXCEPT ![j] = d]
  BY <1>0 DEF Diagnosis!SetMetaWarning, Diagnosis!Go
<1>. HIDE DEF d
<1>4. ProbeFits(d) /\ Learnt(d, origin)
  BY <1>1, <1>2 DEF ProbeFits, Learnt
<1>5. Parked(e) \in Diagnosis!Warnings /\ "none" \in Diagnosis!Errors /\ Diagnosis!Updated([dRow EXCEPT !.warning = Parked(e)])
  BY <1>0 DEF Parked, Diagnosis!Warnings, Diagnosis!Errors, Diagnosis!SetMetaWarning
<1>6. /\ dRow' \in DiagnosedRow
      /\ dRow'.there = dRow.there /\ (dRow.there => dRow'.warning = Parked(e) /\ dRow'.error = dRow.error)
  BY <1>5, RowUpdates
<1>7. Warned(d) /\ Parked(d) = Parked(e)
  BY <1>1, <1>2 DEF Warned, Parked
<1>8. zone' \in {"none", "ours", "other"}
  BY <1>1 DEF DiagnosisInv, DiagnosisTypes
<1>. QED  BY <1>0, <1>1, <1>2, <1>3, <1>4, <1>6, <1>7, <1>8, ProbeMoves

\* The probe goes on to its next request, has its verdict, or loses a request.
ProbeSteps == {"sniff", "plain", "proxied", "fetch"}
LEMMA ProbeTurns ==
  ASSUME DiagnosisInv, NEW j \in Jobs, NEW e \in Probing, e = dJob[j], e.at \in ProbeSteps,
         NEW d \in Probing, d.at \in ProbeSteps \cup {"write"}, d.kind = e.kind, d.dns = e.dns,
         e.dns \notin Diagnosis!DnsReal, dJob' = [dJob EXCEPT ![j] = d], Learnt(d, origin),
         UNCHANGED <<dRow, public, zone, origin, changes, found, dAsked>>
  PROVE  DiagnosisInv'
<1>1. ProbeFits(d) /\ Warned(d) /\ Warned(e) /\ Parked(d) = Parked(e) /\ e.at # "deploy"
  BY DEF ProbeFits, Warned, Parked, ProbeSteps
<1>. QED  BY <1>1, OnlyProbeMoves

LEMMA ProbeGoes ==
  ASSUME DiagnosisInv, NEW j \in Jobs, NEW e \in Probing, e = dJob[j], e.at \in ProbeSteps, e.dns \notin Diagnosis!DnsReal,
         NEW step \in ProbeSteps, Diagnosis!Go(j, step), Learnt([e EXCEPT !.at = step], origin),
         UNCHANGED <<dRow, public, zone, origin, changes, found, dAsked>>
  PROVE  DiagnosisInv'
<1>. DEFINE d == [e EXCEPT !.at = step]
<1>1. d \in Probing /\ d.at \in ProbeSteps \cup {"write"} /\ d.kind = e.kind /\ d.dns = e.dns
  BY DEF Probing, Diagnosis!Steps, ProbeSteps
<1>2. dJob' = [dJob EXCEPT ![j] = d] /\ Learnt(d, origin)
  BY DEF Diagnosis!Go
<1>. HIDE DEF d
<1>. QED  BY <1>1, <1>2, ProbeTurns

LEMMA ProbeJudges ==
  ASSUME DiagnosisInv, NEW j \in Jobs, NEW e \in Probing, e = dJob[j], e.at \in ProbeSteps, e.dns \notin Diagnosis!DnsReal,
         NEW v \in Diagnosis!Verdicts, Diagnosis!Judge(j, v), Learnt([e EXCEPT !.verdict = v, !.at = "write"], origin),
         UNCHANGED <<dRow, public, zone, origin, changes, found, dAsked>>
  PROVE  DiagnosisInv'
<1>. DEFINE d == [e EXCEPT !.verdict = v, !.at = "write"]
<1>1. d \in Probing /\ d.at \in ProbeSteps \cup {"write"} /\ d.kind = e.kind /\ d.dns = e.dns
  BY DEF Probing, Diagnosis!Steps, ProbeSteps
<1>2. dJob' = [dJob EXCEPT ![j] = d] /\ Learnt(d, origin)
  BY DEF Diagnosis!Judge
<1>. HIDE DEF d
<1>. QED  BY <1>1, <1>2, ProbeTurns

\* After a lost request little is known: that the verdict is none that needs an answer.
LEMMA ProbeLoses ==
  ASSUME DiagnosisInv, NEW j \in Jobs, NEW e \in Probing, e = dJob[j], e.at \in ProbeSteps, e.dns \notin Diagnosis!DnsReal,
         NEW v \in Diagnosis!Verdicts, NEW step \in {"fetch", "write"}, Diagnosis!Fails(j, v, step),
         step = "fetch" => e.at \in {"plain", "proxied"}, step = "write" => v # "rejected",
         UNCHANGED <<dRow, public, zone, origin, changes, found, dAsked>>
  PROVE  DiagnosisInv'
<1>. DEFINE d == [e EXCEPT !.lost = TRUE, !.verdict = v, !.at = step]
<1>1. /\ d \in Probing /\ d.at \in ProbeSteps \cup {"write"} /\ d.kind = e.kind /\ d.dns = e.dns
      /\ d.at = step /\ d.lost /\ d.verdict = v /\ d.steady = e.steady /\ d.target = e.target
  BY DEF Probing, Diagnosis!Steps, ProbeSteps
<1>2. dJob' = [dJob EXCEPT ![j] = d]
  BY DEF Diagnosis!Fails
<1>. HIDE DEF d
<1>3. Learnt(e, origin)
  BY DEF DiagnosisInv, ProbesLearn
<1>4. Learnt(d, origin)
  BY <1>1, <1>3 DEF Learnt
<1>. QED  BY <1>1, <1>2, <1>4, ProbeTurns

\* What a probe with a step and a verdict of its own knows.
LEMMA LearntMoved ==
  ASSUME NEW e \in Probing, NEW step \in Diagnosis!Steps, NEW v \in Diagnosis!Verdicts
  PROVE  /\ [e EXCEPT !.at = step].at = step /\ [e EXCEPT !.at = step].kind = e.kind
         /\ [e EXCEPT !.at = step].dns = e.dns /\ [e EXCEPT !.at = step].target = e.target
         /\ [e EXCEPT !.at = step].steady = e.steady /\ [e EXCEPT !.at = step].verdict = e.verdict
         /\ [e EXCEPT !.at = step].lost = e.lost
         /\ [e EXCEPT !.verdict = v, !.at = step].at = step /\ [e EXCEPT !.verdict = v, !.at = step].kind = e.kind
         /\ [e EXCEPT !.verdict = v, !.at = step].dns = e.dns /\ [e EXCEPT !.verdict = v, !.at = step].target = e.target
         /\ [e EXCEPT !.verdict = v, !.at = step].steady = e.steady /\ [e EXCEPT !.verdict = v, !.at = step].verdict = v
         /\ [e EXCEPT !.verdict = v, !.at = step].lost = e.lost
BY DEF Probing

\* What the origin answers to the requests of a probe and to a visitor's.
LEMMA Replies ==
  ASSUME NEW o \in Diagnosis!Origin, NEW t \in Diagnosis!Target
  PROVE  LET plain == Diagnosis!Plain(o, t)
             proxied == Diagnosis!Proxied(o, t)
             visitor == Diagnosis!Visitor(o, t)
             direct == Diagnosis!Fetch(o, t)
         IN  /\ plain \in {"none", "good", "bad", "error"} /\ visitor \in {"none", "good", "bad", "error"}
             /\ proxied \in {"none", "good", "bad", "error"} /\ direct \in {"none", "good", "bad", "error"}
             /\ o.port # "open" => proxied = "none"
             /\ proxied = "bad" /\ plain \in {"good", "error"} => visitor \in {"none", "bad"}
             /\ Diagnosis!OneFace(o) /\ direct # "none" => plain = direct /\ visitor = proxied /\ visitor # "none"
<1>. DEFINE u == [t EXCEPT !.skip = FALSE]
<1>1. u.https = t.https /\ u.skip = FALSE
  BY DEF Diagnosis!Target
<1>2. o.plain \in Diagnosis!Status /\ o.proxied \in Diagnosis!Status /\ o.direct \in Diagnosis!Status
  BY DEF Diagnosis!Origin
<1>. HIDE DEF u
<1>3. \A x \in {t, u} : \A n \in {"address", "hostname"} : \A s \in Diagnosis!Status :
        /\ Diagnosis!Reply(o, x, n, s) \in {"none", "good", "bad", "error"}
        /\ o.port # "open" => Diagnosis!Reply(o, x, n, s) = "none"
  BY DEF Diagnosis!Reply, Diagnosis!Status
<1>4. \A s, r \in Diagnosis!Status :
        Diagnosis!Reply(o, t, "hostname", s) = "bad" /\ Diagnosis!Reply(o, t, "hostname", r) \in {"good", "error"}
          => Diagnosis!Reply(o, t, "address", s) \in {"none", "bad"}
  BY DEF Diagnosis!Reply, Diagnosis!Status
<1>5. ASSUME "address" \in o.names => "hostname" \in o.names, NEW s \in Diagnosis!Status, NEW r \in Diagnosis!Status,
             Diagnosis!Reply(o, u, "address", s) # "none"
      PROVE  /\ Diagnosis!Reply(o, t, "hostname", s) = Diagnosis!Reply(o, u, "address", s)
             /\ Diagnosis!Reply(o, t, "address", r) = Diagnosis!Reply(o, t, "hostname", r)
             /\ Diagnosis!Reply(o, t, "address", r) # "none"
  BY <1>1, <1>5 DEF Diagnosis!Reply, Diagnosis!Status
<1>6. Diagnosis!Fetch(o, t) = Diagnosis!Reply(o, u, "address", o.direct)
  BY DEF Diagnosis!Fetch, u
<1>. QED  BY <1>2, <1>3, <1>4, <1>5, <1>6 DEF Diagnosis!Plain, Diagnosis!Proxied, Diagnosis!Visitor, Diagnosis!OneFace

\* The name is not in doubt once the origin is asked.
LEMMA NotInDoubt ==
  ASSUME DiagnosisInv, NEW j \in Jobs, NEW e \in Probing, e = dJob[j], e.at \in ProbeSteps
  PROVE  e.dns \notin Diagnosis!DnsReal
BY DEF DiagnosisInv, ProbesLearn, ProbeFits, ProbeSteps

LEMMA OriginNow == ASSUME DiagnosisInv PROVE origin \in Diagnosis!Origin
BY DiagnosisNumbers DEF DiagnosisInv, DiagnosisTypes

LEMMA SniffKeeps == ASSUME DiagnosisInv, NEW j \in Jobs, Diagnosis!Sniff(j) PROVE DiagnosisInv'
<1>0. PICK e \in Probing : e = dJob[j]
  BY ProbeAt DEF Diagnosis!Sniff
<1>1. e.at = "sniff" /\ e.at \in ProbeSteps /\ UNCHANGED <<dRow, public, zone, origin, changes, found, dAsked>>
  BY <1>0, ProbeAt DEF Diagnosis!Sniff, Diagnosis!world, ProbeSteps
<1>6. e.dns \notin Diagnosis!DnsReal
  BY <1>0, <1>1, NotInDoubt
<1>. DEFINE https == e.target.https
            proxied == Diagnosis!Proxied(origin, e.target)
<1>2. https \in BOOLEAN /\ e.target \in Diagnosis!Target /\ origin.port \in {"refused", "silent", "open"}
      /\ {"plain", "write"} \subseteq Diagnosis!Steps /\ "plain" \in ProbeSteps
      /\ {"refused", "timeout", "tls_on_http", "http_on_tls"} \subseteq Diagnosis!Verdicts
  BY OriginNow DEF Probing, Diagnosis!Target, Diagnosis!Origin, Diagnosis!Steps, Diagnosis!Verdicts, ProbeSteps
<1>3. \/ Diagnosis!Go(j, "plain") /\ Speaks(e.target, origin)
      \/ \E v \in {"refused", "timeout", "tls_on_http", "http_on_tls"} :
           Diagnosis!Judge(j, v) /\ (v \in {"refused", "timeout"} => proxied = "none")
      \/ \E v \in {"refused", "timeout"} : Diagnosis!Fails(j, v, "write")
  <2>1. origin.port # "open" => proxied = "none"
    BY <1>2, OriginNow, Replies
  <2>2. CASE origin.port = "refused"
    BY <1>0, <2>1, <2>2 DEF Diagnosis!Sniff
  <2>3. CASE origin.port = "silent"
    BY <1>0, <2>1, <2>3 DEF Diagnosis!Sniff
  <2>4. CASE origin.port = "open" /\ ~https /\ origin.hello = "handshake"
    BY <1>0, <2>4 DEF Diagnosis!Sniff
  <2>5. CASE origin.port = "open" /\ https /\ origin.hello # "handshake"
    BY <1>0, <2>5 DEF Diagnosis!Sniff
  <2>6. CASE origin.port = "open" /\ (https <=> origin.hello = "handshake")
    BY <1>0, <2>6 DEF Diagnosis!Sniff, Speaks
  <2>. QED  BY <1>2, <2>2, <2>3, <2>4, <2>5, <2>6
<1>4. CASE Diagnosis!Go(j, "plain") /\ Speaks(e.target, origin)
  <2>1. Learnt([e EXCEPT !.at = "plain"], origin)
    BY <1>2, <1>4, LearntMoved DEF Learnt
  <2>. QED  BY <1>0, <1>1, <1>2, <1>4, <1>6, <2>1, ProbeGoes
<1>5. ASSUME NEW v \in {"refused", "timeout", "tls_on_http", "http_on_tls"}, Diagnosis!Judge(j, v),
             v \in {"refused", "timeout"} => proxied = "none"
      PROVE  DiagnosisInv'
  <2>1. Learnt([e EXCEPT !.verdict = v, !.at = "write"], origin)
    BY <1>2, <1>5, LearntMoved DEF Learnt, Rejects
  <2>. QED  BY <1>0, <1>1, <1>2, <1>5, <1>6, <2>1, ProbeJudges
<1>7. ASSUME NEW v \in {"refused", "timeout"}, Diagnosis!Fails(j, v, "write") PROVE DiagnosisInv'
  <2>1. v \in Diagnosis!Verdicts /\ v # "rejected"
    BY <1>2
  <2>. QED  BY <1>0, <1>1, <1>6, <1>7, <2>1, ProbeLoses
<1>. QED  BY <1>3, <1>4, <1>5, <1>7

LEMMA PlainKeeps == ASSUME DiagnosisInv, NEW j \in Jobs, Diagnosis!PlainRequest(j) PROVE DiagnosisInv'
<1>0. PICK e \in Probing : e = dJob[j]
  BY ProbeAt DEF Diagnosis!PlainRequest
<1>1. e.at = "plain" /\ e.at \in ProbeSteps /\ Learnt(e, origin) /\ UNCHANGED <<dRow, public, zone, origin, changes, found, dAsked>>
  BY <1>0, ProbeAt DEF Diagnosis!PlainRequest, Diagnosis!world, ProbeSteps
<1>6. e.dns \notin Diagnosis!DnsReal
  BY <1>0, <1>1, NotInDoubt
<1>2. e.target \in Diagnosis!Target /\ {"fetch", "proxied"} \subseteq Diagnosis!Steps /\ {"fetch", "proxied"} \subseteq ProbeSteps
      /\ e.verdict \in Diagnosis!Verdicts
  BY DEF Probing, Diagnosis!Steps, ProbeSteps
<1>3. Diagnosis!Plain(origin, e.target) \in {"none", "good", "bad", "error"}
  BY <1>2, OriginNow, Replies
<1>4. CASE Diagnosis!Plain(origin, e.target) \in {"none", "bad"} /\ Diagnosis!Go(j, "fetch")
  <2>1. Learnt([e EXCEPT !.at = "fetch"], origin)
    BY <1>1, <1>2, <1>4, LearntMoved DEF Learnt, Rejects
  <2>. QED  BY <1>0, <1>1, <1>2, <1>4, <1>6, <2>1, ProbeGoes
<1>5. CASE Diagnosis!Plain(origin, e.target) \in {"good", "error"} /\ Diagnosis!Go(j, "proxied")
  <2>1. Learnt([e EXCEPT !.at = "proxied"], origin)
    BY <1>1, <1>2, <1>5, LearntMoved DEF Learnt
  <2>. QED  BY <1>0, <1>1, <1>2, <1>5, <1>6, <2>1, ProbeGoes
<1>7. CASE Diagnosis!Fails(j, e.verdict, "fetch")
  BY <1>0, <1>1, <1>2, <1>6, <1>7, ProbeLoses
<1>. QED  BY <1>0, <1>3, <1>4, <1>5, <1>7 DEF Diagnosis!PlainRequest

LEMMA ProxiedKeeps == ASSUME DiagnosisInv, NEW j \in Jobs, Diagnosis!ProxiedRequest(j) PROVE DiagnosisInv'
<1>0. PICK e \in Probing : e = dJob[j]
  BY ProbeAt DEF Diagnosis!ProxiedRequest
<1>1. e.at = "proxied" /\ e.at \in ProbeSteps /\ Learnt(e, origin) /\ UNCHANGED <<dRow, public, zone, origin, changes, found, dAsked>>
  BY <1>0, ProbeAt DEF Diagnosis!ProxiedRequest, Diagnosis!world, ProbeSteps
<1>6. e.dns \notin Diagnosis!DnsReal
  BY <1>0, <1>1, NotInDoubt
<1>2. e.target \in Diagnosis!Target /\ {"fetch", "write"} \subseteq Diagnosis!Steps /\ "fetch" \in ProbeSteps
      /\ "rejected" \in Diagnosis!Verdicts /\ e.verdict \in Diagnosis!Verdicts
  BY DEF Probing, Diagnosis!Steps, Diagnosis!Verdicts, ProbeSteps
<1>3. CASE Diagnosis!Proxied(origin, e.target) = "bad" /\ Diagnosis!Judge(j, "rejected")
  <2>1. Diagnosis!Plain(origin, e.target) \in {"good", "error"} => Diagnosis!Visitor(origin, e.target) \in {"none", "bad"}
    BY <1>2, <1>3, OriginNow, Replies
  <2>2. Learnt([e EXCEPT !.verdict = "rejected", !.at = "write"], origin)
    BY <1>1, <1>2, <1>3, <2>1, LearntMoved DEF Learnt, Rejects
  <2>. QED  BY <1>0, <1>1, <1>2, <1>3, <1>6, <2>2, ProbeJudges
<1>4. CASE Diagnosis!Proxied(origin, e.target) # "bad" /\ Diagnosis!Go(j, "fetch")
  <2>1. Learnt([e EXCEPT !.at = "fetch"], origin)
    BY <1>1, <1>2, <1>4, LearntMoved DEF Learnt, Rejects
  <2>. QED  BY <1>0, <1>1, <1>2, <1>4, <1>6, <2>1, ProbeGoes
<1>5. CASE Diagnosis!Fails(j, e.verdict, "fetch")
  BY <1>0, <1>1, <1>2, <1>5, <1>6, ProbeLoses
<1>. QED  BY <1>0, <1>3, <1>4, <1>5 DEF Diagnosis!ProxiedRequest

LEMMA FetchKeeps == ASSUME DiagnosisInv, NEW j \in Jobs, Diagnosis!FetchRequest(j) PROVE DiagnosisInv'
<1>0. PICK e \in Probing : e = dJob[j]
  BY ProbeAt DEF Diagnosis!FetchRequest
<1>1. e.at = "fetch" /\ e.at \in ProbeSteps /\ Learnt(e, origin) /\ UNCHANGED <<dRow, public, zone, origin, changes, found, dAsked>>
  BY <1>0, ProbeAt DEF Diagnosis!FetchRequest, Diagnosis!world, ProbeSteps
<1>6. e.dns \notin Diagnosis!DnsReal
  BY <1>0, <1>1, NotInDoubt
<1>. DEFINE reply == Diagnosis!Fetch(origin, e.target)
            v == CASE reply = "none" -> "unknown" [] reply = "error" -> "http_error" [] OTHER -> "ok"
<1>2. "write" \in Diagnosis!Steps /\ v \in Diagnosis!Verdicts /\ v \in {"unknown", "http_error", "ok"} /\ e.target \in Diagnosis!Target
      /\ "unknown" \in Diagnosis!Verdicts
  BY DEF Diagnosis!Steps, Diagnosis!Verdicts, Probing
<1>3. Diagnosis!Judge(j, v) \/ Diagnosis!Fails(j, "unknown", "write")
  BY <1>0 DEF Diagnosis!FetchRequest
<1>4. v = "ok" => reply \notin {"none", "error"}
  OBVIOUS
<1>. HIDE DEF v
<1>5. CASE Diagnosis!Judge(j, v)
  <2>. DEFINE plain == Diagnosis!Plain(origin, e.target)
              proxied == Diagnosis!Proxied(origin, e.target)
              visitor == Diagnosis!Visitor(origin, e.target)
  <2>1. /\ plain \in {"none", "good", "bad", "error"} /\ proxied \in {"none", "good", "bad", "error"}
        /\ reply \in {"none", "good", "bad", "error"}
        /\ Diagnosis!OneFace(origin) /\ reply # "none" => plain = reply /\ visitor = proxied /\ visitor # "none"
    BY <1>2, OriginNow, Replies
  <2>2. v = "ok" /\ Diagnosis!OneFace(origin) /\ ~Rejects(origin, e.target) => Served(origin, e.target)
    BY <1>4, <2>1 DEF Rejects, Served
  <2>3. Learnt([e EXCEPT !.verdict = v, !.at = "write"], origin)
    BY <1>1, <1>2, <2>2, LearntMoved DEF Learnt
  <2>. QED  BY <1>0, <1>1, <1>2, <1>5, <1>6, <2>3, ProbeJudges
<1>7. CASE Diagnosis!Fails(j, "unknown", "write")
  BY <1>0, <1>1, <1>2, <1>6, <1>7, ProbeLoses
<1>. QED  BY <1>3, <1>5, <1>7

LEMMA WriteKeepsRow == ASSUME DiagnosisInv, NEW j \in Jobs, Diagnosis!Write(j) PROVE DiagnosisInv'
<1>0. PICK e \in Probing : e = dJob[j]
  BY ProbeAt DEF Diagnosis!Write
<1>1. e.at = "write"
  BY <1>0, ProbeAt DEF Diagnosis!Write
<1>. DEFINE r == IF e.dns \in Diagnosis!DnsReal THEN e.dns ELSE e.verdict
            error == IF r = "ok" THEN "none" ELSE r
<1>2. error \in Diagnosis!Errors /\ "none" \in Diagnosis!Errors /\ "none" \in Diagnosis!Warnings /\ Parked(e) \in Diagnosis!Warnings
      /\ (error = "none" <=> r = "ok")
  BY DEF Diagnosis!Errors, Diagnosis!Warnings, Parked, Probing, Diagnosis!Verdicts, Diagnosis!DnsReal
<1>3. r \in Diagnosis!DnsReal \/ e.dns \notin Diagnosis!DnsReal
  OBVIOUS
<1>4. CASE e.kind # "deploy"
  <2>1. dRow' = dRow /\ Diagnosis!Ends(j, "none", "none")
    BY <1>0, <1>4 DEF Diagnosis!Write
  <2>. QED  BY <1>0, <1>2, <1>4, <2>1, SameRow, ProbeEnds
<1>5. CASE e.kind = "deploy"
  <2>1. Diagnosis!Updated(IF r = "ok" THEN dRow ELSE [dRow EXCEPT !.error = r]) /\ Diagnosis!Ends(j, error, Parked(e))
    BY <1>0, <1>5 DEF Diagnosis!Write, Parked
  <2>2. /\ dRow' \in DiagnosedRow
        /\ dRow'.there = dRow.there /\ dRow'.warning = dRow.warning
        /\ dRow.there => dRow'.error = IF r = "ok" THEN dRow.error ELSE error
    <3>1. CASE r = "ok"
      BY <2>1, <3>1, SameRow DEF Diagnosis!Updated
    <3>2. CASE r # "ok"
      <4>1. error = r /\ Diagnosis!Updated([dRow EXCEPT !.error = error])
        BY <2>1, <3>2
      <4>. HIDE DEF error, r
      <4>2. /\ dRow' \in DiagnosedRow
            /\ dRow'.there = dRow.there /\ (dRow.there => dRow'.error = error)
        BY <1>2, <4>1, RowUpdates
      <4>3. dRow'.warning = dRow.warning
        BY <1>2, <4>1 DEF Diagnosis!Updated, DiagnosisInv, DiagnosisTypes, DiagnosedRow
      <4>. QED  BY <3>2, <4>2, <4>3
    <3>. QED  BY <3>1, <3>2
  <2>3. error \notin Diagnosis!Cut <=> e.dns \notin Diagnosis!DnsReal
    BY DEF Diagnosis!DnsReal, Diagnosis!Cut, Probing, Diagnosis!Verdicts
  <2>4. Warned(e) <=> e.dns \notin Diagnosis!DnsReal
    BY <1>1 DEF Warned
  <2>5. dRow.there => dRow'.error = error \/ (error = "none" /\ e.at # "deploy" /\ dRow'.error = dRow.error)
    BY <1>1, <1>2, <2>2
  <2>. HIDE DEF error, r
  <2>. QED  BY <1>0, <1>2, <1>5, <2>1, <2>2, <2>3, <2>4, <2>5, ProbeEnds
<1>. QED  BY <1>4, <1>5

LEMMA DeletedRowKeeps ==
  ASSUME DiagnosisInv, Diagnosis!Delete, UNCHANGED changes PROVE DiagnosisInv'
<1>1. /\ dRow' \in DiagnosedRow
      /\ ~dRow'.there /\ UNCHANGED <<public, zone, origin, changes, dJob, found, dAsked>>
  BY DEF Diagnosis!Delete, Diagnosis!world, DiagnosisInv, DiagnosisTypes, DiagnosedRow
<1>. QED  BY <1>1 DEF DiagnosisInv, DiagnosisTypes, ProbesLearn, RowFollows, ErrorFollows, WarningFollows, Diagnosis!Deploys

LEMMA ZoneChanges ==
  ASSUME DiagnosisInv, Diagnosis!Propagates \/ Diagnosis!RecordChanges PROVE DiagnosisInv'
<1>1. /\ UNCHANGED <<dRow, origin, dJob, found, dAsked>> /\ changes' \in 0..MaxChanges
      /\ public' \in {"nxdomain", "empty", "edge", "cname"} /\ zone' \in {"none", "ours", "other"}
  <2>1. CASE Diagnosis!Propagates
    BY <2>1 DEF Diagnosis!Propagates, DiagnosisInv, DiagnosisTypes
  <2>2. CASE Diagnosis!RecordChanges
    BY <2>2, DiagnosisNumbers DEF Diagnosis!RecordChanges, Diagnosis!Changed, DiagnosisInv, DiagnosisTypes
  <2>. QED  BY <2>1, <2>2
<1>. QED  BY <1>1 DEF DiagnosisInv, DiagnosisTypes, ProbesLearn, RowFollows, ErrorFollows, WarningFollows, Diagnosis!Deploys

\* No diagnosis that was under way knows anything of another origin.
LEMMA OriginMoves ==
  ASSUME DiagnosisInv, Diagnosis!OriginChanges PROVE DiagnosisInv'
<1>. DEFINE Unsteady(e) == [e EXCEPT !.steady = FALSE]
<1>1. /\ UNCHANGED <<dRow, public, zone, found, dAsked>> /\ changes' \in 0..MaxChanges /\ origin' \in Origins
      /\ dJob' = [j \in Jobs |-> IF dJob[j] = Diagnosis!Idle THEN Diagnosis!Idle ELSE Unsteady(dJob[j])]
  BY DiagnosisNumbers DEF Diagnosis!OriginChanges, Diagnosis!Changed, DiagnosisInv, DiagnosisTypes
<1>2. ASSUME NEW e \in Probing
      PROVE  /\ Unsteady(e) \in Probing /\ ~Unsteady(e).steady /\ Unsteady(e).at = e.at /\ Unsteady(e).kind = e.kind
             /\ Unsteady(e).dns = e.dns
  BY DEF Probing
<1>. HIDE DEF Unsteady
<1>3. \A j \in Jobs : \/ dJob[j] \in Probing /\ dJob'[j] = Unsteady(dJob[j])
                      \/ dJob[j] = Diagnosis!Idle /\ dJob'[j] = Diagnosis!Idle
  BY <1>1, DiagnosisEmpty DEF DiagnosisInv, DiagnosisTypes
<1>4. dJob' \in [Jobs -> {Diagnosis!Idle} \cup Probing]
  BY <1>1, <1>2, <1>3
<1>5. ProbesLearn'
  <2>1. ASSUME NEW j \in Jobs, dJob'[j] \in Probing PROVE ProbeFits(dJob'[j]) /\ Learnt(dJob'[j], origin')
    <3>1. PICK e \in Probing : e = dJob[j] /\ dJob'[j] = Unsteady(e)
      BY <1>3, <2>1, DiagnosisEmpty
    <3>2. ProbeFits(e)
      BY <3>1 DEF DiagnosisInv, ProbesLearn
    <3>. QED  BY <1>2, <3>1, <3>2 DEF ProbeFits, Learnt
  <2>. QED  BY <2>1 DEF ProbesLearn
<1>6. \A j \in Jobs : (dJob'[j] # Diagnosis!Idle /\ dJob'[j].kind = "deploy") <=> (dJob[j] # Diagnosis!Idle /\ dJob[j].kind = "deploy")
  BY <1>2, <1>3, DiagnosisEmpty
<1>7. Diagnosis!Deploys' = Diagnosis!Deploys
  BY <1>6 DEF Diagnosis!Deploys
<1>8. \A j \in Diagnosis!Deploys : /\ Warned(dJob'[j]) <=> Warned(dJob[j])
                                   /\ Parked(dJob'[j]) = Parked(dJob[j])
                                   /\ dJob'[j].at = dJob[j].at
  <2>. SUFFICES ASSUME NEW j \in Jobs, dJob[j] # Diagnosis!Idle
                PROVE  /\ Warned(dJob'[j]) <=> Warned(dJob[j])
                       /\ Parked(dJob'[j]) = Parked(dJob[j]) /\ dJob'[j].at = dJob[j].at
    BY DEF Diagnosis!Deploys
  <2>1. PICK e \in Probing : e = dJob[j] /\ dJob'[j] = Unsteady(e)
    BY <1>3
  <2>. QED  BY <1>1, <1>2, <2>1 DEF Warned, Parked
<1>9. RowFollows'
  BY <1>1, <1>7, <1>8 DEF DiagnosisInv, RowFollows, ErrorFollows, WarningFollows
<1>. QED  BY <1>1, <1>4, <1>5, <1>9 DEF DiagnosisInv, DiagnosisTypes

LEMMA DiagnosisNext == DiagnosisInv /\ [Diagnosis!Next]_diagnosisVars => DiagnosisInv'
<1>. SUFFICES ASSUME DiagnosisInv, [Diagnosis!Next]_diagnosisVars PROVE DiagnosisInv'
  OBVIOUS
<1>1. CASE UNCHANGED diagnosisVars
  BY <1>1 DEF diagnosisVars, DiagnosisInv, DiagnosisTypes, ProbesLearn, RowFollows, ErrorFollows, WarningFollows,
              Diagnosis!Deploys
<1>2. ASSUME NEW j \in Jobs, Diagnosis!Step(j) PROVE DiagnosisInv'
  BY <1>2, DeployedKeepsRow, DeployFailsKeeps, QueryKeeps, RecordsKeep, WarningKeeps, SniffKeeps, PlainKeeps,
     ProxiedKeeps,
     FetchKeeps, WriteKeepsRow DEF Diagnosis!Step
<1>. QED  BY <1>1, <1>2, AsksKeep, DeletedRowKeeps, ZoneChanges, OriginMoves DEF Diagnosis!Next

(***************************************************************************)
(* The five modules together                                               *)
(***************************************************************************)
hostVars == <<vars, diagnosisVars, gatewayVars, importVars, editVars, scene>>

LEMMA HostSteps ==
  [MCNext]_hostVars =>
    /\ [Next]_vars /\ [Diagnosis!Next]_diagnosisVars /\ [Gateway!Next]_gatewayVars
    /\ [Import!Next]_importVars /\ [Edit!EditNext]_editVars
BY DEF MCNext, hostVars

HostsInv == EdgeInv /\ GatewayInv /\ DiagnosisInv /\ ImportInv /\ EditInv

LEMMA InitHosts == MCInit => HostsInv
BY EdgeInit, GatewayInit, DiagnosisInit, ImportInit, EditInit DEF MCInit, HostsInv

LEMMA NextHosts == HostsInv /\ [MCNext]_hostVars => HostsInv'
BY HostSteps, EdgeNext, GatewayNext, DiagnosisNext, ImportNext, EditNext DEF HostsInv

LEMMA HostsAlways == MCSpec => []HostsInv
BY InitHosts, NextHosts, PTL DEF MCSpec, hostVars

\* A cookie that opens the host says what the row says.
LEMMA GatewaySound == GatewayInv => Gateway!TypeOK /\ Gateway!CookieProvesCurrent /\ Gateway!ShownAsRouted
<1>. SUFFICES ASSUME GatewayInv PROVE Gateway!CookieProvesCurrent /\ Gateway!ShownAsRouted
  BY DEF GatewayInv
<1>1. ASSUME cookie.ep = gRow.ep PROVE cookie.pw = gRow.pw /\ cookie.totp = gRow.totp
  <2>1. Said(cookie) \in SaidOf /\ Said(gRow) \in SaidOf /\ Said(cookie).ep = Said(gRow).ep
    BY <1>1 DEF SaidOf, Said
  <2>2. Said(cookie) = Said(gRow)
    BY <2>1 DEF GatewayInv, StampsTell
  <2>3. Said(cookie).pw = cookie.pw /\ Said(cookie).totp = cookie.totp /\ Said(gRow).pw = gRow.pw /\ Said(gRow).totp = gRow.totp
    BY DEF Said
  <2>. QED  BY <2>2, <2>3
<1>2. (\A a \in Admins : change[a] = Gateway!Idle) => \A a \in Admins : ~Deploying(a)
  BY GatewayEmpty DEF Deploying
<1>. QED  BY <1>1, <1>2 DEF GatewayInv, RoutedSoFar, Reached, Gateway!CookieProvesCurrent, Gateway!VerifyHostSession,
                            Gateway!ShownAsRouted

(* What nginx serves is what was asked, a bad edit harms its own host      *)
(* only, and a hostname is ordered for once in ten minutes                 *)
(* (nginx-config.ts writeHostConfig; acme.ts acquireCert).                 *)
THEOREM EdgeIsSound == MCSpec => []EdgeSound
<1>1. HostsInv => EdgeSound
  BY EdgeMeans DEF HostsInv, EdgeSound
<1>. QED  BY HostsAlways, <1>1, PTL

GatewayStep ==
  \A v \in Visitors : Gateway!IssueHostSession(v) /\ login[v].auth.totp /\ ~ undone
                     /\ login[v].auth.ep = gRow.ep
       => <<cookie.ep, cookie.step>> # <<login[v].auth.ep, login[v].step>>

(* A cookie opens the host only with the password and the TOTP setting     *)
(* that are in force, the edge asks for them as the row says once nobody   *)
(* is changing it, and a TOTP step is good for one session                 *)
(* (host-auth.ts saveHostAuth, rollback; host-gateway.ts checkHostLogin).  *)
THEOREM GatewayAlwaysHolds == MCSpec => GatewayHolds
<1>1. HostsInv => (scene \in Gateway_scenes => Gateway!TypeOK /\ Gateway!CookieProvesCurrent /\ Gateway!ShownAsRouted)
  BY GatewaySound DEF HostsInv
<1>2. HostsInv /\ [MCNext]_hostVars => [GatewayStep]_gatewayVars
  BY GatewayStepOnce DEF HostsInv, GatewayStep
<1>3. MCSpec => [][GatewayStep]_gatewayVars
  BY HostsAlways, <1>2, PTL DEF MCSpec, hostVars
<1>4. MCSpec => [](scene \in Gateway_scenes => Gateway!TypeOK /\ Gateway!CookieProvesCurrent /\ Gateway!ShownAsRouted)
  BY HostsAlways, <1>1, PTL
<1>. QED  BY <1>3, <1>4 DEF GatewayHolds, Gateway!HostStepOnce, Gateway!vars, gatewayVars, GatewayStep

(* A diagnosis that finds nothing wrong is right about the visitors, and   *)
(* the row shows what the last deploy found (upstream-probe.ts             *)
(* probeUpstream; host-deploy.ts verifyDnsAndProbe).                       *)
THEOREM DiagnosisIsTrue == MCSpec => []DiagnosisTrue
<1>1. HostsInv => DiagnosisTrue
  BY DiagnosisMeans DEF HostsInv, DiagnosisTrue
<1>. QED  BY HostsAlways, <1>1, PTL

(* No two hosts of one name, none from the form or a file at a tunnel that *)
(* cannot carry it, and an answer that counts what was inserted            *)
(* (host-placement.ts; routes/hosts-bulk.ts).                              *)
THEOREM ImportIsSound == MCSpec => []ImportSound
<1>1. HostsInv => ImportSound
  BY ImportMeans DEF HostsInv, ImportSound
<1>. QED  BY HostsAlways, <1>1, PTL

(* A host moves only to a tunnel that was picked in the form that moves    *)
(* it, and a switch that nobody disturbs stays where the click put it      *)
(* (EditHostModal.tsx onSubmit; api/hosts.ts useToggleHost).               *)
THEOREM EditIsSound == MCSpec => EditSound
<1>1. HostsInv => (scene = "edit" => Edit!EditTypeOK /\ Edit!ClickStands)
  BY EditMeans DEF HostsInv
<1>2. HostsInv /\ [MCNext]_hostVars => [EditStep]_editVars
  BY HostSteps, EditStepMoves DEF HostsInv
<1>3. MCSpec => [][EditStep]_editVars
  BY HostsAlways, <1>2, PTL DEF MCSpec, hostVars
<1>4. MCSpec => [](scene = "edit" => Edit!EditTypeOK /\ Edit!ClickStands)
  BY HostsAlways, <1>1, PTL
<1>. QED  BY <1>3, <1>4 DEF EditSound, Edit!EditKeepsTunnel, Edit!edit_vars, editVars, EditStep
==============================================================================
