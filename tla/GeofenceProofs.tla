--------------------------- MODULE GeofenceProofs ---------------------------
(***************************************************************************)
(* Geofences at the adapter and at the modem, for any clients, fences and  *)
(* bounds, when the modem restarts with no request under way.              *)
(***************************************************************************)
EXTENDS Geofence, FiniteSetTheorems, WellFoundedInduction, TLAPS
------------------------------------------------------------------------------
(* The invariant.  What the engine did and the adapter has yet to learn is  *)
(* in the answers on their way: with the last of them the adapter agrees on *)
(* what each fence is (Agrees), and on which are watched (Removed, Kept).   *)
(* A fence is at one place at a time (OnePlace), a number of the engine     *)
(* stands for one fence (HwIds), the two maps are inverse for the clients   *)
(* there are (Inverses), and what is to be removed is not about to be saved *)
(* (Leaving).  Until the adapter learns of a restart nothing is watched     *)
(* (Restart).                                                               *)

Op == {"add", "remove", "modify", "pause", "resume"}
EngineOp == Op \cup {"restore", "drop", "repause"}
Options == Mask \cup {None}

Request == [stage : {"command", "item"}, op : Op, client : Client, id : Session, mask : Options]
Queued == [stage : {"queued"}, op : Op, client : Client, id : Session, mask : Options]
Removal == [stage : {"removeClient"}, client : Client]
Restarted == [stage : {"ssr"}]
Reported == [stage : {"breach"}, hw : Nat, id : Session, mask : Options]
Asked == [stage : {"engine"}, op : EngineOp, client : Client, id : Session, hw : Nat,
          mask : Options, paused : BOOLEAN]
Answer == [stage : {"answer"}, op : EngineOp, client : Client, id : Session, hw : Nat,
           mask : Options, paused : BOOLEAN, ok : BOOLEAN]
TaskMessage == Request \cup Removal \cup Restarted \cup Reported \cup Answer
ApiRequest == Queued \cup Asked \cup Restarted

Item == [client : Client, id : Session, mask : Options, paused : BOOLEAN]
Watch == [id : Session, mask : Options, paused : BOOLEAN]

TypesHold ==
  /\ task \in Seq(TaskMessage) /\ apiTask \in Seq(ApiRequest)
  /\ mGeofences \in [DOMAIN mGeofences -> Item]
  /\ DOMAIN mGeofences \subseteq Nat /\ IsFiniteSet(DOMAIN mGeofences)
  /\ mGeofenceIds \in [DOMAIN mGeofenceIds -> Nat] /\ DOMAIN mGeofenceIds \subseteq Client \X Session
  /\ engine \in [DOMAIN engine -> Watch] /\ DOMAIN engine \subseteq Nat
  /\ lastHwId \in Nat /\ restarts \in Nat /\ mSessionIdCounter \in 0..MaxSession
  /\ mClientData \subseteq Client
  /\ mForwardMap = [c \in Client |-> mForwardMap[c]]

inTask == ToSet(task)
inApi == ToSet(apiTask)

\* What messages are about.
carries(m) == m.stage \in {"command", "item", "queued", "engine", "answer"} /\ m.op \in {"add", "restore"}
toEngineOp(m, O) == m.stage = "engine" /\ m.op \in O
Ok(m, hw) == m.stage = "answer" /\ m.ok /\ m.hw = hw
Gives(m, hw) == Ok(m, hw) /\ m.op \in {"add", "restore"}
Takes(m, hw) == Ok(m, hw) /\ m.op \in {"remove", "drop"}

\* Until the adapter learns of a restart.
isSsr(m) == m.stage = "ssr"
Restarting == \E m \in inTask \cup inApi : isSsr(m)
Fresh ==
  /\ lastHwId = 0 /\ DOMAIN engine = {}
  /\ \A m \in inTask : m.stage # "breach" /\ (m.stage = "answer" => ~m.ok)
  /\ \A m \in inApi : ~toEngineOp(m, {"add", "restore"})
Restart ==
  /\ Restarting => Fresh /\ restarts # 0
  /\ \A i \in DOMAIN apiTask : isSsr(apiTask[i]) =>
       i = 1 /\ \A m \in inTask : ~isSsr(m) /\ m.stage # "item"
  /\ \A i, j \in DOMAIN task : isSsr(task[i]) =>
       (isSsr(task[j]) => i = j) /\ (task[j].stage = "item" => i < j)

\* One place for each fence.
Distinct(q, r, I) ==
  /\ \A i, j \in DOMAIN q : carries(q[i]) /\ carries(q[j]) /\ q[i].id = q[j].id => i = j
  /\ \A i, j \in DOMAIN r : carries(r[i]) /\ carries(r[j]) /\ r[i].id = r[j].id => i = j
  /\ \A i \in DOMAIN q, j \in DOMAIN r : carries(q[i]) /\ carries(r[j]) => q[i].id # r[j].id
  /\ \A i \in DOMAIN q : carries(q[i]) => q[i].id \notin I
  /\ \A i \in DOMAIN r : carries(r[i]) => r[i].id \notin I
savedIds == {mGeofences[hw].id : hw \in DOMAIN mGeofences}
OnePlace ==
  /\ Distinct(task, apiTask, savedIds)
  /\ \A hw, x \in DOMAIN mGeofences : mGeofences[hw].id = mGeofences[x].id => hw = x
HasId(m) == m.stage \in {"command", "item", "queued", "engine", "answer"}
Numbered ==
  /\ \A m \in inTask \cup inApi : HasId(m) => m.id <= mSessionIdCounter
  /\ \A hw \in DOMAIN mGeofences : mGeofences[hw].id <= mSessionIdCounter

HwIds ==
  /\ \A hw \in DOMAIN engine : 1 <= hw /\ hw <= lastHwId
  /\ Restarting \/ \A hw \in DOMAIN mGeofences : hw <= lastHwId
  /\ \A m \in inTask : /\ m.stage = "answer" /\ m.ok => m.hw <= lastHwId
                       /\ m.stage = "breach" => m.hw <= lastHwId
  /\ \A m, n \in inTask : \A hw : Gives(m, hw) =>
       hw \in DOMAIN engine /\ hw \notin DOMAIN mGeofences /\ (Gives(n, hw) => m = n)

Inverses ==
  /\ \A hw \in DOMAIN mGeofences : mGeofences[hw].client \in mClientData =>
       keyOf(hw) \in DOMAIN mGeofenceIds /\ mGeofenceIds[keyOf(hw)] = hw
  /\ \A k \in DOMAIN mGeofenceIds :
       mGeofenceIds[k] \in DOMAIN mGeofences /\ keyOf(mGeofenceIds[k]) = k

\* What the answers on their way say last of a fence, or else the adapter.
setters(field) ==
  {"add", "restore"} \cup (IF field = "mask" THEN {"modify"}
                          ELSE IF field = "paused" THEN {"pause", "resume", "repause"} ELSE {})
value(m, field) == IF field = "id" THEN m.id ELSE IF field = "mask" THEN m.mask ELSE m.op = "pause"
Sets(m, hw, field) == Ok(m, hw) /\ m.op \in setters(field)
Latest(q, hw, field, v) ==
  \E i \in DOMAIN q : /\ Sets(q[i], hw, field) /\ value(q[i], field) = v
                      /\ \A j \in DOMAIN q : i < j => ~Sets(q[j], hw, field)
Unset(q, hw, field) == \A i \in DOMAIN q : ~Sets(q[i], hw, field)
Tells(q, hw, field, v, known, w) ==
  Latest(q, hw, field, v) \/ (Unset(q, hw, field) /\ known /\ w = v)
Agrees == \A hw \in DOMAIN engine :
  LET known == hw \in DOMAIN mGeofences
      tells(field, v, w) == Tells(task, hw, field, v, known, w)
  IN /\ tells("id", engine[hw].id, mGeofences[hw].id)
     /\ tells("mask", engine[hw].mask, mGeofences[hw].mask)
     /\ restarts = 0 => tells("paused", engine[hw].paused, mGeofences[hw].paused)
\* Nothing is restored, nor paused again, before the modem restarted.
NotRestored == restarts = 0 =>
  \A m \in inTask \cup inApi : m.stage \in {"engine", "answer"} => m.op \notin {"restore", "repause"}

Removed == \A m \in inTask : \A hw : Takes(m, hw) => hw \notin DOMAIN engine
Kept == Restarting \/ \A hw \in DOMAIN mGeofences : mGeofences[hw].client \in mClientData =>
          hw \in DOMAIN engine \/ \E m \in inTask : Takes(m, hw)

\* What is removed was saved; what is dropped is in the map of ids no more.  What
\* was dropped before the adapter learned of a restart comes to an engine without fences.
Unsaved(m) ==
  /\ m.hw <= lastHwId /\ \A n \in inTask : ~Gives(n, m.hw)
  /\ m.op = "drop" => \A k \in DOMAIN mGeofenceIds : mGeofenceIds[k] # m.hw
Stale(q, i) == \A j \in DOMAIN q : j < i => ~toEngineOp(q[j], {"add", "restore"})
Leaving ==
  /\ \A i \in DOMAIN apiTask : toEngineOp(apiTask[i], {"remove", "drop"}) =>
       Unsaved(apiTask[i]) \/ (lastHwId = 0 /\ Stale(apiTask, i))
  /\ \A m \in inTask : m.stage = "answer" /\ m.op = "drop" /\ m.ok => Unsaved(m)

\* A breach names the fence the adapter knows, or will know, by its number.
Breaches == \A m \in inTask : m.stage = "breach" =>
  /\ m.hw \in DOMAIN mGeofences => mGeofences[m.hw].id = m.id
  /\ \A n \in inTask : Gives(n, m.hw) => n.id = m.id

\* A session is one client's, which finds it by its fence if it is careful.
OwnedBy(own) ==
  /\ \A m \in inTask \cup inApi : HasId(m) => m.client = own[m.id]
  /\ \A hw \in DOMAIN mGeofences : mGeofences[hw].client = own[mGeofences[hw].id]
  /\ \A c \in Client : \A f \in DOMAIN mForwardMap[c] :
       /\ mForwardMap[c][f] \in 1..mSessionIdCounter /\ own[mForwardMap[c][f]] = c
       /\ mForwardMap[c][f] \in DOMAIN mBackwardMap /\ mBackwardMap[mForwardMap[c][f]] = f
  /\ \A s \in DOMAIN mBackwardMap :
       /\ s \in 1..mSessionIdCounter
       /\ own[s] \in Careful => /\ mBackwardMap[s] \in DOMAIN mForwardMap[own[s]]
                               /\ mForwardMap[own[s]][mBackwardMap[s]] = s
Owners == \E own \in [Session -> Client \cup {None}] : OwnedBy(own)

GeoInv ==
  /\ TypesHold /\ Restart /\ OnePlace /\ Numbered /\ HwIds /\ Inverses /\ Agrees
  /\ NotRestored /\ Removed /\ Kept /\ Leaving /\ Breaches /\ Owners
------------------------------------------------------------------------------
(* Numbers in their order.                                                 *)

\* A set of numbers that is not empty has a least one.
LEMMA Least ==
  ASSUME NEW Z \in SUBSET Nat, Z # {}
  PROVE  \E m \in Z : \A n \in Z : m <= n
<1>. DEFINE W == OpToRel(<, Nat)
<1>1. \A x, y \in Nat : <<y, x>> \in W <=> y < x
  BY DEF OpToRel
<1>. HIDE DEF W
<1>2. IsWellFoundedOn(W, Nat)
  BY Zenon, NatLessThanWellFounded DEF W
<1>3. PICK x \in Z : \A y \in Z : ~(<<y, x>> \in W)
  BY Zenon, <1>2, WFMin
<1>4. \A y \in Z : x \in Nat /\ y \in Nat /\ ~(y < x)
  BY Zenon, <1>1, <1>3
<1>. QED
  BY <1>4

\* A finite set of numbers that is not empty has a greatest one: one of the
\* smallest sets without would have one without any of its members.
LEMMA Greatest ==
  ASSUME NEW S \in SUBSET Nat, IsFiniteSet(S), S # {}
  PROVE  \E m \in S : \A n \in S : n <= m
<1>. DEFINE Has(Q) == \E m \in Q : \A n \in Q : n <= m
            Bad == {k \in Nat : \E Q \in SUBSET Nat : /\ IsFiniteSet(Q) /\ Q # {}
                                                      /\ Cardinality(Q) = k /\ ~Has(Q)}
<1>1. SUFFICES ASSUME ~Has(S)  PROVE FALSE
  OBVIOUS
<1>2. Cardinality(S) \in Bad
  BY <1>1, FS_CardinalityType
<1>3. PICK k \in Bad : \A n \in Bad : k <= n
  <2>1. Bad \in SUBSET Nat /\ Bad # {}
    BY <1>2
  <2>. HIDE DEF Bad
  <2>. QED
    BY <2>1, Least
<1>4. PICK Q \in SUBSET Nat : IsFiniteSet(Q) /\ Q # {} /\ Cardinality(Q) = k /\ ~Has(Q)
  BY <1>3
<1>5. PICK x \in Q : TRUE
  BY <1>4
<1>. DEFINE P == Q \ {x}
<1>6. IsFiniteSet(P) /\ Cardinality(P) = k - 1 /\ k \in Nat /\ Cardinality(P) \in Nat
  BY <1>4, <1>5, FS_RemoveElement, FS_CardinalityType
<1>7. P # {}
  <2>1. ASSUME P = {}  PROVE Has(Q)
    BY <1>5, <2>1
  <2>. QED
    BY <1>4, <2>1
<1>8. Has(P)
  <2>1. k - 1 \notin Bad
    BY <1>3, <1>6
  <2>. QED
    BY <1>6, <1>7, <2>1
<1>9. Has(Q)
  <2>1. PICK m \in P : \A n \in P : n <= m
    BY <1>8
  <2>2. CASE x <= m
    BY <2>1, <2>2
  <2>3. CASE ~(x <= m)
    <3>1. \A n \in Q : n <= x
      BY <2>1, <2>3
    <3>. QED
      BY <1>5, <3>1
  <2>. QED
    BY <2>2, <2>3
<1>. QED
  BY <1>4, <1>9

\* What is in order: each number of the set once.
LEMMA InOrder ==
  ASSUME NEW S \in SUBSET Nat, IsFiniteSet(S)
  PROVE  /\ Cardinality(S) \in Nat
         /\ inOrder(S) \in [1..Cardinality(S) -> S]
         /\ \A i, j \in 1..Cardinality(S) : inOrder(S)[i] = inOrder(S)[j] => i = j
<1>. DEFINE Ordered(Q) == \E q \in [1..Cardinality(Q) -> Q] :
                            \A i, j \in DOMAIN q : i < j => q[i] < q[j]
            Bad == {k \in Nat : \E Q \in SUBSET Nat : /\ IsFiniteSet(Q) /\ Cardinality(Q) = k
                                                      /\ ~Ordered(Q)}
<1>1. Ordered(S)
  <2>1. SUFFICES ASSUME ~Ordered(S)  PROVE FALSE
    OBVIOUS
  <2>2. Cardinality(S) \in Bad
    <3>. HIDE DEF Ordered
    <3>. QED
      BY <2>1, FS_CardinalityType
  <2>3. PICK k \in Bad : \A n \in Bad : k <= n
    <3>1. Bad \in SUBSET Nat /\ Bad # {}
      BY <2>2
    <3>. HIDE DEF Bad
    <3>. QED
      BY <3>1, Least
  <2>4. PICK Q \in SUBSET Nat : IsFiniteSet(Q) /\ Cardinality(Q) = k /\ ~Ordered(Q)
    <3>. HIDE DEF Ordered
    <3>. QED
      BY <2>3
  <2>5. Q # {}
    <3>1. ASSUME Q = {}  PROVE Ordered(Q)
      <4>1. Cardinality(Q) = 0
        BY <3>1, FS_EmptySet
      <4>3. 1..Cardinality(Q) = {} /\ [i \in {} |-> 0] \in [{} -> Q]
        BY <4>1
      <4>2. \E q \in [1..Cardinality(Q) -> Q] : DOMAIN q = {}
        BY Zenon, <4>3
      <4>. QED
        BY <4>2
    <3>. QED
      BY <2>4, <3>1
  <2>6. PICK x \in Q : \A n \in Q : n <= x
    BY <2>4, <2>5, Greatest
  <2>. DEFINE P == Q \ {x}
  <2>7. IsFiniteSet(P) /\ Cardinality(P) = k - 1 /\ k \in Nat /\ k - 1 \in Nat
    <3>1. IsFiniteSet(P) /\ Cardinality(P) = Cardinality(Q) - 1
      <4>1. IsFiniteSet(Q) /\ x \in Q
        BY <2>4, <2>6
      <4>. QED
        BY ONLY <4>1, FS_RemoveElement
    <3>2. Cardinality(P) \in Nat
      <4>. HIDE DEF P
      <4>. QED
        BY ONLY <3>1, FS_CardinalityType
    <3>. QED
      BY <2>4, <3>1, <3>2
  <2>8. Ordered(P)
    <3>1. k - 1 \notin Bad
      BY <2>3, <2>7
    <3>. HIDE DEF Ordered
    <3>. QED
      BY <2>7, <3>1
  <2>9. PICK p \in [1..(k - 1) -> P] : \A i, j \in DOMAIN p : i < j => p[i] < p[j]
    BY <2>7, <2>8
  <2>. DEFINE q == [i \in 1..k |-> IF i = k THEN x ELSE p[i]]
  <2>10. q \in [1..k -> Q]
    <3>1. \A i \in 1..k : i = k \/ i \in 1..(k - 1)
      BY <2>7
    <3>. QED
      BY <2>6, <2>9, <3>1
  <2>11. \A i, j \in DOMAIN q : i < j => q[i] < q[j]
    <3>1. ASSUME NEW i \in 1..k, NEW j \in 1..k, i < j  PROVE q[i] < q[j]
      <4>4. i \in 1..(k - 1) /\ i # k
        BY <2>7, <3>1
      <4>1. i \in 1..(k - 1) /\ p[i] \in P /\ q[i] = p[i] /\ p[i] \in Nat /\ x \in Nat
        BY <2>4, <2>6, <2>9, <4>4
      <4>2. CASE j = k
        BY <2>6, <4>1, <4>2
      <4>3. CASE j # k
        <5>1. j \in 1..(k - 1) /\ q[j] = p[j]
          BY <2>7, <4>3
        <5>. QED
          BY <2>9, <3>1, <4>1, <5>1
      <4>. QED
        BY <4>2, <4>3
    <3>. QED
      BY <3>1
  <2>12. Ordered(Q)
    <3>. HIDE DEF q
    <3>. QED
      BY <2>4, <2>10, <2>11
  <2>. QED
    BY <2>4, <2>12
<1>2. /\ inOrder(S) \in [1..Cardinality(S) -> S]
      /\ \A i, j \in DOMAIN inOrder(S) : i < j => inOrder(S)[i] < inOrder(S)[j]
  BY <1>1 DEF inOrder
<1>3. Cardinality(S) \in Nat
  BY FS_CardinalityType
<1>4. ASSUME NEW i \in 1..Cardinality(S), NEW j \in 1..Cardinality(S),
             inOrder(S)[i] = inOrder(S)[j]
      PROVE  i = j
  <2>1. inOrder(S)[i] \in Nat /\ inOrder(S)[j] \in Nat
    BY <1>2
  <2>. QED
    BY <1>2, <1>3, <1>4, <2>1
<1>. QED
  BY <1>2, <1>3, <1>4
------------------------------------------------------------------------------
(* Queues.                                                                 *)

LEMMA Pushed ==
  ASSUME NEW T, NEW q \in Seq(T), NEW x \in T
  PROVE  LET p == Append(q, x)
         IN /\ p \in Seq(T) /\ ToSet(p) = ToSet(q) \cup {x}
            /\ Len(q) \in Nat /\ Len(q) + 1 \in DOMAIN p /\ p[Len(q) + 1] = x
            /\ DOMAIN q \subseteq Nat /\ DOMAIN p = DOMAIN q \cup {Len(q) + 1}
            /\ \A i \in DOMAIN q : i \in DOMAIN p /\ p[i] = q[i] /\ i < Len(q) + 1
<1>. DEFINE p == Append(q, x)
<1>1. /\ p \in Seq(T) /\ Len(q) \in Nat /\ Len(p) = Len(q) + 1
      /\ \A i \in 1..Len(q) : p[i] = q[i]
      /\ p[Len(q) + 1] = x /\ DOMAIN q = 1..Len(q) /\ DOMAIN p = 1..Len(p)
  OBVIOUS
<1>. HIDE DEF p
<1>2. DOMAIN p = DOMAIN q \cup {Len(q) + 1} /\ \A i \in DOMAIN q : i < Len(q) + 1
  BY <1>1
<1>3. ToSet(p) = ToSet(q) \cup {x}
  BY <1>1, <1>2 DEF ToSet
<1>. QED
  BY <1>1, <1>2, <1>3 DEF p

LEMMA Pulled ==
  ASSUME NEW T, NEW q \in Seq(T), q # <<>>
  PROVE  LET p == Tail(q)
         IN /\ p \in Seq(T) /\ Head(q) = q[1] /\ Head(q) \in T /\ Head(q) \in ToSet(q)
            /\ 1 \in DOMAIN q /\ DOMAIN q \subseteq Nat
            /\ ToSet(q) = ToSet(p) \cup {Head(q)}
            /\ \A i \in DOMAIN p : i \in Nat /\ 1 <= i /\ i + 1 \in DOMAIN q /\ p[i] = q[i + 1]
            /\ \A i \in DOMAIN q : i # 1 => i - 1 \in DOMAIN p /\ p[i - 1] = q[i]
            /\ \A i \in DOMAIN q : 1 <= i
<1>. DEFINE p == Tail(q)
<1>1. /\ p \in Seq(T) /\ Len(q) \in Nat \ {0} /\ Len(p) = Len(q) - 1 /\ Head(q) = q[1]
      /\ DOMAIN q = 1..Len(q) /\ DOMAIN p = 1..Len(p)
      /\ \A i \in 1..Len(p) : p[i] = q[i + 1]
      /\ \A i \in 1..Len(q) : q[i] \in T
  OBVIOUS
<1>. HIDE DEF p
<1>2. 1 \in DOMAIN q /\ Head(q) \in T /\ DOMAIN q \subseteq Nat
  BY <1>1
<1>3. \A i \in DOMAIN p : i \in Nat /\ 1 <= i /\ i + 1 \in DOMAIN q /\ p[i] = q[i + 1]
  BY <1>1
<1>4. \A i \in DOMAIN q : i # 1 => i - 1 \in DOMAIN p /\ p[i - 1] = q[i]
  <2>1. \A i \in 1..Len(q) : i # 1 => i - 1 \in 1..Len(p) /\ p[i - 1] = q[(i - 1) + 1] /\ (i - 1) + 1 = i
    BY <1>1
  <2>. QED
    BY <1>1, <2>1
<1>5. ToSet(q) = ToSet(p) \cup {Head(q)}
  BY <1>1, <1>2, <1>3, <1>4 DEF ToSet
<1>6. \A i \in DOMAIN q : 1 <= i
  BY <1>1
<1>. QED
  BY <1>1, <1>2, <1>3, <1>4, <1>5, <1>6 DEF p

LEMMA Joined ==
  ASSUME NEW T, NEW q \in Seq(T), NEW s \in Seq(T)
  PROVE  LET p == q \o s
         IN /\ p \in Seq(T) /\ ToSet(p) = ToSet(q) \cup ToSet(s)
            /\ Len(q) \in Nat /\ DOMAIN q \subseteq Nat /\ DOMAIN s \subseteq Nat
            /\ \A i \in DOMAIN q : i \in DOMAIN p /\ p[i] = q[i] /\ i <= Len(q)
            /\ \A i \in DOMAIN s : 1 <= i /\ Len(q) + i \in DOMAIN p /\ p[Len(q) + i] = s[i]
            /\ \A i \in DOMAIN p : i \in DOMAIN q \/ (i - Len(q) \in DOMAIN s /\ Len(q) < i /\ i \in Nat
                                                      /\ p[i] = s[i - Len(q)])
<1>. DEFINE p == q \o s
<1>1. /\ p \in Seq(T) /\ Len(q) \in Nat /\ Len(s) \in Nat /\ Len(p) = Len(q) + Len(s)
      /\ DOMAIN q = 1..Len(q) /\ DOMAIN p = 1..Len(p) /\ DOMAIN s = 1..Len(s)
      /\ \A i \in 1..Len(p) : p[i] = IF i <= Len(q) THEN q[i] ELSE s[i - Len(q)]
  OBVIOUS
<1>. HIDE DEF p
<1>2. \A i \in DOMAIN q : i \in DOMAIN p /\ p[i] = q[i] /\ i <= Len(q)
  BY <1>1
<1>3. \A i \in DOMAIN s : 1 <= i /\ Len(q) + i \in DOMAIN p /\ p[Len(q) + i] = s[i]
  <2>1. \A i \in 1..Len(s) : Len(q) + i \in 1..Len(p) /\ ~(Len(q) + i <= Len(q)) /\ (Len(q) + i) - Len(q) = i
    BY <1>1
  <2>. QED
    BY <1>1, <2>1
<1>4. \A i \in DOMAIN p : i \in DOMAIN q \/ (i - Len(q) \in DOMAIN s /\ Len(q) < i /\ i \in Nat
                                             /\ p[i] = s[i - Len(q)])
  BY <1>1
<1>5. ToSet(p) = ToSet(q) \cup ToSet(s)
  <2>1. \A x : x \in ToSet(p) => x \in ToSet(q) \cup ToSet(s)
    BY <1>2, <1>4 DEF ToSet
  <2>2. \A x : x \in ToSet(q) \cup ToSet(s) => x \in ToSet(p)
    BY <1>2, <1>3 DEF ToSet
  <2>. QED
    BY <2>1, <2>2
<1>6. DOMAIN q \subseteq Nat /\ DOMAIN s \subseteq Nat
  BY <1>1
<1>. QED
  BY <1>1, <1>2, <1>3, <1>4, <1>5, <1>6 DEF p

LEMMA Elements ==
  ASSUME NEW T, NEW q \in Seq(T)
  PROVE  /\ \A i \in DOMAIN q : q[i] \in ToSet(q) /\ q[i] \in T /\ i \in Nat
         /\ \A x \in ToSet(q) : x \in T /\ \E i \in DOMAIN q : x = q[i]
<1>1. DOMAIN q \subseteq Nat /\ \A i \in DOMAIN q : q[i] \in T
  OBVIOUS
<1>. QED
  BY <1>1 DEF ToSet

\* The functions of the adapter: what is added to a map, and taken out.
LEMMA Maps ==
  ASSUME NEW f, NEW x, NEW v
  PROVE  /\ DOMAIN With(f, x, v) = DOMAIN f \cup {x}
         /\ With(f, x, v)[x] = v
         /\ \A y \in DOMAIN f : y # x => With(f, x, v)[y] = f[y]
         /\ DOMAIN Without(f, x) = DOMAIN f \ {x}
         /\ \A y \in DOMAIN f : y # x => Without(f, x)[y] = f[y]
         /\ With(f, x, v) = [y \in DOMAIN f \cup {x} |-> With(f, x, v)[y]]
         /\ Without(f, x) = [y \in DOMAIN f \ {x} |-> Without(f, x)[y]]
BY DEF With, Without, Restrict
------------------------------------------------------------------------------
(* What the answers on their way tell.                                     *)

\* The fields of a fence.
Field == {"id", "mask", "paused"}

LEMMA TellsPushed ==
  ASSUME NEW T, NEW q \in Seq(T), NEW m \in T, NEW hw, NEW field, NEW v, NEW known, NEW w,
         Tells(q, hw, field, v, known, w), ~Sets(m, hw, field)
  PROVE  Tells(Append(q, m), hw, field, v, known, w)
<1>. DEFINE p == Append(q, m)
<1>1. /\ p[Len(q) + 1] = m /\ DOMAIN p = DOMAIN q \cup {Len(q) + 1}
      /\ \A i \in DOMAIN q : i \in DOMAIN p /\ p[i] = q[i]
  BY Pushed
<1>. HIDE DEF p
<1>2. CASE Latest(q, hw, field, v)
  <2>1. PICK i \in DOMAIN q : /\ Sets(q[i], hw, field) /\ value(q[i], field) = v
                              /\ \A j \in DOMAIN q : i < j => ~Sets(q[j], hw, field)
    BY <1>2 DEF Latest
  <2>2. Latest(p, hw, field, v)
    BY <1>1, <2>1 DEF Latest
  <2>. QED
    BY <2>2 DEF Tells, p
<1>3. CASE Unset(q, hw, field) /\ known /\ w = v
  <2>1. Unset(p, hw, field)
    BY <1>1, <1>3 DEF Unset
  <2>. QED
    BY <1>3, <2>1 DEF Tells, p
<1>. QED
  BY <1>2, <1>3 DEF Tells

LEMMA TellsAnswered ==
  ASSUME NEW T, NEW q \in Seq(T), NEW m \in T, NEW hw, NEW field, NEW known, NEW w,
         Sets(m, hw, field)
  PROVE  Tells(Append(q, m), hw, field, value(m, field), known, w)
<1>. DEFINE p == Append(q, m)
<1>1. /\ p[Len(q) + 1] = m /\ Len(q) + 1 \in DOMAIN p /\ Len(q) \in Nat
      /\ DOMAIN p = DOMAIN q \cup {Len(q) + 1} /\ \A i \in DOMAIN q : i < Len(q) + 1 /\ i \in Nat
  BY Pushed
<1>. HIDE DEF p
<1>2. \A j \in DOMAIN p : ~(Len(q) + 1 < j)
  BY <1>1
<1>. QED
  BY <1>1, <1>2 DEF Tells, Latest, p

LEMMA TellsPulled ==
  ASSUME NEW T, NEW q \in Seq(T), q # <<>>, NEW hw, NEW field, NEW v,
         NEW known, NEW w, NEW now, NEW x,
         Tells(q, hw, field, v, known, w),
         ~Sets(Head(q), hw, field) => (known => now /\ x = w),
         Sets(Head(q), hw, field) => (now /\ x = value(Head(q), field)) \/ ~Unset(Tail(q), hw, field)
  PROVE  Tells(Tail(q), hw, field, v, now, x)
<1>. DEFINE p == Tail(q)
<1>1. /\ Head(q) = q[1] /\ 1 \in DOMAIN q
      /\ \A i \in DOMAIN p : i \in Nat /\ 1 <= i /\ i + 1 \in DOMAIN q /\ p[i] = q[i + 1]
      /\ \A i \in DOMAIN q : i # 1 => i - 1 \in DOMAIN p /\ p[i - 1] = q[i]
      /\ \A i \in DOMAIN q : i \in Nat /\ 1 <= i
  BY Pulled
<1>. HIDE DEF p
<1>2. CASE Latest(q, hw, field, v)
  <2>1. PICK i \in DOMAIN q : /\ Sets(q[i], hw, field) /\ value(q[i], field) = v
                              /\ \A j \in DOMAIN q : i < j => ~Sets(q[j], hw, field)
    BY <1>2 DEF Latest
  <2>2. CASE i # 1
    <3>1. i - 1 \in DOMAIN p /\ p[i - 1] = q[i]
      BY <1>1, <2>2
    <3>2. ASSUME NEW j \in DOMAIN p, i - 1 < j  PROVE ~Sets(p[j], hw, field)
      <4>1. i < j + 1 /\ j + 1 \in DOMAIN q /\ p[j] = q[j + 1]
        BY <1>1, <3>2
      <4>. QED
        BY <2>1, <4>1
    <3>. QED
      BY <2>1, <3>1, <3>2 DEF Tells, Latest, p
  <2>3. CASE i = 1
    <3>1. ASSUME NEW j \in DOMAIN p  PROVE ~Sets(p[j], hw, field)
      <4>1. i < j + 1 /\ j + 1 \in DOMAIN q /\ p[j] = q[j + 1]
        BY <1>1, <2>3
      <4>. QED
        BY <2>1, <4>1
    <3>2. Unset(p, hw, field)
      BY <3>1 DEF Unset
    <3>. QED
      BY <1>1, <2>1, <2>3, <3>2 DEF Tells, p
  <2>. QED
    BY <2>2, <2>3
<1>3. CASE Unset(q, hw, field) /\ known /\ w = v
  <2>1. Unset(p, hw, field)
    BY <1>1, <1>3 DEF Unset
  <2>2. ~Sets(Head(q), hw, field)
    BY <1>1, <1>3 DEF Unset
  <2>. QED
    BY <1>3, <2>1, <2>2 DEF Tells, p
<1>. QED
  BY <1>2, <1>3 DEF Tells

\* A fence whose number is still to be told is not the adapter's yet, and what else
\* is told of it comes behind.
LEMMA StillToBeGiven ==
  ASSUME NEW T, NEW q \in Seq(T), q # <<>>, NEW hw, NEW v, NEW known, NEW w,
         Tells(q, hw, "id", v, known, w), ~known, ~Sets(Head(q), hw, "id"), NEW field \in Field
  PROVE  ~Unset(Tail(q), hw, field)
<1>. DEFINE p == Tail(q)
<1>1. /\ Head(q) = q[1]
      /\ \A i \in DOMAIN q : i # 1 => i - 1 \in DOMAIN p /\ p[i - 1] = q[i]
  BY Pulled
<1>. HIDE DEF p
<1>2. PICK i \in DOMAIN q : Sets(q[i], hw, "id")
  BY DEF Tells, Latest
<1>3. i # 1 /\ Sets(q[i], hw, field)
  BY <1>1, <1>2 DEF Sets, setters, Field
<1>. QED
  BY <1>1, <1>3 DEF Unset, p
------------------------------------------------------------------------------
(* One place for each fence.                                               *)

LEMMA DistinctSwapped ==
  ASSUME NEW q, NEW r, NEW I, Distinct(q, r, I)
  PROVE  Distinct(r, q, I)
BY Zenon DEF Distinct

LEMMA DistinctPushed ==
  ASSUME NEW T, NEW U, NEW q \in Seq(T), NEW r \in Seq(U), NEW I, NEW m \in T, Distinct(q, r, I),
         carries(m) => /\ m.id \notin I
                       /\ \A x \in ToSet(q) \cup ToSet(r) : carries(x) => x.id # m.id
  PROVE  Distinct(Append(q, m), r, I)
<1>. DEFINE p == Append(q, m)
<1>1. /\ p[Len(q) + 1] = m /\ DOMAIN p = DOMAIN q \cup {Len(q) + 1}
      /\ \A i \in DOMAIN q : i \in DOMAIN p /\ p[i] = q[i]
  BY Pushed
<1>2. /\ \A i \in DOMAIN q : q[i] \in ToSet(q)
      /\ \A i \in DOMAIN r : r[i] \in ToSet(r)
  BY Elements
<1>. HIDE DEF p
<1>3. ASSUME NEW i \in DOMAIN p, NEW j \in DOMAIN p, carries(p[i]), carries(p[j]), p[i].id = p[j].id
      PROVE  i = j
  BY <1>1, <1>2, <1>3 DEF Distinct
<1>4. ASSUME NEW i \in DOMAIN p, NEW j \in DOMAIN r, carries(p[i]), carries(r[j])
      PROVE  p[i].id # r[j].id
  BY <1>1, <1>2, <1>4 DEF Distinct
<1>5. ASSUME NEW i \in DOMAIN p, carries(p[i])  PROVE p[i].id \notin I
  BY <1>1, <1>2, <1>5 DEF Distinct
<1>. QED
  BY <1>3, <1>4, <1>5 DEF Distinct, p

LEMMA DistinctPulled ==
  ASSUME NEW T, NEW q \in Seq(T), q # <<>>, NEW r, NEW I, NEW J, Distinct(q, r, I),
         \A x \in J : x \in I \/ (carries(Head(q)) /\ x = Head(q).id)
  PROVE  /\ Distinct(Tail(q), r, J)
         /\ carries(Head(q)) => /\ Head(q).id \notin I
                                /\ \A x \in ToSet(Tail(q)) \cup ToSet(r) :
                                     carries(x) => x.id # Head(q).id
<1>. DEFINE p == Tail(q)
<1>1. /\ Head(q) = q[1] /\ 1 \in DOMAIN q
      /\ \A i \in DOMAIN p : i \in Nat /\ 1 <= i /\ i + 1 \in DOMAIN q /\ p[i] = q[i + 1]
  BY Pulled
<1>. HIDE DEF p
<1>2. \A i \in DOMAIN p : carries(p[i]) /\ carries(q[1]) => p[i].id # q[1].id
  <2>1. ASSUME NEW i \in DOMAIN p, carries(p[i]), carries(q[1]), p[i].id = q[1].id  PROVE FALSE
    <3>1. i + 1 = 1
      BY <1>1, <2>1 DEF Distinct
    <3>. QED
      BY <1>1, <3>1
  <2>. QED
    BY <2>1
<1>3. \A j \in DOMAIN r : carries(r[j]) /\ carries(q[1]) => r[j].id # q[1].id
  BY <1>1 DEF Distinct
<1>4. ASSUME NEW i \in DOMAIN p, NEW j \in DOMAIN p, carries(p[i]), carries(p[j]), p[i].id = p[j].id
      PROVE  i = j
  <2>1. i + 1 = j + 1
    BY <1>1, <1>4 DEF Distinct
  <2>. QED
    BY <1>1, <2>1
<1>5. ASSUME NEW i \in DOMAIN p, NEW j \in DOMAIN r, carries(p[i]), carries(r[j])
      PROVE  p[i].id # r[j].id
  BY <1>1, <1>5 DEF Distinct
<1>6. ASSUME NEW i \in DOMAIN p, carries(p[i])  PROVE p[i].id \notin J
  BY <1>1, <1>2, <1>6 DEF Distinct
<1>7. ASSUME NEW i \in DOMAIN r, carries(r[i])  PROVE r[i].id \notin J
  BY <1>1, <1>3, <1>7 DEF Distinct
<1>8. Distinct(p, r, J)
  BY <1>4, <1>5, <1>6, <1>7 DEF Distinct
<1>9. carries(Head(q)) => Head(q).id \notin I
  BY <1>1 DEF Distinct
<1>. QED
  BY <1>1, <1>2, <1>3, <1>8, <1>9 DEF p, ToSet

LEMMA DistinctMoved ==
  ASSUME NEW T, NEW U, NEW q \in Seq(T), NEW r \in Seq(U), q # <<>>, NEW I, NEW m \in U,
         Distinct(q, r, I), carries(m) => carries(Head(q)) /\ m.id = Head(q).id
  PROVE  Distinct(Tail(q), Append(r, m), I)
<1>1. /\ Distinct(Tail(q), r, I) /\ Tail(q) \in Seq(T)
      /\ carries(Head(q)) => /\ Head(q).id \notin I
                             /\ \A x \in ToSet(Tail(q)) \cup ToSet(r) : carries(x) => x.id # Head(q).id
  BY DistinctPulled, Pulled
<1>2. Distinct(r, Tail(q), I)
  BY <1>1, DistinctSwapped
<1>3. Distinct(Append(r, m), Tail(q), I)
  <2>1. carries(m) => /\ m.id \notin I
                      /\ \A x \in ToSet(r) \cup ToSet(Tail(q)) : carries(x) => x.id # m.id
    BY <1>1
  <2>. QED
    BY ONLY <1>1, <1>2, <2>1, DistinctPushed, r \in Seq(U), m \in U
<1>. QED
  BY <1>3, DistinctSwapped

LEMMA DistinctJoined ==
  ASSUME NEW T, NEW U, NEW q \in Seq(T), NEW r \in Seq(U), NEW s \in Seq(U), NEW I, Distinct(q, r, I),
         \A i \in DOMAIN s : carries(s[i]) => s[i].id \in I,
         \A i, j \in DOMAIN s : carries(s[i]) /\ carries(s[j]) /\ s[i].id = s[j].id => i = j
  PROVE  Distinct(q, r \o s, {})
<1>. DEFINE p == r \o s
<1>1. /\ Len(r) \in Nat /\ DOMAIN r \subseteq Nat /\ DOMAIN s \subseteq Nat
      /\ \A i \in DOMAIN r : p[i] = r[i]
      /\ \A i \in DOMAIN p : i \in DOMAIN r \/ (i - Len(r) \in DOMAIN s /\ i \in Nat /\ p[i] = s[i - Len(r)])
  BY Joined
<1>. HIDE DEF p
<1>2. ASSUME NEW i \in DOMAIN p, NEW j \in DOMAIN p, carries(p[i]), carries(p[j]), p[i].id = p[j].id
      PROVE  i = j
  <2>1. CASE i \in DOMAIN r /\ j \in DOMAIN r
    BY <1>1, <1>2, <2>1 DEF Distinct
  <2>2. CASE i \notin DOMAIN r /\ j \notin DOMAIN r
    <3>1. i - Len(r) = j - Len(r) /\ i \in Nat /\ j \in Nat
      BY <1>1, <1>2, <2>2
    <3>. QED
      BY <1>1, <3>1
  <2>3. CASE i \in DOMAIN r /\ j \notin DOMAIN r
    BY <1>1, <1>2, <2>3 DEF Distinct
  <2>4. CASE i \notin DOMAIN r /\ j \in DOMAIN r
    BY <1>1, <1>2, <2>4 DEF Distinct
  <2>. QED
    BY <2>1, <2>2, <2>3, <2>4
<1>3. ASSUME NEW i \in DOMAIN q, NEW j \in DOMAIN p, carries(q[i]), carries(p[j])
      PROVE  q[i].id # p[j].id
  <2>1. CASE j \in DOMAIN r
    BY <1>1, <1>3, <2>1 DEF Distinct
  <2>2. CASE j \notin DOMAIN r
    <3>1. p[j].id \in I
      BY <1>1, <1>3, <2>2
    <3>. QED
      BY <1>3, <3>1 DEF Distinct
  <2>. QED
    BY <2>1, <2>2
<1>. QED
  BY <1>2, <1>3 DEF Distinct, p

LEMMA DistinctShrunk ==
  ASSUME NEW q, NEW r, NEW I, NEW J \in SUBSET I, Distinct(q, r, I)
  PROVE  Distinct(q, r, J)
BY DEF Distinct

\* The queue of LocApiBase behind what was dropped before a restart is known.
LEMMA StalePushed ==
  ASSUME NEW T, NEW q \in Seq(T), NEW m \in T, NEW i \in DOMAIN q, Stale(q, i)
  PROVE  Stale(Append(q, m), i)
<1>. DEFINE p == Append(q, m)
<1>1. /\ DOMAIN p = DOMAIN q \cup {Len(q) + 1} /\ i < Len(q) + 1 /\ i \in Nat /\ Len(q) \in Nat
      /\ \A j \in DOMAIN q : p[j] = q[j]
  BY Pushed
<1>. HIDE DEF p
<1>2. ~(Len(q) + 1 < i)
  BY <1>1
<1>. QED
  BY <1>1, <1>2 DEF Stale, p

LEMMA StaleJoined ==
  ASSUME NEW T, NEW q \in Seq(T), NEW s \in Seq(T), NEW i \in DOMAIN q, Stale(q, i)
  PROVE  Stale(q \o s, i)
<1>. DEFINE p == q \o s
<1>1. /\ Len(q) \in Nat /\ i <= Len(q) /\ i \in Nat
      /\ \A j \in DOMAIN q : p[j] = q[j]
      /\ \A j \in DOMAIN p : j \in DOMAIN q \/ (Len(q) < j /\ j \in Nat)
  BY Joined
<1>. HIDE DEF p
<1>2. \A j \in DOMAIN p : j < i => j \in DOMAIN q
  BY <1>1
<1>. QED
  BY <1>1, <1>2 DEF Stale, p

LEMMA StalePulled ==
  ASSUME NEW T, NEW q \in Seq(T), q # <<>>, NEW i \in DOMAIN Tail(q), Stale(q, i + 1)
  PROVE  Stale(Tail(q), i) /\ ~toEngineOp(Head(q), {"add", "restore"})
<1>. DEFINE p == Tail(q)
<1>1. /\ Head(q) = q[1] /\ 1 \in DOMAIN q
      /\ \A j \in DOMAIN p : j \in Nat /\ 1 <= j /\ j + 1 \in DOMAIN q /\ p[j] = q[j + 1]
  BY Pulled
<1>. HIDE DEF p
<1>2. ~toEngineOp(q[1], {"add", "restore"})
  <2>1. 1 < i + 1
    BY <1>1 DEF p
  <2>. QED
    BY <1>1, <2>1 DEF Stale
<1>3. ASSUME NEW j \in DOMAIN p, j < i  PROVE ~toEngineOp(p[j], {"add", "restore"})
  <2>1. j + 1 < i + 1 /\ j + 1 \in DOMAIN q
    BY <1>1, <1>3 DEF p
  <2>. QED
    BY <1>1, <2>1 DEF Stale
<1>. QED
  BY <1>1, <1>2, <1>3 DEF Stale, p
------------------------------------------------------------------------------
(* Steps that tell the adapter nothing new.                                *)

LEMMA Kinds ==
  /\ \A m \in TaskMessage :
       /\ m.stage \in {"command", "item", "removeClient", "ssr", "breach", "answer"}
       /\ m.stage \in {"command", "item"} => m \in Request
       /\ m.stage = "answer" => m \in Answer
       /\ m.stage = "removeClient" => m \in Removal
       /\ m.stage = "breach" => m \in Reported
  /\ \A m \in ApiRequest :
       /\ m.stage \in {"queued", "engine", "ssr"}
       /\ m.stage = "queued" => m \in Queued
       /\ m.stage = "engine" => m \in Asked
<1>1. ASSUME NEW m \in TaskMessage
      PROVE  /\ m.stage \in {"command", "item", "removeClient", "ssr", "breach", "answer"}
             /\ m.stage \in {"command", "item"} => m \in Request
             /\ m.stage = "answer" => m \in Answer
             /\ m.stage = "removeClient" => m \in Removal
             /\ m.stage = "breach" => m \in Reported
  <2>1. CASE m \in Request
    BY <2>1 DEF Request
  <2>2. CASE m \in Removal
    BY <2>2 DEF Removal
  <2>3. CASE m \in Restarted
    BY <2>3 DEF Restarted
  <2>4. CASE m \in Reported
    BY <2>4 DEF Reported
  <2>5. CASE m \in Answer
    BY <2>5 DEF Answer
  <2>. QED
    BY <2>1, <2>2, <2>3, <2>4, <2>5 DEF TaskMessage
<1>2. ASSUME NEW m \in ApiRequest
      PROVE  /\ m.stage \in {"queued", "engine", "ssr"}
             /\ m.stage = "queued" => m \in Queued
             /\ m.stage = "engine" => m \in Asked
  <2>1. CASE m \in Queued
    BY <2>1 DEF Queued
  <2>2. CASE m \in Asked
    BY <2>2 DEF Asked
  <2>3. CASE m \in Restarted
    BY <2>3 DEF Restarted
  <2>. QED
    BY <2>1, <2>2, <2>3 DEF ApiRequest
<1>. QED
  BY <1>1, <1>2

\* The same answers of success are on their way.
OkIn(S, m) == m \in S /\ m.stage = "answer" /\ m.ok
Alike(q, p) ==
  /\ \A m : OkIn(ToSet(p), m) <=> OkIn(ToSet(q), m)
  /\ \A hw, field, v, known, w : Tells(q, hw, field, v, known, w) => Tells(p, hw, field, v, known, w)

LEMMA AlikePushed ==
  ASSUME NEW T, NEW q \in Seq(T), NEW m \in T, ~(m.stage = "answer" /\ m.ok)
  PROVE  Alike(q, Append(q, m))
<1>1. ASSUME NEW x  PROVE OkIn(ToSet(Append(q, m)), x) <=> OkIn(ToSet(q), x)
  BY Pushed DEF OkIn
<1>2. ASSUME NEW hw, NEW field, NEW v, NEW known, NEW w, Tells(q, hw, field, v, known, w)
      PROVE  Tells(Append(q, m), hw, field, v, known, w)
  <2>1. ~Sets(m, hw, field)
    BY DEF Sets, Ok
  <2>. QED
    BY <1>2, <2>1, TellsPushed
<1>. QED
  BY <1>1, <1>2 DEF Alike

LEMMA AlikePulled ==
  ASSUME NEW T, NEW q \in Seq(T), q # <<>>, ~(Head(q).stage = "answer" /\ Head(q).ok)
  PROVE  Alike(q, Tail(q))
<1>1. ASSUME NEW x  PROVE OkIn(ToSet(Tail(q)), x) <=> OkIn(ToSet(q), x)
  BY Pulled DEF OkIn
<1>2. ASSUME NEW hw, NEW field, NEW v, NEW known, NEW w, Tells(q, hw, field, v, known, w)
      PROVE  Tells(Tail(q), hw, field, v, known, w)
  <2>1. ~Sets(Head(q), hw, field)
    BY DEF Sets, Ok
  <2>. QED
    BY <1>2, <2>1, TellsPulled
<1>. QED
  BY <1>1, <1>2 DEF Alike

\* What the engine watches is told as before.
State == <<mGeofences, mGeofenceIds, engine, lastHwId, restarts, mClientData>>
AsBefore ==
  /\ Agrees' /\ Removed'
  /\ \A hw \in DOMAIN engine' : 1 <= hw /\ hw <= lastHwId'
  /\ \A m \in inTask' : m.stage = "answer" /\ m.ok => m \in inTask /\ m.hw <= lastHwId'
  /\ \A m, n \in inTask' : \A hw : Gives(m, hw) =>
       hw \in DOMAIN engine' /\ hw \notin DOMAIN mGeofences' /\ (Gives(n, hw) => m = n)
  /\ \A m, hw : Gives(m, hw) => (m \in inTask' <=> m \in inTask)
  /\ \A m, hw : Takes(m, hw) => (m \in inTask' <=> m \in inTask)
LEMMA ToldAsBefore ==
  ASSUME Agrees, Removed, HwIds, Alike(task, task'),
         engine' = engine, mGeofences' = mGeofences, lastHwId' = lastHwId, restarts' = restarts
  PROVE  AsBefore
<1>1. /\ engine' = engine /\ mGeofences' = mGeofences /\ lastHwId' = lastHwId
      /\ restarts' = restarts
  OBVIOUS
<1>2. \A m : m.stage = "answer" /\ m.ok => (m \in inTask' <=> m \in inTask)
  BY DEF Alike, OkIn, inTask
<1>3. \A hw, field, v, known, w : Tells(task, hw, field, v, known, w) => Tells(task', hw, field, v, known, w)
  BY DEF Alike
<1>4. Agrees'
  BY <1>1, <1>3 DEF Agrees
<1>5. Removed'
  BY <1>1, <1>2 DEF Removed, Takes, Ok
<1>6. \A hw \in DOMAIN engine' : 1 <= hw /\ hw <= lastHwId'
  BY <1>1 DEF HwIds
<1>7. \A m \in inTask' : m.stage = "answer" /\ m.ok => m \in inTask /\ m.hw <= lastHwId'
  BY <1>1, <1>2 DEF HwIds
<1>8. /\ \A m, hw : Gives(m, hw) => (m \in inTask' <=> m \in inTask)
      /\ \A m, hw : Takes(m, hw) => (m \in inTask' <=> m \in inTask)
  BY <1>2 DEF Gives, Takes, Ok
<1>9. \A m, n \in inTask' : \A hw : Gives(m, hw) =>
        hw \in DOMAIN engine' /\ hw \notin DOMAIN mGeofences' /\ (Gives(n, hw) => m = n)
  BY <1>1, <1>8 DEF HwIds
<1>. QED
  BY <1>4, <1>5, <1>6, <1>7, <1>8, <1>9 DEF AsBefore

Core ==
  /\ TypesHold /\ Restart /\ OnePlace /\ Numbered /\ HwIds /\ Inverses /\ Agrees
  /\ NotRestored /\ Removed /\ Kept /\ Leaving /\ Breaches

\* A message to the adapter that is no answer.
LEMMA Posted ==
  ASSUME Core, NEW m \in TaskMessage, task' = Append(task, m), UNCHANGED <<State, apiTask>>,
         mForwardMap' = [c \in Client |-> mForwardMap'[c]],
         m.stage \in {"command", "removeClient", "breach"},
         mSessionIdCounter' \in 0..MaxSession, mSessionIdCounter <= mSessionIdCounter',
         HasId(m) => m.id <= mSessionIdCounter',
         carries(m) => mSessionIdCounter < m.id,
         m.stage = "breach" =>
           /\ ~Restarting /\ m.hw <= lastHwId
           /\ m.hw \in DOMAIN mGeofences => mGeofences[m.hw].id = m.id
           /\ \A n \in inTask : Gives(n, m.hw) => n.id = m.id
  PROVE  Core'
<1>1. /\ TypesHold /\ Restart /\ OnePlace /\ Numbered /\ HwIds /\ Inverses /\ Agrees
      /\ NotRestored /\ Removed /\ Kept /\ Leaving /\ Breaches
  BY DEF Core
<1>2. /\ engine' = engine /\ mGeofences' = mGeofences /\ lastHwId' = lastHwId
      /\ restarts' = restarts /\ apiTask' = apiTask /\ mGeofenceIds' = mGeofenceIds
      /\ mClientData' = mClientData /\ UNCHANGED State
  BY DEF State
<1>3. task \in Seq(TaskMessage) /\ apiTask \in Seq(ApiRequest) /\ mSessionIdCounter \in Nat
  BY <1>1 DEF TypesHold
<1>. DEFINE n1 == Len(task) + 1
<1>4. /\ task' \in Seq(TaskMessage) /\ inTask' = inTask \cup {m} /\ inApi' = inApi
      /\ n1 \in DOMAIN task' /\ task'[n1] = m /\ DOMAIN task' = DOMAIN task \cup {n1}
      /\ \A i \in DOMAIN task : task'[i] = task[i] /\ i < n1 /\ i \in Nat
  BY <1>2, <1>3, Pushed DEF inTask, inApi
<1>. HIDE DEF n1
<1>5. ~isSsr(m) /\ m.stage # "item" /\ m.stage # "answer"
  BY DEF isSsr
<1>6. Restarting' <=> Restarting
  BY <1>4, <1>5 DEF Restarting, isSsr
<1>7. Alike(task, task')
  BY <1>3, <1>5, AlikePushed
<1>8. AsBefore
  BY <1>1, <1>2, <1>7, ToldAsBefore
<1>9. TypesHold'
  BY <1>1, <1>2, <1>4 DEF TypesHold
<1>10. Restart'
  <2>1. Restarting' => Fresh' /\ restarts' # 0
    BY <1>1, <1>2, <1>4, <1>5, <1>6 DEF Restart, Fresh
  <2>2. ASSUME NEW i \in DOMAIN apiTask', isSsr(apiTask'[i])
        PROVE  i = 1 /\ \A x \in inTask' : ~isSsr(x) /\ x.stage # "item"
    BY <1>1, <1>2, <1>4, <1>5, <2>2 DEF Restart
  <2>3. ASSUME NEW i \in DOMAIN task', NEW j \in DOMAIN task', isSsr(task'[i])
        PROVE  (isSsr(task'[j]) => i = j) /\ (task'[j].stage = "item" => i < j)
    BY <1>1, <1>4, <1>5, <2>3 DEF Restart
  <2>. QED
    BY <2>1, <2>2, <2>3 DEF Restart
<1>11. OnePlace'
  <2>1. savedIds' = savedIds
    BY <1>2 DEF savedIds
  <2>2. carries(m) => /\ m.id \notin savedIds
                      /\ \A x \in inTask \cup inApi : carries(x) => x.id # m.id
    <3>1. ASSUME carries(m)
          PROVE  /\ m.id \notin savedIds
                 /\ \A x \in inTask \cup inApi : carries(x) => x.id # m.id
      <4>1. \A x \in inTask \cup inApi : carries(x) => x.id <= mSessionIdCounter
        BY <1>1 DEF Numbered, carries, HasId
      <4>2. \A x \in savedIds : x <= mSessionIdCounter
        BY <1>1 DEF Numbered, savedIds
      <4>3. m.id \in Nat /\ ~(m.id <= mSessionIdCounter)
        <5>1. m \in Request
          BY <3>1, Kinds DEF carries
        <5>. QED
          BY <1>3, <3>1, <5>1 DEF Request, Session
      <4>. QED
        BY <4>1, <4>2, <4>3
    <3>. QED
      BY <3>1
  <2>3. Distinct(task', apiTask, savedIds)
    BY ONLY <1>1, <1>3, <2>2, DistinctPushed, task' = Append(task, m), m \in TaskMessage
       DEF OnePlace, inTask, inApi
  <2>. QED
    BY <1>1, <1>2, <2>1, <2>3 DEF OnePlace
<1>12. Numbered'
  <2>1. ASSUME NEW x \in inTask' \cup inApi', HasId(x)  PROVE x.id <= mSessionIdCounter'
    <3>1. CASE x = m
      BY <2>1, <3>1
    <3>2. CASE x # m
      <4>1. x \in inTask \cup inApi /\ x.id <= mSessionIdCounter
        BY <1>1, <1>4, <2>1, <3>2 DEF Numbered
      <4>2. x.id \in Nat
        BY <1>3, <2>1, <4>1, Elements, Kinds
           DEF inTask, inApi, HasId, Request, Queued, Asked, Answer, Session
      <4>. QED
        BY <1>3, <4>1, <4>2
    <3>. QED
      BY <3>1, <3>2
  <2>2. ASSUME NEW hw \in DOMAIN mGeofences  PROVE mGeofences[hw].id <= mSessionIdCounter'
    <3>1. mGeofences[hw].id <= mSessionIdCounter /\ mGeofences[hw].id \in Nat
      BY <1>1 DEF Numbered, TypesHold, Item, Session
    <3>. QED
      BY <1>3, <3>1
  <2>. QED
    BY <1>2, <2>1, <2>2 DEF Numbered
<1>13. HwIds'
  <2>1. Restarting' \/ \A hw \in DOMAIN mGeofences' : hw <= lastHwId'
    BY <1>1, <1>2, <1>6 DEF HwIds
  <2>2. \A x \in inTask' : /\ x.stage = "answer" /\ x.ok => x.hw <= lastHwId'
                           /\ x.stage = "breach" => x.hw <= lastHwId'
    BY <1>1, <1>2, <1>4, <1>8 DEF HwIds, AsBefore
  <2>. QED
    BY <1>8, <2>1, <2>2 DEF HwIds, AsBefore
<1>14. Inverses'
  BY <1>1, <1>2 DEF Inverses, keyOf
<1>15. NotRestored'
  BY <1>1, <1>2, <1>4 DEF NotRestored
<1>16. Kept'
  BY <1>1, <1>2, <1>6, <1>8 DEF Kept, AsBefore
<1>17. Leaving'
  <2>1. /\ \A hw : (\A n \in inTask : ~Gives(n, hw)) => \A n \in inTask' : ~Gives(n, hw)
        /\ \A x \in inTask' : x.stage = "answer" => x \in inTask
    BY <1>4, <1>5, <1>8 DEF AsBefore
  <2>. QED
    BY <1>1, <1>2, <2>1 DEF Leaving, Unsaved
<1>18. Breaches'
  BY <1>1, <1>2, <1>4, <1>8 DEF Breaches, AsBefore
<1>. QED
  BY <1>8, <1>9, <1>10, <1>11, <1>12, <1>13, <1>14, <1>15, <1>16, <1>17, <1>18 DEF Core, AsBefore

\* A message of the adapter's that is no answer of success, and what it asks of LocApiBase.
LEMMA Forwarded ==
  ASSUME Core, task # <<>>, NEW m \in ApiRequest,
         task' = Tail(task), UNCHANGED <<State, mSessionIdCounter, mForwardMap>>,
         ~isSsr(Head(task)), ~(Head(task).stage = "answer" /\ Head(task).ok),
         apiTask' # apiTask =>
           /\ apiTask' = Append(apiTask, m)
           /\ m.stage \in {"queued", "engine"} /\ m.id <= mSessionIdCounter
           /\ carries(m) => carries(Head(task)) /\ m.id = Head(task).id
           /\ m.op \notin {"restore", "repause"}
           /\ toEngineOp(m, {"add", "restore", "remove", "drop"}) => ~Restarting
           /\ toEngineOp(m, {"remove", "drop"}) => Unsaved(m)
  PROVE  Core'
<1>1. /\ TypesHold /\ Restart /\ OnePlace /\ Numbered /\ HwIds /\ Inverses /\ Agrees
      /\ NotRestored /\ Removed /\ Kept /\ Leaving /\ Breaches
  BY DEF Core
<1>2. /\ engine' = engine /\ mGeofences' = mGeofences /\ lastHwId' = lastHwId
      /\ restarts' = restarts /\ mGeofenceIds' = mGeofenceIds /\ mSessionIdCounter' = mSessionIdCounter
      /\ mClientData' = mClientData /\ UNCHANGED State /\ mForwardMap' = mForwardMap
  BY DEF State
<1>3. task \in Seq(TaskMessage) /\ apiTask \in Seq(ApiRequest) /\ mSessionIdCounter \in Nat
  BY <1>1 DEF TypesHold
<1>4. /\ task' \in Seq(TaskMessage) /\ inTask = inTask' \cup {Head(task)} /\ Head(task) = task[1]
      /\ 1 \in DOMAIN task /\ Head(task) \in inTask
      /\ \A i \in DOMAIN task' : i \in Nat /\ 1 <= i /\ i + 1 \in DOMAIN task /\ task'[i] = task[i + 1]
  BY <1>3, Pulled DEF inTask
<1>. DEFINE n1 == Len(apiTask) + 1
<1>5. /\ apiTask' \in Seq(ApiRequest) /\ (inApi' = inApi \/ (apiTask' # apiTask /\ inApi' = inApi \cup {m}))
      /\ \A i \in DOMAIN apiTask : i \in DOMAIN apiTask' /\ apiTask'[i] = apiTask[i] /\ i < n1 /\ i \in Nat
      /\ \A i \in DOMAIN apiTask' : i \in DOMAIN apiTask \/ (i = n1 /\ apiTask'[i] = m /\ apiTask' # apiTask)
  <2>1. CASE apiTask' = apiTask
    <3>1. \A i \in DOMAIN apiTask : i < n1 /\ i \in Nat
      BY <1>3, Pushed
    <3>. QED
      BY <1>3, <2>1, <3>1 DEF inApi
  <2>2. CASE apiTask' # apiTask
    <3>1. apiTask' = Append(apiTask, m)
      BY <2>2
    <3>2. /\ apiTask' \in Seq(ApiRequest) /\ inApi' = inApi \cup {m}
          /\ \A i \in DOMAIN apiTask : i \in DOMAIN apiTask' /\ apiTask'[i] = apiTask[i] /\ i < n1 /\ i \in Nat
          /\ \A i \in DOMAIN apiTask' : i \in DOMAIN apiTask \/ (i = n1 /\ apiTask'[i] = m)
      BY <1>3, <3>1, Pushed DEF inApi
    <3>. QED
      BY <2>2, <3>2
  <2>. QED
    BY <2>1, <2>2
<1>. HIDE DEF n1
<1>6. apiTask' # apiTask => ~isSsr(m)
  BY DEF isSsr
<1>7. Restarting' <=> Restarting
  BY <1>4, <1>5, <1>6 DEF Restarting
<1>8. AsBefore
  <2>1. Alike(task, task')
    BY <1>3, AlikePulled
  <2>. QED
    BY <1>1, <1>2, <2>1, ToldAsBefore
<1>9. TypesHold'
  BY <1>1, <1>2, <1>4, <1>5 DEF TypesHold
<1>10. Restart'
  <2>1. Restarting' => Fresh' /\ restarts' # 0
    BY <1>1, <1>2, <1>4, <1>5, <1>7 DEF Restart, Fresh, toEngineOp
  <2>2. ASSUME NEW i \in DOMAIN apiTask', isSsr(apiTask'[i])
        PROVE  i = 1 /\ \A x \in inTask' : ~isSsr(x) /\ x.stage # "item"
    BY <1>1, <1>4, <1>5, <1>6, <2>2 DEF Restart
  <2>3. ASSUME NEW i \in DOMAIN task', NEW j \in DOMAIN task', isSsr(task'[i])
        PROVE  (isSsr(task'[j]) => i = j) /\ (task'[j].stage = "item" => i < j)
    <3>1. /\ isSsr(task[i + 1]) /\ i + 1 \in DOMAIN task /\ j + 1 \in DOMAIN task /\ i \in Nat /\ j \in Nat
          /\ task'[j] = task[j + 1]
      BY <1>4, <2>3
    <3>2. (isSsr(task[j + 1]) => i + 1 = j + 1) /\ (task[j + 1].stage = "item" => i + 1 < j + 1)
      BY <1>1, <3>1 DEF Restart
    <3>. QED
      BY <3>1, <3>2
  <2>. QED
    BY <2>1, <2>2, <2>3 DEF Restart
<1>11. OnePlace'
  <2>1. savedIds' = savedIds
    BY <1>2 DEF savedIds
  <2>2. Distinct(task', apiTask', savedIds)
    <3>1. CASE apiTask' = apiTask
      BY ONLY <1>1, <1>3, <3>1, DistinctPulled, task' = Tail(task), task # <<>> DEF OnePlace
    <3>2. CASE apiTask' # apiTask
      <4>1. apiTask' = Append(apiTask, m) /\ (carries(m) => carries(Head(task)) /\ m.id = Head(task).id)
        BY <3>2
      <4>. QED
        BY ONLY <1>1, <1>3, DistinctMoved, task' = Tail(task), task # <<>>, m \in ApiRequest,
         <4>1  DEF OnePlace
    <3>. QED
      BY <3>1, <3>2
  <2>. QED
    BY <1>1, <1>2, <2>1, <2>2 DEF OnePlace
<1>12. Numbered'
  BY <1>1, <1>2, <1>4, <1>5 DEF Numbered
<1>13. HwIds'
  <2>1. Restarting' \/ \A hw \in DOMAIN mGeofences' : hw <= lastHwId'
    BY <1>1, <1>2, <1>7 DEF HwIds
  <2>2. \A x \in inTask' : /\ x.stage = "answer" /\ x.ok => x.hw <= lastHwId'
                           /\ x.stage = "breach" => x.hw <= lastHwId'
    BY <1>1, <1>2, <1>4 DEF HwIds
  <2>. QED
    BY <1>8, <2>1, <2>2 DEF HwIds, AsBefore
<1>14. Inverses'
  BY <1>1, <1>2 DEF Inverses, keyOf
<1>15. NotRestored'
  BY <1>1, <1>2, <1>4, <1>5 DEF NotRestored
<1>16. Kept'
  BY <1>1, <1>2, <1>7, <1>8 DEF Kept, AsBefore
<1>17. Leaving'
  <2>1. \A x : Unsaved(x) => Unsaved(x)'
    BY <1>2, <1>4 DEF Unsaved
  <2>2. \A i \in DOMAIN apiTask : Stale(apiTask, i) => Stale(apiTask', i)
    BY <1>3, StalePushed
  <2>3. ASSUME NEW i \in DOMAIN apiTask', toEngineOp(apiTask'[i], {"remove", "drop"})
        PROVE  \/ /\ apiTask'[i].hw <= lastHwId' /\ \A n \in inTask' : ~Gives(n, apiTask'[i].hw)
                  /\ apiTask'[i].op = "drop" =>
                       \A k \in DOMAIN mGeofenceIds' : mGeofenceIds'[k] # apiTask'[i].hw
               \/ (lastHwId' = 0 /\ Stale(apiTask', i))
    <3>1. CASE i \in DOMAIN apiTask
      <4>1. Unsaved(apiTask[i]) \/ (lastHwId = 0 /\ Stale(apiTask, i))
        BY <1>1, <1>5, <2>3, <3>1 DEF Leaving
      <4>. QED
        BY <1>2, <1>4, <1>5, <2>2, <3>1, <4>1 DEF Unsaved
    <3>2. CASE i \notin DOMAIN apiTask
      BY <1>2, <1>4, <1>5, <2>3, <3>2 DEF Unsaved, toEngineOp
    <3>. QED
      BY <3>1, <3>2
  <2>4. ASSUME NEW x \in inTask', x.stage = "answer", x.op = "drop", x.ok
        PROVE  /\ x.hw <= lastHwId' /\ \A n \in inTask' : ~Gives(n, x.hw)
               /\ x.op = "drop" => \A k \in DOMAIN mGeofenceIds' : mGeofenceIds'[k] # x.hw
    BY <1>1, <1>2, <1>4, <2>4 DEF Leaving, Unsaved
  <2>. QED
    BY <2>3, <2>4 DEF Leaving, Unsaved
<1>18. Breaches'
  BY <1>1, <1>2, <1>4 DEF Breaches
<1>. QED
  BY <1>8, <1>9, <1>10, <1>11, <1>12, <1>13, <1>14, <1>15, <1>16, <1>17, <1>18 DEF Core, AsBefore

\* A message of LocApiBase that leaves the engine as it is, and what it posts back.
LEMMA Returned ==
  ASSUME Core, apiTask # <<>>, NEW m \in TaskMessage,
         apiTask' = Tail(apiTask), task' = Append(task, m),
         UNCHANGED <<State, mSessionIdCounter, mForwardMap>>,
         \/ /\ isSsr(Head(apiTask)) /\ isSsr(m)
         \/ /\ ~isSsr(Head(apiTask)) /\ ~isSsr(m) /\ m.stage \in {"item", "answer"}
            /\ m.stage = "answer" => ~m.ok
            /\ m.id = Head(apiTask).id /\ m.op = Head(apiTask).op
            /\ m.stage = "answer" => Head(apiTask).stage = "engine"
  PROVE  Core'
<1>1. /\ TypesHold /\ Restart /\ OnePlace /\ Numbered /\ HwIds /\ Inverses /\ Agrees
      /\ NotRestored /\ Removed /\ Kept /\ Leaving /\ Breaches
  BY DEF Core
<1>2. /\ engine' = engine /\ mGeofences' = mGeofences /\ lastHwId' = lastHwId
      /\ restarts' = restarts /\ mGeofenceIds' = mGeofenceIds /\ mSessionIdCounter' = mSessionIdCounter
      /\ mClientData' = mClientData /\ UNCHANGED State /\ mForwardMap' = mForwardMap
  BY DEF State
<1>3. task \in Seq(TaskMessage) /\ apiTask \in Seq(ApiRequest) /\ mSessionIdCounter \in Nat
  BY <1>1 DEF TypesHold
<1>4. /\ apiTask' \in Seq(ApiRequest) /\ inApi = inApi' \cup {Head(apiTask)} /\ Head(apiTask) = apiTask[1]
      /\ 1 \in DOMAIN apiTask /\ Head(apiTask) \in inApi /\ Head(apiTask) \in ApiRequest
      /\ \A i \in DOMAIN apiTask' : /\ i \in Nat /\ 1 <= i /\ i + 1 \in DOMAIN apiTask
                                    /\ apiTask'[i] = apiTask[i + 1]
  BY <1>3, Pulled DEF inApi
<1>. DEFINE n1 == Len(task) + 1
<1>5. /\ task' \in Seq(TaskMessage) /\ inTask' = inTask \cup {m}
      /\ n1 \in DOMAIN task' /\ task'[n1] = m /\ DOMAIN task' = DOMAIN task \cup {n1}
      /\ \A i \in DOMAIN task : task'[i] = task[i] /\ i < n1 /\ i \in Nat
  BY <1>3, Pushed DEF inTask
<1>. HIDE DEF n1
<1>6. isSsr(m) <=> isSsr(Head(apiTask))
  OBVIOUS
<1>7. Restarting' <=> Restarting
  BY <1>4, <1>5, <1>6 DEF Restarting
<1>8. AsBefore
  <2>1. Alike(task, task')
    BY <1>3, AlikePushed DEF isSsr
  <2>. QED
    BY <1>1, <1>2, <2>1, ToldAsBefore
<1>9. TypesHold'
  BY <1>1, <1>2, <1>4, <1>5 DEF TypesHold
<1>19. \A i \in DOMAIN apiTask' : ~isSsr(apiTask'[i])
  <2>1. ASSUME NEW i \in DOMAIN apiTask', isSsr(apiTask'[i])  PROVE FALSE
    <3>1. i + 1 = 1 /\ i \in Nat /\ 1 <= i
      BY <1>1, <1>4, <2>1 DEF Restart
    <3>. QED
      BY <3>1
  <2>. QED
    BY <2>1
<1>10. Restart'
  <2>1. Restarting' => Fresh' /\ restarts' # 0
    BY <1>1, <1>2, <1>4, <1>5, <1>7 DEF Restart, Fresh, isSsr
  <2>2. isSsr(Head(apiTask)) => \A x \in inTask : ~isSsr(x) /\ x.stage # "item"
    BY <1>1, <1>4 DEF Restart
  <2>3. ASSUME NEW i \in DOMAIN task', NEW j \in DOMAIN task', isSsr(task'[i])
        PROVE  (isSsr(task'[j]) => i = j) /\ (task'[j].stage = "item" => i < j)
    <3>1. \A k \in DOMAIN task : task[k] \in inTask
      BY <1>3, Elements DEF inTask
    <3>2. CASE isSsr(m)
      <4>1. /\ \A k \in DOMAIN task : ~isSsr(task'[k]) /\ task'[k].stage # "item"
            /\ m.stage # "item"
        BY <1>5, <1>6, <2>2, <3>1, <3>2 DEF isSsr
      <4>. QED
        BY <1>5, <2>3, <4>1
    <3>3. CASE ~isSsr(m)
      BY <1>1, <1>5, <2>3, <3>3 DEF Restart
    <3>. QED
      BY <3>2, <3>3
  <2>. QED
    BY <1>19, <2>1, <2>3 DEF Restart
<1>11. OnePlace'
  <2>1. savedIds' = savedIds
    BY <1>2 DEF savedIds
  <2>2. carries(m) => carries(Head(apiTask)) /\ m.id = Head(apiTask).id
    BY <1>4, Kinds DEF carries, isSsr
  <2>3. Distinct(apiTask, task, savedIds)
    BY <1>1, DistinctSwapped DEF OnePlace
  <2>4. Distinct(apiTask', task', savedIds)
    BY ONLY <1>3, <2>2, <2>3, DistinctMoved, apiTask' = Tail(apiTask), task' = Append(task, m),
       apiTask # <<>>, m \in TaskMessage
  <2>. QED
    BY <1>1, <1>2, <2>1, <2>4, DistinctSwapped DEF OnePlace
<1>12. Numbered'
  <2>1. HasId(m) => m.id <= mSessionIdCounter
    BY <1>1, <1>4, Kinds DEF Numbered, HasId, isSsr
  <2>. QED
    BY <1>1, <1>2, <1>4, <1>5, <2>1 DEF Numbered
<1>13. HwIds'
  <2>1. Restarting' \/ \A hw \in DOMAIN mGeofences' : hw <= lastHwId'
    BY <1>1, <1>2, <1>7 DEF HwIds
  <2>2. \A x \in inTask' : /\ x.stage = "answer" /\ x.ok => x.hw <= lastHwId'
                           /\ x.stage = "breach" => x.hw <= lastHwId'
    BY <1>1, <1>2, <1>5 DEF HwIds, isSsr
  <2>. QED
    BY <1>8, <2>1, <2>2 DEF HwIds, AsBefore
<1>14. Inverses'
  BY <1>1, <1>2 DEF Inverses, keyOf
<1>15. NotRestored'
  BY <1>1, <1>2, <1>4, <1>5 DEF NotRestored, isSsr
<1>16. Kept'
  BY <1>1, <1>2, <1>7, <1>8 DEF Kept, AsBefore
<1>17. Leaving'
  <2>1. \A hw : (\A n \in inTask : ~Gives(n, hw)) => \A n \in inTask' : ~Gives(n, hw)
    BY <1>8 DEF AsBefore
  <2>2. \A i \in DOMAIN apiTask' : Stale(apiTask, i + 1) => Stale(apiTask', i)
    BY <1>3, StalePulled
  <2>3. ASSUME NEW i \in DOMAIN apiTask', toEngineOp(apiTask'[i], {"remove", "drop"})
        PROVE  \/ /\ apiTask'[i].hw <= lastHwId' /\ \A n \in inTask' : ~Gives(n, apiTask'[i].hw)
                  /\ apiTask'[i].op = "drop" =>
                       \A k \in DOMAIN mGeofenceIds' : mGeofenceIds'[k] # apiTask'[i].hw
               \/ (lastHwId' = 0 /\ Stale(apiTask', i))
    <3>1. Unsaved(apiTask[i + 1]) \/ (lastHwId = 0 /\ Stale(apiTask, i + 1))
      BY <1>1, <1>4, <2>3 DEF Leaving
    <3>. QED
      BY <1>2, <1>4, <2>1, <2>2, <3>1 DEF Unsaved
  <2>4. ASSUME NEW x \in inTask', x.stage = "answer", x.op = "drop", x.ok
        PROVE  /\ x.hw <= lastHwId' /\ \A n \in inTask' : ~Gives(n, x.hw)
               /\ x.op = "drop" => \A k \in DOMAIN mGeofenceIds' : mGeofenceIds'[k] # x.hw
    BY <1>1, <1>2, <1>8, <2>1, <2>4 DEF Leaving, Unsaved, AsBefore
  <2>. QED
    BY <2>3, <2>4 DEF Leaving, Unsaved
<1>18. Breaches'
  BY <1>1, <1>2, <1>5, <1>8 DEF Breaches, AsBefore, isSsr
<1>. QED
  BY <1>8, <1>9, <1>10, <1>11, <1>12, <1>13, <1>14, <1>15, <1>16, <1>17, <1>18 DEF Core, AsBefore
------------------------------------------------------------------------------
(* The steps that leave the fences of the engine and of the adapter.       *)

\* What is first on a task.
LEMMA TaskHead ==
  ASSUME TypesHold, task # <<>>
  PROVE  /\ Head(task) \in TaskMessage /\ Head(task) \in inTask
         /\ 1 \in DOMAIN task /\ Head(task) = task[1]
         /\ task' = Tail(task) => inTask = inTask' \cup {Head(task)}
BY Pulled DEF TypesHold, inTask

LEMMA ApiHead ==
  ASSUME TypesHold, apiTask # <<>>
  PROVE  /\ Head(apiTask) \in ApiRequest /\ Head(apiTask) \in inApi
         /\ 1 \in DOMAIN apiTask /\ Head(apiTask) = apiTask[1]
         /\ apiTask' = Tail(apiTask) => inApi = inApi' \cup {Head(apiTask)}
BY Pulled DEF TypesHold, inApi

LEMMA TaskPut ==
  ASSUME TypesHold, NEW m \in TaskMessage, task' = Append(task, m)
  PROVE  inTask' = inTask \cup {m}
BY Pushed DEF TypesHold, inTask

LEMMA ApiPut ==
  ASSUME TypesHold, NEW m \in ApiRequest, apiTask' = Append(apiTask, m)
  PROVE  inApi' = inApi \cup {m}
BY Pushed DEF TypesHold, inApi

\* Whose session some message, or a fence of the adapter, says it is.
Held(c, s) ==
  \/ \E m \in inTask \cup inApi : HasId(m) /\ m.client = c /\ m.id = s
  \/ \E hw \in DOMAIN mGeofences : mGeofences[hw].client = c /\ mGeofences[hw].id = s

LEMMA SameOwners ==
  ASSUME Owners, UNCHANGED <<dictVars, mSessionIdCounter>>,
         \A c, s : Held(c, s)' => Held(c, s)
  PROVE  Owners'
<1>1. PICK own \in [Session -> Client \cup {None}] : OwnedBy(own)
  BY DEF Owners
<1>2. \A c, s : Held(c, s) => c = own[s]
  BY <1>1 DEF Held, OwnedBy
<1>5. \A c, s : Held(c, s)' => c = own[s]
  BY <1>2
<1>3. /\ \A m \in inTask' \cup inApi' : HasId(m) => m.client = own[m.id]
      /\ \A hw \in DOMAIN mGeofences' : mGeofences'[hw].client = own[mGeofences'[hw].id]
  BY <1>5 DEF Held
<1>4. OwnedBy(own)'
  BY <1>1, <1>3 DEF OwnedBy, dictVars
<1>. QED
  BY <1>4 DEF Owners

\* While a request is first on the adapters' task no restart is to be learnt of.
LEMMA ItemFirst ==
  ASSUME TypesHold, Restart, Message("item")
  PROVE  ~Restarting
<1>1. /\ 1 \in DOMAIN task /\ task[1].stage = "item" /\ task[1] \in inTask
      /\ task \in Seq(TaskMessage) /\ apiTask \in Seq(ApiRequest)
  BY TaskHead DEF Message, TypesHold
<1>2. \A i \in DOMAIN apiTask : ~isSsr(apiTask[i])
  BY <1>1 DEF Restart
<1>3. \A i \in DOMAIN task : ~isSsr(task[i])
  <2>1. ASSUME NEW i \in DOMAIN task, isSsr(task[i])  PROVE FALSE
    <3>1. i < 1 /\ i \in Nat /\ 1 <= i
      BY <1>1, <2>1 DEF Restart
    <3>. QED
      BY <3>1
  <2>. QED
    BY <2>1
<1>. QED
  BY <1>1, <1>2, <1>3, Elements DEF Restarting, inTask, inApi

LEMMA GeoParts == GeoInv <=> Core /\ Owners
BY DEF GeoInv, Core

LEMMA CommandKeeps == GeoInv /\ Command => GeoInv'
<1>. SUFFICES ASSUME Core, Owners, Command  PROVE Core' /\ Owners'
  BY GeoParts DEF GeoInv, Core, Owners
<1>. DEFINE m == [Head(task) EXCEPT !.stage = "queued"]
<1>1. /\ TypesHold /\ Numbered /\ task # <<>> /\ Head(task).stage = "command"
      /\ task' = Tail(task) /\ apiTask' = Append(apiTask, m)
      /\ UNCHANGED <<State, dictVars, mSessionIdCounter, mForwardMap>>
  BY DEF Core, Command, Message, clientVars, adapterVars, engineVars, State, dictVars
<1>2. Head(task) \in Request /\ Head(task) \in inTask
  BY <1>1, TaskHead, Kinds
<1>3. /\ m \in ApiRequest /\ m.stage = "queued" /\ m.id = Head(task).id
      /\ m.op = Head(task).op /\ m.client = Head(task).client /\ m.op \notin {"restore", "repause"}
  <2>1. m \in Queued
    BY <1>2 DEF Request, Queued
  <2>. QED
    BY <1>2, <2>1 DEF Request, ApiRequest, Op
<1>. HIDE DEF m
<1>4. HasId(Head(task)) /\ m.id <= mSessionIdCounter
  BY <1>1, <1>2, <1>3 DEF Numbered, HasId
<1>5. Core'
  <2>1. carries(m) => carries(Head(task))
    BY <1>1, <1>3 DEF carries
  <2>. QED
    BY <1>1, <1>3, <1>4, <2>1, Forwarded DEF isSsr, toEngineOp
<1>6. Owners'
  <2>1. inTask = inTask' \cup {Head(task)} /\ inApi' = inApi \cup {m} /\ mGeofences' = mGeofences
    BY <1>1, <1>3, TaskHead, ApiPut DEF State
  <2>2. \A c, s : Held(c, s)' => Held(c, s)
    BY <1>2, <1>3, <1>4, <2>1 DEF Held
  <2>. QED
    BY <1>1, <2>2, SameOwners
<1>. QED
  BY <1>5, <1>6

LEMMA ItemKeeps == GeoInv /\ (addItem \/ knownItem) => GeoInv'
<1>. SUFFICES ASSUME Core, Owners, addItem \/ knownItem  PROVE Core' /\ Owners'
  BY GeoParts DEF GeoInv, Core, Owners
<1>1. /\ TypesHold /\ Restart /\ HwIds /\ Inverses /\ Numbered
      /\ Message("item") /\ task # <<>> /\ Head(task).stage = "item"
      /\ task' = Tail(task)
      /\ UNCHANGED <<State, dictVars, mSessionIdCounter, mForwardMap>>
  BY DEF Core, addItem, knownItem, Message, clientVars, adapterVars, engineVars, State, dictVars
<1>2. Head(task) \in Request /\ Head(task) \in inTask /\ ~Restarting
  BY <1>1, TaskHead, Kinds, ItemFirst
<1>3. PICK hw \in Nat :
        /\ apiTask' = Append(apiTask, toEngine(Head(task).op, Head(task).client, Head(task).id,
                                               hw, Head(task).mask, FALSE))
        /\ Head(task).op = "remove" => hw \in DOMAIN mGeofences
  <2>1. CASE addItem
    BY <2>1 DEF addItem
  <2>2. CASE knownItem
    <3>1. /\ keyIn(Head(task)) \in DOMAIN mGeofenceIds
          /\ apiTask' = Append(apiTask, toEngine(Head(task).op, Head(task).client, Head(task).id,
                                    mGeofenceIds[keyIn(Head(task))], Head(task).mask, FALSE))
      BY <2>2 DEF knownItem
    <3>2. mGeofenceIds[keyIn(Head(task))] \in DOMAIN mGeofences /\ mGeofenceIds[keyIn(Head(task))] \in Nat
      BY <1>1, <3>1 DEF Inverses, TypesHold
    <3>. QED
      BY <3>1, <3>2
  <2>. QED
    BY <2>1, <2>2
<1>. DEFINE m == toEngine(Head(task).op, Head(task).client, Head(task).id, hw, Head(task).mask, FALSE)
<1>4. /\ m \in ApiRequest /\ m.stage = "engine" /\ m.id = Head(task).id /\ m.hw = hw
      /\ m.op = Head(task).op /\ m.client = Head(task).client /\ m.op \in Op
      /\ m.op \notin {"restore", "repause"} /\ m.op # "drop"
  <2>1. m \in Asked
    BY <1>2, <1>3 DEF Request, Asked, toEngine, EngineOp
  <2>. QED
    BY <1>2, <2>1 DEF Request, ApiRequest, Op, toEngine
<1>. HIDE DEF m
<1>5. HasId(Head(task)) /\ m.id <= mSessionIdCounter
  BY <1>1, <1>2, <1>4 DEF Numbered, HasId
<1>6. Core'
  <2>1. carries(m) => carries(Head(task)) /\ m.id = Head(task).id
    BY <1>1, <1>4 DEF carries
  <2>2. toEngineOp(m, {"remove", "drop"}) => Unsaved(m)
    BY <1>1, <1>2, <1>3, <1>4 DEF toEngineOp, Unsaved, HwIds
  <2>3. apiTask' = Append(apiTask, m)
    BY <1>3 DEF m
  <2>4. ~isSsr(Head(task)) /\ ~(Head(task).stage = "answer" /\ Head(task).ok)
    BY <1>1 DEF isSsr
  <2>. QED
    BY <1>1, <1>2, <1>4, <1>5, <2>1, <2>2, <2>3, <2>4, Forwarded
<1>7. Owners'
  <2>1. inTask = inTask' \cup {Head(task)} /\ inApi' = inApi \cup {m} /\ mGeofences' = mGeofences
    BY <1>1, <1>3, <1>4, TaskHead, ApiPut DEF State, m
  <2>2. \A c, s : Held(c, s)' => Held(c, s)
    BY <1>2, <1>4, <1>5, <2>1 DEF Held
  <2>. QED
    BY <1>1, <2>2, SameOwners
<1>. QED
  BY <1>6, <1>7

\* What is answered to the client, or told it, at once.
LEMMA NoticeKeeps == GeoInv /\ (unknownItem \/ AnswerFailed \/ Breach) => GeoInv'
<1>. SUFFICES ASSUME Core, Owners, unknownItem \/ AnswerFailed \/ Breach  PROVE Core' /\ Owners'
  BY GeoParts DEF GeoInv, Core, Owners
<1>1. /\ TypesHold /\ task # <<>> /\ Head(task).stage \in {"item", "answer", "breach"}
      /\ task' = Tail(task) /\ apiTask' = apiTask
      /\ Head(task).stage = "answer" => ~Head(task).ok
      /\ UNCHANGED <<State, dictVars, mSessionIdCounter, mForwardMap>>
  BY DEF Core, unknownItem, AnswerFailed, Breach, Message, clientVars, adapterVars, engineVars,
         State, dictVars
<1>2. [stage |-> "ssr"] \in ApiRequest
  BY DEF ApiRequest, Restarted
<1>3. Core'
  BY <1>1, <1>2, Forwarded DEF isSsr
<1>4. Owners'
  <2>1. inTask = inTask' \cup {Head(task)} /\ inApi' = inApi /\ mGeofences' = mGeofences
    BY <1>1, TaskHead DEF State, inApi
  <2>2. \A c, s : Held(c, s)' => Held(c, s)
    BY <2>1 DEF Held
  <2>. QED
    BY <1>1, <2>2, SameOwners
<1>. QED
  BY <1>3, <1>4

LEMMA ReturnKeeps == GeoInv /\ (AddToCallQueue \/ EngineFails \/ LocSsr) => GeoInv'
<1>. SUFFICES ASSUME Core, Owners, AddToCallQueue \/ EngineFails \/ LocSsr  PROVE Core' /\ Owners'
  BY GeoParts DEF GeoInv, Core, Owners
<1>1. /\ TypesHold /\ apiTask # <<>> /\ apiTask' = Tail(apiTask)
      /\ UNCHANGED <<State, dictVars, mSessionIdCounter, mForwardMap>>
  BY DEF Core, AddToCallQueue, EngineFails, LocSsr, returnToSender, ApiMessage, clientVars,
         adapterVars, engineVars, State, dictVars
<1>2. Head(apiTask) \in ApiRequest /\ Head(apiTask) \in inApi
  BY <1>1, ApiHead
<1>3. PICK m \in TaskMessage :
        /\ task' = Append(task, m)
        /\ \/ /\ isSsr(Head(apiTask)) /\ isSsr(m)
           \/ /\ ~isSsr(Head(apiTask)) /\ ~isSsr(m) /\ m.stage \in {"item", "answer"}
              /\ m.stage = "answer" => ~m.ok
              /\ m.id = Head(apiTask).id /\ m.op = Head(apiTask).op /\ m.client = Head(apiTask).client
              /\ m.stage = "answer" => Head(apiTask).stage = "engine"
  <2>1. CASE AddToCallQueue
    <3>1. Head(apiTask) \in Queued /\ task' = Append(task, [Head(apiTask) EXCEPT !.stage = "item"])
      BY <1>2, <2>1, Kinds DEF AddToCallQueue, ApiMessage
    <3>2. [Head(apiTask) EXCEPT !.stage = "item"] \in Request
      BY <3>1 DEF Queued, Request
    <3>. QED
      BY <3>1, <3>2 DEF Queued, TaskMessage, isSsr
  <2>2. CASE EngineFails
    <3>. DEFINE r == Head(apiTask)
                x == [stage |-> "answer", op |-> r.op, client |-> r.client, id |-> r.id, hw |-> r.hw,
                      mask |-> r.mask, paused |-> r.paused, ok |-> FALSE]
    <3>1. r \in Asked /\ r.stage = "engine" /\ task' = Append(task, x)
      BY <1>2, <2>2, Kinds DEF EngineFails, ApiMessage, returnToSender
    <3>2. x \in Answer
      BY <3>1 DEF Asked, Answer
    <3>. QED
      BY <3>1, <3>2 DEF TaskMessage, isSsr
  <2>3. CASE LocSsr
    BY <2>3 DEF LocSsr, ApiMessage, isSsr, TaskMessage, Restarted
  <2>. QED
    BY <1>1, <2>1, <2>2, <2>3
<1>4. Core'
  BY <1>1, <1>3, Returned
<1>5. Owners'
  <2>1. inApi = inApi' \cup {Head(apiTask)} /\ inTask' = inTask \cup {m} /\ mGeofences' = mGeofences
    BY <1>1, <1>3, ApiHead, TaskPut DEF State
  <2>2. HasId(m) => HasId(Head(apiTask)) /\ m.client = Head(apiTask).client /\ m.id = Head(apiTask).id
    BY <1>2, <1>3, Kinds DEF HasId, isSsr
  <2>3. \A c, s : Held(c, s)' => Held(c, s)
    BY <1>2, <2>1, <2>2 DEF Held
  <2>. QED
    BY <1>1, <2>3, SameOwners
<1>. QED
  BY <1>4, <1>5
------------------------------------------------------------------------------
(* The calls of the clients, and what the engine reports.                  *)

\* Each session a message names is one there is.
LEMMA HeldSession ==
  ASSUME Core
  PROVE  \A c, s : Held(c, s) => s \in Session /\ s <= mSessionIdCounter
<1>1. TypesHold /\ Numbered
  BY DEF Core
<1>2. ASSUME NEW m \in inTask \cup inApi, HasId(m)  PROVE m.id \in Session /\ m.id <= mSessionIdCounter
  <2>1. m \in TaskMessage \/ m \in ApiRequest
    BY <1>1, Elements DEF TypesHold, inTask, inApi
  <2>2. m \in Request \cup Queued \cup Asked \cup Answer
    BY <1>2, <2>1, Kinds DEF HasId
  <2>. QED
    BY <1>1, <1>2, <2>2 DEF Numbered, Request, Queued, Asked, Answer
<1>3. ASSUME NEW hw \in DOMAIN mGeofences
      PROVE  mGeofences[hw].id \in Session /\ mGeofences[hw].id <= mSessionIdCounter
  BY <1>1 DEF TypesHold, Numbered, Item
<1>. QED
  BY <1>2, <1>3 DEF Held

LEMMA SendKeeps ==
  ASSUME Core, NEW op \in Op, NEW c \in Client, NEW f, NEW s \in Session, NEW x \in Options,
         send(op, c, f, s, x), UNCHANGED <<State, apiTask>>,
         mForwardMap' = [b \in Client |-> mForwardMap'[b]],
         mSessionIdCounter' \in 0..MaxSession, mSessionIdCounter <= mSessionIdCounter',
         s <= mSessionIdCounter', op = "add" => mSessionIdCounter < s
  PROVE  /\ Core'
         /\ \A b, t : Held(b, t)' => Held(b, t) \/ (b = c /\ t = s)
<1>. DEFINE m == [stage |-> "command", op |-> op, client |-> c, id |-> s, mask |-> x]
<1>1. m \in TaskMessage /\ task' = Append(task, m)
  <2>1. m \in Request
    BY DEF Request
  <2>. QED
    BY <2>1 DEF TaskMessage, send
<1>2. m.stage = "command" /\ m.op = op /\ m.client = c /\ m.id = s
  OBVIOUS
<1>. HIDE DEF m
<1>3. Core'
  <2>1. op = "restore" => FALSE
    BY DEF Op
  <2>. QED
    BY <1>1, <1>2, <2>1, Posted DEF carries, HasId
<1>4. inTask' = inTask \cup {m} /\ inApi' = inApi /\ mGeofences' = mGeofences
  BY <1>1, TaskPut DEF Core, State, inApi
<1>. QED
  BY <1>2, <1>3, <1>4 DEF Held

\* A fence a client has: its session.
LEMMA OwnSession ==
  ASSUME Core, NEW own, OwnedBy(own), NEW c \in Client, NEW f \in DOMAIN mForwardMap[c]
  PROVE  LET s == mForwardMap[c][f]
         IN /\ s \in Session /\ s <= mSessionIdCounter /\ own[s] = c
            /\ s \in DOMAIN mBackwardMap /\ mBackwardMap[s] = f
            /\ mSessionIdCounter \in 0..MaxSession /\ mSessionIdCounter <= mSessionIdCounter
<1>1. mSessionIdCounter \in 0..MaxSession
  BY DEF Core, TypesHold
<1>. QED
  BY <1>1, GeofenceAssumption DEF OwnedBy, Session

\* A call about a fence that stays.
LEMMA CallKeeps ==
  ASSUME Core, Owners, NEW op \in Op \ {"add"}, NEW c \in Client, NEW f \in DOMAIN mForwardMap[c],
         NEW x \in Options, NEW y, send(op, c, f, mForwardMap[c][f], x),
         UNCHANGED dictVars \/ set(c, f, mForwardMap[c][f], y),
         UNCHANGED <<State, apiTask, mSessionIdCounter>>
  PROVE  Core' /\ Owners'
<1>1. PICK own \in [Session -> Client \cup {None}] : OwnedBy(own)
  BY DEF Owners
<1>. DEFINE s == mForwardMap[c][f]
<1>2. /\ s \in Session /\ s <= mSessionIdCounter /\ own[s] = c
      /\ s \in DOMAIN mBackwardMap /\ mBackwardMap[s] = f
      /\ mSessionIdCounter \in 0..MaxSession /\ mSessionIdCounter <= mSessionIdCounter
  BY <1>1, OwnSession
<1>3. mForwardMap = [b \in Client |-> mForwardMap[b]]
  BY DEF Core, TypesHold
<1>4. /\ mForwardMap' = [b \in Client |-> mForwardMap'[b]]
      /\ \A b \in Client : DOMAIN mForwardMap'[b] = DOMAIN mForwardMap[b]
      /\ \A b \in Client : \A g \in DOMAIN mForwardMap[b] : mForwardMap'[b][g] = mForwardMap[b][g]
      /\ DOMAIN mBackwardMap' = DOMAIN mBackwardMap
      /\ \A t \in DOMAIN mBackwardMap : mBackwardMap'[t] = mBackwardMap[t]
  <2>1. CASE UNCHANGED dictVars
    BY <1>3, <2>1 DEF dictVars
  <2>2. CASE set(c, f, s, y)
    <3>1. /\ mForwardMap' = [b \in Client |-> IF b = c THEN With(mForwardMap[c], f, s) ELSE mForwardMap[b]]
          /\ mBackwardMap' = With(mBackwardMap, s, f)
      BY <1>3, <2>2 DEF set
    <3>2. /\ DOMAIN With(mForwardMap[c], f, s) = DOMAIN mForwardMap[c]
          /\ \A g \in DOMAIN mForwardMap[c] : With(mForwardMap[c], f, s)[g] = mForwardMap[c][g]
      <4>1. /\ DOMAIN With(mForwardMap[c], f, s) = DOMAIN mForwardMap[c] \cup {f}
            /\ With(mForwardMap[c], f, s)[f] = s
            /\ \A g \in DOMAIN mForwardMap[c] : g # f => With(mForwardMap[c], f, s)[g] = mForwardMap[c][g]
        BY DEF With
      <4>. QED
        BY <4>1
    <3>3. /\ DOMAIN With(mBackwardMap, s, f) = DOMAIN mBackwardMap
          /\ \A t \in DOMAIN mBackwardMap : With(mBackwardMap, s, f)[t] = mBackwardMap[t]
      <4>1. /\ DOMAIN With(mBackwardMap, s, f) = DOMAIN mBackwardMap \cup {s}
            /\ With(mBackwardMap, s, f)[s] = f
            /\ \A t \in DOMAIN mBackwardMap : t # s => With(mBackwardMap, s, f)[t] = mBackwardMap[t]
        BY DEF With
      <4>. QED
        BY <1>2, <4>1
    <3>. QED
      BY <3>1, <3>2, <3>3
  <2>. QED
    BY <2>1, <2>2
<1>5. Core' /\ \A b, t : Held(b, t)' => Held(b, t) \/ (b = c /\ t = s)
  <2>1. /\ mForwardMap' = [b \in Client |-> mForwardMap'[b]] /\ s \in Session
        /\ mSessionIdCounter' \in 0..MaxSession /\ mSessionIdCounter <= mSessionIdCounter'
        /\ s <= mSessionIdCounter' /\ op \in Op /\ op # "add"
        /\ send(op, c, f, s, x) /\ UNCHANGED <<State, apiTask>>
    BY <1>2, <1>4
  <2>. HIDE DEF s
  <2>. QED
    BY <2>1, SendKeeps
<1>6. OwnedBy(own)'
  <2>1. /\ \A m \in inTask' \cup inApi' : HasId(m) => m.client = own[m.id]
        /\ \A hw \in DOMAIN mGeofences' : mGeofences'[hw].client = own[mGeofences'[hw].id]
    <3>1. \A b, t : Held(b, t)' => b = own[t]
      <4>1. \A b, t : Held(b, t) => b = own[t]
        BY <1>1 DEF Held, OwnedBy
      <4>. QED
        BY <1>2, <1>5, <4>1
    <3>. QED
      BY <3>1 DEF Held
  <2>2. \A b \in Client : \A g \in DOMAIN mForwardMap[b] :
          /\ mForwardMap[b][g] \in 1..mSessionIdCounter /\ own[mForwardMap[b][g]] = b
          /\ mForwardMap[b][g] \in DOMAIN mBackwardMap /\ mBackwardMap[mForwardMap[b][g]] = g
    BY <1>1 DEF OwnedBy
  <2>3. \A b \in Client : \A g \in DOMAIN mForwardMap'[b] :
          /\ mForwardMap'[b][g] \in 1..mSessionIdCounter' /\ own[mForwardMap'[b][g]] = b
          /\ mForwardMap'[b][g] \in DOMAIN mBackwardMap' /\ mBackwardMap'[mForwardMap'[b][g]] = g
    BY <1>4, <2>2
  <2>4. \A t \in DOMAIN mBackwardMap :
          /\ t \in 1..mSessionIdCounter
          /\ own[t] \in Careful => /\ mBackwardMap[t] \in DOMAIN mForwardMap[own[t]]
                                  /\ mForwardMap[own[t]][mBackwardMap[t]] = t
    BY <1>1 DEF OwnedBy
  <2>5. \A t \in DOMAIN mBackwardMap' :
          /\ t \in 1..mSessionIdCounter'
          /\ own[t] \in Careful => /\ mBackwardMap'[t] \in DOMAIN mForwardMap'[own[t]]
                                  /\ mForwardMap'[own[t]][mBackwardMap'[t]] = t
    BY <1>4, <2>4, GeofenceAssumption
  <2>. QED
    BY <2>1, <2>3, <2>5 DEF OwnedBy
<1>. QED
  BY <1>5, <1>6 DEF Owners

LEMMA RemovalKeeps ==
  ASSUME GeoInv, NEW c \in Client, NEW f, locAPIRemoveGeofences(c, f)
  PROVE  GeoInv'
<1>0. Core /\ Owners
  BY GeoParts
<1>1. PICK own \in [Session -> Client \cup {None}] : OwnedBy(own)
  BY <1>0 DEF Owners
<1>. DEFINE s == mForwardMap[c][f]
<1>2. /\ f \in DOMAIN mForwardMap[c] /\ send("remove", c, f, s, None) /\ rmBySession(c, s)
      /\ UNCHANGED <<State, apiTask, mSessionIdCounter>>
  BY DEF locAPIRemoveGeofences, adapterVars, engineVars, State
<1>3. /\ s \in Session /\ s <= mSessionIdCounter /\ own[s] = c
      /\ s \in DOMAIN mBackwardMap /\ mBackwardMap[s] = f
      /\ mSessionIdCounter \in 0..MaxSession /\ mSessionIdCounter <= mSessionIdCounter
  BY <1>0, <1>1, <1>2, OwnSession
<1>4. mForwardMap = [b \in Client |-> mForwardMap[b]]
  BY <1>0 DEF Core, TypesHold
<1>5. /\ mForwardMap' = [b \in Client |-> IF b = c THEN Without(mForwardMap[c], f) ELSE mForwardMap[b]]
      /\ mBackwardMap' = Without(mBackwardMap, s)
  BY <1>2, <1>3, <1>4 DEF rmBySession
<1>6. /\ DOMAIN mForwardMap'[c] = DOMAIN mForwardMap[c] \ {f}
      /\ \A g \in DOMAIN mForwardMap[c] : g # f => mForwardMap'[c][g] = mForwardMap[c][g]
      /\ \A b \in Client : b # c => mForwardMap'[b] = mForwardMap[b]
      /\ DOMAIN mBackwardMap' = DOMAIN mBackwardMap \ {s}
      /\ \A t \in DOMAIN mBackwardMap : t # s => mBackwardMap'[t] = mBackwardMap[t]
  <2>1. /\ DOMAIN Without(mForwardMap[c], f) = DOMAIN mForwardMap[c] \ {f}
        /\ \A g \in DOMAIN mForwardMap[c] : g # f => Without(mForwardMap[c], f)[g] = mForwardMap[c][g]
    BY Maps
  <2>2. /\ DOMAIN Without(mBackwardMap, s) = DOMAIN mBackwardMap \ {s}
        /\ \A t \in DOMAIN mBackwardMap : t # s => Without(mBackwardMap, s)[t] = mBackwardMap[t]
    BY Maps
  <2>. QED
    BY <1>5, <2>1, <2>2
<1>7. Core' /\ \A b, t : Held(b, t)' => Held(b, t) \/ (b = c /\ t = s)
  <2>1. "remove" \in Op /\ None \in Options /\ "remove" # "add"
    BY DEF Op, Options
  <2>2. mForwardMap' = [b \in Client |-> mForwardMap'[b]]
    BY <1>5
  <2>. QED
    BY <1>0, <1>2, <1>3, <2>1, <2>2, SendKeeps
<1>8. OwnedBy(own)'
  <2>1. /\ \A m \in inTask' \cup inApi' : HasId(m) => m.client = own[m.id]
        /\ \A hw \in DOMAIN mGeofences' : mGeofences'[hw].client = own[mGeofences'[hw].id]
    <3>1. \A b, t : Held(b, t)' => b = own[t]
      <4>1. \A b, t : Held(b, t) => b = own[t]
        BY <1>1 DEF Held, OwnedBy
      <4>. QED
        BY <1>3, <1>7, <4>1
    <3>. QED
      BY <3>1 DEF Held
  <2>2. ASSUME NEW b \in Client, NEW g \in DOMAIN mForwardMap'[b]
        PROVE  /\ mForwardMap'[b][g] \in 1..mSessionIdCounter' /\ own[mForwardMap'[b][g]] = b
               /\ mForwardMap'[b][g] \in DOMAIN mBackwardMap' /\ mBackwardMap'[mForwardMap'[b][g]] = g
    <3>1. g \in DOMAIN mForwardMap[b] /\ mForwardMap'[b][g] = mForwardMap[b][g] /\ ~(b = c /\ g = f)
      BY <1>6, <2>2
    <3>2. /\ mForwardMap[b][g] \in 1..mSessionIdCounter /\ own[mForwardMap[b][g]] = b
          /\ mForwardMap[b][g] \in DOMAIN mBackwardMap /\ mBackwardMap[mForwardMap[b][g]] = g
      BY <1>1, <3>1 DEF OwnedBy
    <3>3. mForwardMap[b][g] # s
      BY <1>3, <3>1, <3>2
    <3>. QED
      BY <1>2, <1>6, <3>1, <3>2, <3>3
  <2>3. ASSUME NEW t \in DOMAIN mBackwardMap'
        PROVE  /\ t \in 1..mSessionIdCounter'
               /\ own[t] \in Careful => /\ mBackwardMap'[t] \in DOMAIN mForwardMap'[own[t]]
                                       /\ mForwardMap'[own[t]][mBackwardMap'[t]] = t
    <3>1. t \in DOMAIN mBackwardMap /\ t # s /\ mBackwardMap'[t] = mBackwardMap[t]
      BY <1>6
    <3>2. /\ t \in 1..mSessionIdCounter
          /\ own[t] \in Careful => /\ mBackwardMap[t] \in DOMAIN mForwardMap[own[t]]
                                  /\ mForwardMap[own[t]][mBackwardMap[t]] = t
      BY <1>1, <3>1 DEF OwnedBy
    <3>3. ASSUME own[t] \in Careful
          PROVE  /\ mBackwardMap'[t] \in DOMAIN mForwardMap'[own[t]]
                 /\ mForwardMap'[own[t]][mBackwardMap'[t]] = t
      <4>1. own[t] \in Client
        BY <3>3, GeofenceAssumption
      <4>2. ~(own[t] = c /\ mBackwardMap[t] = f)
        BY <3>1, <3>2, <3>3
      <4>. QED
        BY <1>6, <3>1, <3>2, <3>3, <4>1, <4>2
    <3>. QED
      BY <1>2, <3>2, <3>3
  <2>. QED
    BY <2>1, <2>2, <2>3 DEF OwnedBy
<1>. QED
  BY <1>7, <1>8, GeoParts DEF Owners, GeoInv, Core

LEMMA AdditionKeeps ==
  ASSUME GeoInv, NEW c \in Client, NEW f, NEW x \in Mask, locAPIAddGeofences(c, f, x)
  PROVE  GeoInv'
<1>0. Core /\ Owners
  BY GeoParts
<1>1. PICK own \in [Session -> Client \cup {None}] : OwnedBy(own)
  BY <1>0 DEF Owners
<1>. DEFINE s == mSessionIdCounter + 1
<1>2. /\ s \in Session /\ send("add", c, f, s, x) /\ set(c, f, s, x) /\ mSessionIdCounter' = s
      /\ c \in Careful => f \notin DOMAIN mForwardMap[c]
      /\ UNCHANGED <<State, apiTask>>
  BY DEF locAPIAddGeofences, adapterVars, engineVars, State
<1>3. mSessionIdCounter \in Nat /\ mForwardMap = [b \in Client |-> mForwardMap[b]]
  BY <1>0 DEF Core, TypesHold
<1>4. PICK its \in [Session -> Client \cup {None}] : its[s] = c /\ \A t \in Session : t # s => its[t] = own[t]
  <2>1. /\ [own EXCEPT ![s] = c] \in [Session -> Client \cup {None}] /\ [own EXCEPT ![s] = c][s] = c
        /\ \A t \in Session : t # s => [own EXCEPT ![s] = c][t] = own[t]
    BY <1>2
  <2>. QED
    BY <2>1
<1>5. /\ mForwardMap' = [b \in Client |-> IF b = c THEN With(mForwardMap[c], f, s) ELSE mForwardMap[b]]
      /\ mBackwardMap' = With(mBackwardMap, s, f)
  BY <1>2, <1>3 DEF set
<1>6. /\ DOMAIN mForwardMap'[c] = DOMAIN mForwardMap[c] \cup {f} /\ mForwardMap'[c][f] = s
      /\ \A g \in DOMAIN mForwardMap[c] : g # f => mForwardMap'[c][g] = mForwardMap[c][g]
      /\ \A b \in Client : b # c => mForwardMap'[b] = mForwardMap[b]
      /\ DOMAIN mBackwardMap' = DOMAIN mBackwardMap \cup {s} /\ mBackwardMap'[s] = f
      /\ \A t \in DOMAIN mBackwardMap : t # s => mBackwardMap'[t] = mBackwardMap[t]
  <2>1. /\ DOMAIN With(mForwardMap[c], f, s) = DOMAIN mForwardMap[c] \cup {f}
        /\ With(mForwardMap[c], f, s)[f] = s
        /\ \A g \in DOMAIN mForwardMap[c] : g # f => With(mForwardMap[c], f, s)[g] = mForwardMap[c][g]
    BY DEF With
  <2>2. /\ DOMAIN With(mBackwardMap, s, f) = DOMAIN mBackwardMap \cup {s}
        /\ With(mBackwardMap, s, f)[s] = f
        /\ \A t \in DOMAIN mBackwardMap : t # s => With(mBackwardMap, s, f)[t] = mBackwardMap[t]
    BY DEF With
  <2>. QED
    BY <1>5, <2>1, <2>2
<1>7. Core' /\ \A b, t : Held(b, t)' => Held(b, t) \/ (b = c /\ t = s)
  <2>1. "add" \in Op /\ x \in Options /\ mSessionIdCounter' \in 0..MaxSession
        /\ mSessionIdCounter <= mSessionIdCounter' /\ s <= mSessionIdCounter' /\ mSessionIdCounter < s
    BY <1>2, <1>3, GeofenceAssumption DEF Op, Options, Session
  <2>2. mForwardMap' = [b \in Client |-> mForwardMap'[b]]
    BY <1>5
  <2>. QED
    BY <1>0, <1>2, <2>1, <2>2, SendKeeps
<1>8. OwnedBy(its)'
  <2>1. /\ \A m \in inTask' \cup inApi' : HasId(m) => m.client = its[m.id]
        /\ \A hw \in DOMAIN mGeofences' : mGeofences'[hw].client = its[mGeofences'[hw].id]
    <3>1. \A b, t : Held(b, t)' => b = its[t]
      <4>1. \A b, t : Held(b, t) => b = own[t]
        BY <1>1 DEF Held, OwnedBy
      <4>2. \A b, t : Held(b, t) => t \in Session /\ t # s
        <5>1. \A b, t : Held(b, t) => t \in Session /\ t <= mSessionIdCounter
          BY <1>0, HeldSession
        <5>. QED
          BY <1>3, <5>1
      <4>. QED
        BY <1>4, <1>7, <4>1, <4>2
    <3>. QED
      BY <3>1 DEF Held
  <2>2. ASSUME NEW b \in Client, NEW g \in DOMAIN mForwardMap'[b]
        PROVE  /\ mForwardMap'[b][g] \in 1..mSessionIdCounter' /\ its[mForwardMap'[b][g]] = b
               /\ mForwardMap'[b][g] \in DOMAIN mBackwardMap' /\ mBackwardMap'[mForwardMap'[b][g]] = g
    <3>1. CASE b = c /\ g = f
      BY <1>2, <1>3, <1>4, <1>6, <3>1
    <3>2. CASE ~(b = c /\ g = f)
      <4>1. g \in DOMAIN mForwardMap[b] /\ mForwardMap'[b][g] = mForwardMap[b][g]
        BY <1>6, <2>2, <3>2
      <4>2. /\ mForwardMap[b][g] \in 1..mSessionIdCounter /\ own[mForwardMap[b][g]] = b
            /\ mForwardMap[b][g] \in DOMAIN mBackwardMap /\ mBackwardMap[mForwardMap[b][g]] = g
        BY <1>1, <4>1 DEF OwnedBy
      <4>3. mForwardMap[b][g] # s /\ mForwardMap[b][g] \in Session
            /\ mForwardMap[b][g] \in 1..mSessionIdCounter'
        BY <1>2, <1>3, <4>2, GeofenceAssumption DEF Session
      <4>. QED
        BY <1>4, <1>6, <4>1, <4>2, <4>3
    <3>. QED
      BY <3>1, <3>2
  <2>3. ASSUME NEW t \in DOMAIN mBackwardMap'
        PROVE  /\ t \in 1..mSessionIdCounter'
               /\ its[t] \in Careful => /\ mBackwardMap'[t] \in DOMAIN mForwardMap'[its[t]]
                                       /\ mForwardMap'[its[t]][mBackwardMap'[t]] = t
    <3>1. CASE t = s
      BY <1>2, <1>3, <1>4, <1>6, <3>1
    <3>2. CASE t # s
      <4>1. t \in DOMAIN mBackwardMap /\ mBackwardMap'[t] = mBackwardMap[t]
        BY <1>6, <3>2
      <4>2. /\ t \in 1..mSessionIdCounter
            /\ own[t] \in Careful => /\ mBackwardMap[t] \in DOMAIN mForwardMap[own[t]]
                                    /\ mForwardMap[own[t]][mBackwardMap[t]] = t
        BY <1>1, <4>1 DEF OwnedBy
      <4>3. t \in Session /\ t \in 1..mSessionIdCounter' /\ its[t] = own[t]
        BY <1>2, <1>3, <1>4, <3>2, <4>2, GeofenceAssumption DEF Session
      <4>4. ASSUME own[t] \in Careful
            PROVE  /\ mBackwardMap'[t] \in DOMAIN mForwardMap'[own[t]]
                   /\ mForwardMap'[own[t]][mBackwardMap'[t]] = t
        <5>1. own[t] \in Client
          BY <4>4, GeofenceAssumption
        <5>2. ~(own[t] = c /\ mBackwardMap[t] = f)
          BY <1>2, <4>2, <4>4
        <5>. QED
          BY <1>6, <4>1, <4>2, <4>4, <5>1, <5>2
      <4>. QED
        BY <4>3, <4>4
    <3>. QED
      BY <3>1, <3>2
  <2>. QED
    BY <2>1, <2>2, <2>3 DEF OwnedBy
<1>. QED
  BY <1>4, <1>7, <1>8, GeoParts DEF Owners, GeoInv, Core

LEMMA CallsKeep == GeoInv /\ Calls => GeoInv'
<1>. SUFFICES ASSUME GeoInv, Calls  PROVE GeoInv'
  OBVIOUS
<1>0. Core /\ Owners
  BY GeoParts
<1>1. PICK c \in Client :
        \/ destroy(c)
        \/ \E f \in Fence[c] :
            \/ locAPIRemoveGeofences(c, f)
            \/ locAPIPauseGeofences(c, f)
            \/ \E m \in Mask : \/ locAPIAddGeofences(c, f, m)
                               \/ locAPIModifyGeofences(c, f, m)
                               \/ locAPIResumeGeofences(c, f, m)
  BY DEF Calls
<1>2. ASSUME destroy(c)  PROVE GeoInv'
  <2>. DEFINE m == [stage |-> "removeClient", client |-> c]
  <2>1. /\ TypesHold /\ task' = Append(task, m) /\ m \in TaskMessage /\ m.stage = "removeClient"
        /\ UNCHANGED <<State, apiTask, dictVars, mSessionIdCounter>>
    BY <1>0, <1>2 DEF Core, destroy, adapterVars, engineVars, State, TaskMessage, Removal
  <2>. HIDE DEF m
  <2>2. /\ mForwardMap' = [b \in Client |-> mForwardMap'[b]] /\ mSessionIdCounter' \in 0..MaxSession
        /\ mSessionIdCounter <= mSessionIdCounter'
    BY <2>1 DEF TypesHold, dictVars
  <2>3. ~HasId(m) /\ ~carries(m)
    BY <2>1 DEF HasId, carries
  <2>4. Core'
    BY <1>0, <2>1, <2>2, <2>3, Posted
  <2>5. \A b, s : Held(b, s)' => Held(b, s)
    <3>1. inTask' = inTask \cup {m} /\ inApi' = inApi /\ mGeofences' = mGeofences
      BY <2>1, TaskPut DEF State, inApi
    <3>. QED
      BY <2>3, <3>1 DEF Held
  <2>6. Owners'
    BY <1>0, <2>1, <2>5, SameOwners
  <2>. QED
    BY <2>4, <2>6, GeoParts DEF Owners, GeoInv, Core
<1>3. ASSUME NEW f, locAPIPauseGeofences(c, f)  PROVE GeoInv'
  <2>1. /\ f \in DOMAIN mForwardMap[c] /\ send("pause", c, f, mForwardMap[c][f], None)
        /\ "pause" \in Op \ {"add"} /\ None \in Options
        /\ UNCHANGED dictVars /\ UNCHANGED <<State, apiTask, mSessionIdCounter>>
    BY <1>3 DEF locAPIPauseGeofences, adapterVars, engineVars, State, Op, Options
  <2>2. Core' /\ Owners'
    BY <1>0, <2>1, CallKeeps
  <2>. QED
    BY <2>2, GeoParts DEF Owners, GeoInv, Core
<1>4. ASSUME NEW f, NEW m \in Mask, locAPIModifyGeofences(c, f, m)  PROVE GeoInv'
  <2>1. /\ f \in DOMAIN mForwardMap[c] /\ send("modify", c, f, mForwardMap[c][f], m)
        /\ "modify" \in Op \ {"add"} /\ m \in Options
        /\ set(c, f, mForwardMap[c][f], m) /\ UNCHANGED <<State, apiTask, mSessionIdCounter>>
    BY <1>4 DEF locAPIModifyGeofences, adapterVars, engineVars, State, Op, Options
  <2>2. Core' /\ Owners'
    BY <1>0, <2>1, CallKeeps
  <2>. QED
    BY <2>2, GeoParts DEF Owners, GeoInv, Core
<1>5. ASSUME NEW f, NEW m \in Mask, locAPIResumeGeofences(c, f, m)  PROVE GeoInv'
  <2>1. /\ f \in DOMAIN mForwardMap[c] /\ send("resume", c, f, mForwardMap[c][f], None)
        /\ "resume" \in Op \ {"add"} /\ None \in Options
        /\ set(c, f, mForwardMap[c][f], m) /\ UNCHANGED <<State, apiTask, mSessionIdCounter>>
    BY <1>5 DEF locAPIResumeGeofences, adapterVars, engineVars, State, Op, Options
  <2>2. Core' /\ Owners'
    BY <1>0, <2>1, CallKeeps
  <2>. QED
    BY <2>2, GeoParts DEF Owners, GeoInv, Core
<1>. QED
  BY <1>1, <1>2, <1>3, <1>4, <1>5, RemovalKeeps, AdditionKeeps

\* What the adapter, or else an answer of success on its way, says of a number of the engine.
LEMMA Known ==
  ASSUME Core, NEW hw \in DOMAIN engine
  PROVE  /\ hw \in DOMAIN mGeofences => mGeofences[hw].id = engine[hw].id
         /\ \A n \in inTask : Gives(n, hw) => n.id = engine[hw].id
<1>1. /\ HwIds /\ task \in Seq(TaskMessage)
      /\ Tells(task, hw, "id", engine[hw].id, hw \in DOMAIN mGeofences, mGeofences[hw].id)
  BY DEF Core, Agrees, TypesHold
<1>2. \A i \in DOMAIN task : /\ task[i] \in inTask
                             /\ Sets(task[i], hw, "id") <=> Gives(task[i], hw)
                             /\ value(task[i], "id") = task[i].id
  BY <1>1, Elements DEF inTask, Sets, Gives, setters, value
<1>3. \A n \in inTask : \E i \in DOMAIN task : n = task[i]
  BY <1>1, Elements DEF inTask
<1>4. CASE Latest(task, hw, "id", engine[hw].id)
  <2>1. PICK i \in DOMAIN task : Gives(task[i], hw) /\ task[i].id = engine[hw].id
    BY <1>2, <1>4 DEF Latest
  <2>. QED
    BY <1>1, <1>2, <2>1 DEF HwIds
<1>5. CASE Unset(task, hw, "id") /\ hw \in DOMAIN mGeofences /\ mGeofences[hw].id = engine[hw].id
  BY <1>2, <1>3, <1>5 DEF Unset
<1>. QED
  BY <1>1, <1>4, <1>5 DEF Tells

LEMMA ReportKeeps ==
  ASSUME GeoInv, NEW hw, EngineReportsBreach(hw)
  PROVE  GeoInv'
<1>0. Core /\ Owners /\ TypesHold /\ HwIds /\ Restart
  BY GeoParts DEF Core
<1>. DEFINE m == [stage |-> "breach", hw |-> hw, id |-> engine[hw].id, mask |-> engine[hw].mask]
<1>1. /\ hw \in DOMAIN engine /\ task' = Append(task, m)
      /\ UNCHANGED <<State, apiTask, dictVars, mSessionIdCounter>>
  BY DEF EngineReportsBreach, clientVars, adapterVars, engineVars, State
<1>2. m \in TaskMessage
  <2>1. engine[hw] \in Watch /\ hw \in Nat
    BY <1>0, <1>1 DEF TypesHold
  <2>2. m \in Reported
    BY <2>1 DEF Watch, Reported
  <2>. QED
    BY <2>2 DEF TaskMessage
<1>3. m.stage = "breach" /\ m.hw = hw /\ m.id = engine[hw].id
  OBVIOUS
<1>. HIDE DEF m
<1>4. /\ mForwardMap' = [b \in Client |-> mForwardMap'[b]] /\ mSessionIdCounter' \in 0..MaxSession
      /\ mSessionIdCounter <= mSessionIdCounter'
  BY <1>0, <1>1 DEF TypesHold, dictVars
<1>5. ~HasId(m) /\ ~carries(m)
  BY <1>3 DEF HasId, carries
<1>6. ~Restarting /\ hw <= lastHwId
  BY <1>0, <1>1 DEF Restart, Fresh, HwIds
<1>7. Core'
  BY <1>0, <1>1, <1>2, <1>3, <1>4, <1>5, <1>6, Known, Posted
<1>8. \A b, s : Held(b, s)' => Held(b, s)
  <2>1. inTask' = inTask \cup {m} /\ inApi' = inApi /\ mGeofences' = mGeofences
    BY <1>0, <1>1, <1>2, TaskPut DEF State, inApi
  <2>. QED
    BY <1>5, <2>1 DEF Held
<1>9. Owners'
  BY <1>0, <1>1, <1>8, SameOwners
<1>. QED
  BY <1>7, <1>9, GeoParts DEF Owners, GeoInv, Core
------------------------------------------------------------------------------
(* What the engine does.                                                   *)

\* The answer to a request of the engine's.
answerTo(r, hw) ==
  [stage |-> "answer", op |-> r.op, client |-> r.client, id |-> r.id, hw |-> hw,
   mask |-> r.mask, paused |-> r.paused, ok |-> TRUE]

\* A request that the engine answers with success, whatever it did.
LEMMA AnsweredRest ==
  ASSUME GeoInv, ApiMessage("engine"), NEW hw \in Nat, ~Restarting,
         apiTask' = Tail(apiTask), task' = Append(task, answerTo(Head(apiTask), hw)),
         UNCHANGED <<clientVars, adapterVars, restarts>>
  PROVE  LET r == Head(apiTask)
             m == answerTo(r, hw)
         IN /\ r \in Asked /\ r \in inApi /\ r = apiTask[1] /\ 1 \in DOMAIN apiTask
            /\ m \in TaskMessage /\ task' \in Seq(TaskMessage) /\ apiTask' \in Seq(ApiRequest)
            /\ inTask' = inTask \cup {m} /\ inApi = inApi' \cup {r}
            /\ ~Restarting' /\ Restart' /\ OnePlace' /\ Numbered' /\ Inverses' /\ NotRestored'
            /\ Owners'
<1>1. /\ TypesHold /\ Restart /\ OnePlace /\ Numbered /\ Inverses /\ NotRestored /\ Owners
      /\ apiTask # <<>> /\ Head(apiTask).stage = "engine"
  BY DEF GeoInv, ApiMessage
<1>2. /\ mGeofences' = mGeofences /\ mGeofenceIds' = mGeofenceIds /\ mClientData' = mClientData
      /\ mSessionIdCounter' = mSessionIdCounter /\ UNCHANGED dictVars /\ restarts' = restarts
  BY DEF clientVars, adapterVars
<1>3. task \in Seq(TaskMessage) /\ apiTask \in Seq(ApiRequest)
  BY <1>1 DEF TypesHold
<1>. DEFINE r == Head(apiTask)
            m == answerTo(r, hw)
<1>4. /\ r \in Asked /\ r \in inApi /\ r = apiTask[1] /\ 1 \in DOMAIN apiTask
      /\ inApi = inApi' \cup {r} /\ apiTask' \in Seq(ApiRequest)
  BY <1>1, <1>3, ApiHead, Kinds, Pulled
<1>5. m \in TaskMessage /\ ~isSsr(m)
  <2>1. m \in Answer
    BY <1>4 DEF Asked, Answer, answerTo
  <2>. QED
    BY <2>1 DEF TaskMessage, Answer, isSsr
<1>6. m.stage = "answer" /\ m.op = r.op /\ m.id = r.id /\ m.client = r.client
  BY DEF answerTo
<1>7. task' = Append(task, m)
  OBVIOUS
<1>. HIDE DEF m
<1>8. inTask' = inTask \cup {m} /\ task' \in Seq(TaskMessage)
  BY <1>1, <1>3, <1>5, <1>7, TaskPut, Pushed
<1>9. ~Restarting' /\ Restart'
  <2>1. \A x \in inTask' \cup inApi' : ~isSsr(x)
    BY <1>4, <1>5, <1>8 DEF Restarting
  <2>2. /\ \A i \in DOMAIN task' : task'[i] \in inTask'
        /\ \A i \in DOMAIN apiTask' : apiTask'[i] \in inApi'
    <3>1. \A i \in DOMAIN task' : task'[i] \in inTask'
      BY <1>8, Elements DEF inTask
    <3>2. \A i \in DOMAIN apiTask' : apiTask'[i] \in inApi'
      BY <1>4, Elements DEF inApi
    <3>. QED
      BY <3>1, <3>2
  <2>3. ~Restarting'
    BY <2>1 DEF Restarting
  <2>. QED
    BY <2>1, <2>2, <2>3 DEF Restart
<1>10. carries(m) => carries(r) /\ m.id = r.id
  BY <1>1, <1>6 DEF carries
<1>11. OnePlace'
  <2>1. savedIds' = savedIds
    BY <1>2 DEF savedIds
  <2>2. Distinct(apiTask, task, savedIds)
    BY <1>1, DistinctSwapped DEF OnePlace
  <2>3. Distinct(apiTask', task', savedIds)
    BY ONLY <1>1, <1>3, <1>5, <1>7, <1>10, <2>2, DistinctMoved, apiTask' = Tail(apiTask)
  <2>. QED
    BY <1>1, <1>2, <2>1, <2>3, DistinctSwapped DEF OnePlace
<1>12. HasId(r) /\ HasId(m)
  BY <1>1, <1>6 DEF HasId
<1>13. Numbered'
  BY <1>1, <1>2, <1>4, <1>6, <1>8, <1>12 DEF Numbered
<1>14. Inverses'
  BY <1>1, <1>2 DEF Inverses, keyOf
<1>15. NotRestored'
  BY <1>1, <1>2, <1>4, <1>6, <1>8 DEF NotRestored
<1>16. Owners'
  <2>1. \A c, s : Held(c, s)' => Held(c, s)
    BY <1>2, <1>4, <1>6, <1>8, <1>12 DEF Held
  <2>. QED
    BY <1>1, <1>2, <2>1, SameOwners
<1>. QED
  BY <1>4, <1>5, <1>8, <1>9, <1>11, <1>13, <1>14, <1>15, <1>16 DEF m

\* While requests to add reach the engine no restart is to be learnt of, nor while it has fences.
LEMMA AddingIsUp ==
  ASSUME GeoInv, ApiMessage("engine"), Head(apiTask).op \in {"add", "restore"}
  PROVE  ~Restarting
<1>1. Head(apiTask) \in inApi /\ toEngineOp(Head(apiTask), {"add", "restore"})
  BY ApiHead DEF GeoInv, ApiMessage, toEngineOp
<1>. QED
  BY <1>1 DEF GeoInv, Restart, Fresh

LEMMA EngineAddsKeeps == GeoInv /\ EngineAdds => GeoInv'
<1>. SUFFICES ASSUME GeoInv, EngineAdds  PROVE GeoInv'
  OBVIOUS
<1>1. /\ TypesHold /\ Restart /\ HwIds /\ Agrees /\ Removed /\ Kept /\ Leaving /\ Breaches
  BY DEF GeoInv
<1>. DEFINE r == Head(apiTask)
            hw == lastHwId + 1
            m == answerTo(r, hw)
            e == [id |-> r.id, mask |-> r.mask, paused |-> FALSE]
<1>2. /\ ApiMessage("engine") /\ r.op \in {"add", "restore"} /\ lastHwId' = hw
      /\ apiTask' = Tail(apiTask) /\ task' = Append(task, m) /\ engine' = With(engine, hw, e)
      /\ UNCHANGED <<clientVars, adapterVars, restarts>>
  BY DEF EngineAdds, returnToSender, answerTo
<1>3. /\ mGeofences' = mGeofences /\ mGeofenceIds' = mGeofenceIds /\ mClientData' = mClientData
      /\ mSessionIdCounter' = mSessionIdCounter /\ mForwardMap' = mForwardMap /\ restarts' = restarts
  BY <1>2 DEF clientVars, adapterVars, dictVars
<1>4. /\ task \in Seq(TaskMessage) /\ apiTask \in Seq(ApiRequest) /\ lastHwId \in Nat /\ hw \in Nat
      /\ hw > lastHwId /\ apiTask # <<>>
  BY <1>1, <1>2 DEF TypesHold, ApiMessage
<1>5. ~Restarting
  BY <1>2, AddingIsUp
<1>6. /\ r \in Asked /\ r \in inApi /\ r = apiTask[1] /\ 1 \in DOMAIN apiTask
      /\ m \in TaskMessage /\ task' \in Seq(TaskMessage) /\ apiTask' \in Seq(ApiRequest)
      /\ inTask' = inTask \cup {m} /\ inApi = inApi' \cup {r}
      /\ ~Restarting' /\ Restart' /\ OnePlace' /\ Numbered' /\ Inverses' /\ NotRestored'
      /\ Owners'
  <2>. HIDE DEF hw
  <2>. QED
    BY <1>2, <1>4, <1>5, AnsweredRest
<1>7. /\ m.stage = "answer" /\ m.op = r.op /\ m.id = r.id /\ m.hw = hw /\ m.mask = r.mask /\ m.ok
      /\ Gives(m, hw) /\ \A x : Ok(m, x) => x = hw
      /\ \A x : ~Takes(m, x)
  BY <1>2 DEF answerTo, Gives, Takes, Ok
<1>8. /\ DOMAIN engine' = DOMAIN engine \cup {hw} /\ engine'[hw] = e
      /\ \A x \in DOMAIN engine : x # hw => engine'[x] = engine[x]
      /\ engine' = [x \in DOMAIN engine' |-> engine'[x]]
  BY <1>2 DEF With
<1>9. e \in Watch /\ e.id = m.id /\ e.mask = m.mask /\ e.paused = FALSE
  BY <1>6, <1>7 DEF Asked, Watch
<1>. HIDE DEF m, e, hw
<1>10. TypesHold'
  <2>1. engine' \in [DOMAIN engine' -> Watch] /\ DOMAIN engine' \subseteq Nat
    BY <1>1, <1>4, <1>8, <1>9 DEF TypesHold
  <2>. QED
    BY <1>1, <1>2, <1>3, <1>4, <1>6, <2>1 DEF TypesHold
<1>11. HwIds'
  <2>1. \A x \in DOMAIN engine' : 1 <= x /\ x <= lastHwId'
    <3>1. \A x \in DOMAIN engine : x \in Nat /\ 1 <= x /\ x <= lastHwId
      BY <1>1 DEF HwIds, TypesHold
    <3>. QED
      BY <1>2, <1>4, <1>8, <3>1
  <2>2. \A x \in DOMAIN mGeofences' : x <= lastHwId' /\ x # hw
    <3>1. \A x \in DOMAIN mGeofences : x \in Nat /\ x <= lastHwId
      BY <1>1, <1>5 DEF HwIds, TypesHold
    <3>. QED
      BY <1>2, <1>3, <1>4, <3>1
  <2>3. \A x \in inTask : /\ x.stage = "answer" /\ x.ok => x.hw \in Nat /\ x.hw <= lastHwId
                          /\ x.stage = "breach" => x.hw \in Nat /\ x.hw <= lastHwId
    <3>1. \A x \in inTask : x \in TaskMessage
      BY <1>4, Elements DEF inTask
    <3>. QED
      BY <1>1, <3>1, Kinds DEF HwIds, Answer, Reported
  <2>4. \A x \in inTask' : /\ x.stage = "answer" /\ x.ok => x.hw <= lastHwId'
                           /\ x.stage = "breach" => x.hw <= lastHwId'
    BY <1>2, <1>4, <1>6, <1>7, <2>3
  <2>5. ASSUME NEW x \in inTask', NEW n \in inTask', NEW h, Gives(x, h)
        PROVE  h \in DOMAIN engine' /\ h \notin DOMAIN mGeofences' /\ (Gives(n, h) => x = n)
    <3>1. \A z \in inTask : ~Gives(z, hw)
      BY <1>4, <2>3 DEF Gives, Ok
    <3>2. CASE x = m
      <4>1. h = hw
        BY <1>7, <2>5, <3>2 DEF Gives
      <4>. QED
        BY <1>6, <1>8, <2>2, <3>1, <3>2, <4>1
    <3>3. CASE x # m
      <4>1. x \in inTask /\ h # hw
        BY <1>6, <2>5, <3>1, <3>3
      <4>2. ~Gives(m, h)
        BY <1>7, <4>1 DEF Gives
      <4>. QED
        BY <1>1, <1>3, <1>6, <1>8, <2>5, <4>1, <4>2 DEF HwIds
    <3>. QED
      BY <3>2, <3>3
  <2>. QED
    BY <2>1, <2>2, <2>4, <2>5 DEF HwIds
<1>12. ~(hw \in DOMAIN engine) /\ \A x \in DOMAIN engine : x \in Nat /\ x <= lastHwId
  BY <1>1, <1>4 DEF HwIds, TypesHold
<1>13. Agrees'
  <2>1. ASSUME NEW x \in DOMAIN engine', x # hw
        PROVE  LET known == x \in DOMAIN mGeofences
               IN /\ Tells(task', x, "id", engine'[x].id, known, mGeofences[x].id)
                  /\ Tells(task', x, "mask", engine'[x].mask, known, mGeofences[x].mask)
                  /\ restarts = 0 => Tells(task', x, "paused", engine'[x].paused, known, mGeofences[x].paused)
    <3>1. x \in DOMAIN engine /\ engine'[x] = engine[x]
      BY <1>8, <2>1
    <3>2. \A field : ~Sets(m, x, field)
      BY <1>7, <2>1 DEF Sets
    <3>. QED
      BY <1>1, <1>2, <1>4, <1>6, <3>1, <3>2, TellsPushed DEF Agrees
  <2>2. \A field \in Field : Sets(m, hw, field)
    BY <1>7 DEF Gives, Sets, setters, Field
  <2>3. \A known, w, field : field \in Field => Tells(task', hw, field, value(m, field), known, w)
    BY <1>2, <1>4, <1>6, <2>2, TellsAnswered
  <2>4. value(m, "id") = e.id /\ value(m, "mask") = e.mask /\ value(m, "paused") = e.paused
    BY <1>2, <1>7, <1>9 DEF value
  <2>5. \A known, w : /\ Tells(task', hw, "id", e.id, known, w)
                      /\ Tells(task', hw, "mask", e.mask, known, w)
                      /\ Tells(task', hw, "paused", e.paused, known, w)
    BY <2>3, <2>4 DEF Field
  <2>. QED
    BY <1>3, <1>8, <2>1, <2>5 DEF Agrees
<1>14. Removed'
  <2>1. ASSUME NEW x \in inTask', NEW h, Takes(x, h)  PROVE h \notin DOMAIN engine'
    <3>1. x \in inTask
      BY <1>6, <1>7, <2>1
    <3>2. h \notin DOMAIN engine /\ h <= lastHwId
      BY <1>1, <2>1, <3>1 DEF Removed, HwIds, Takes, Ok
    <3>. QED
      BY <1>4, <1>8, <3>2 DEF hw
  <2>. QED
    BY <2>1 DEF Removed
<1>15. Kept'
  BY <1>1, <1>3, <1>5, <1>6, <1>8 DEF Kept
<1>16. Leaving'
  <2>1. ASSUME NEW x, Unsaved(x), x.hw \in Nat
        PROVE  /\ x.hw <= lastHwId' /\ \A n \in inTask' : ~Gives(n, x.hw)
               /\ x.op = "drop" => \A k \in DOMAIN mGeofenceIds' : mGeofenceIds'[k] # x.hw
    <3>1. x.hw # hw /\ x.hw <= lastHwId'
      BY <1>2, <1>4, <2>1 DEF Unsaved, hw
    <3>2. ~Gives(m, x.hw)
      BY <1>7, <3>1 DEF Gives
    <3>. QED
      BY <1>3, <1>6, <2>1, <3>1, <3>2 DEF Unsaved
  <2>2. ASSUME NEW i \in DOMAIN apiTask', toEngineOp(apiTask'[i], {"remove", "drop"})
        PROVE  /\ apiTask'[i].hw <= lastHwId' /\ \A n \in inTask' : ~Gives(n, apiTask'[i].hw)
               /\ apiTask'[i].op = "drop" => \A k \in DOMAIN mGeofenceIds' : mGeofenceIds'[k] # apiTask'[i].hw
    <3>1. i + 1 \in DOMAIN apiTask /\ apiTask'[i] = apiTask[i + 1]
      BY <1>2, <1>4, Pulled
    <3>2. ~Stale(apiTask, i + 1)
      <4>1. toEngineOp(Head(apiTask), {"add", "restore"})
        BY <1>2 DEF toEngineOp, ApiMessage
      <4>. QED
        BY <1>2, <1>4, <4>1, StalePulled
    <3>3. Unsaved(apiTask[i + 1])
      BY <1>1, <2>2, <3>1, <3>2 DEF Leaving
    <3>4. apiTask[i + 1].hw \in Nat
      BY <1>4, <2>2, <3>1, Elements, Kinds DEF toEngineOp, Asked
    <3>. QED
      BY <2>1, <3>1, <3>3, <3>4
  <2>3. ASSUME NEW x \in inTask', x.stage = "answer", x.op = "drop", x.ok
        PROVE  /\ x.hw <= lastHwId' /\ \A n \in inTask' : ~Gives(n, x.hw)
               /\ x.op = "drop" => \A k \in DOMAIN mGeofenceIds' : mGeofenceIds'[k] # x.hw
    <3>1. x \in inTask
      BY <1>2, <1>6, <1>7, <2>3
    <3>2. x.hw \in Nat
      BY <1>4, <2>3, <3>1, Elements, Kinds DEF inTask, Answer
    <3>. QED
      BY <1>1, <2>1, <2>3, <3>1, <3>2 DEF Leaving
  <2>. QED
    BY <2>2, <2>3 DEF Leaving, Unsaved
<1>17. Breaches'
  <2>1. ASSUME NEW x \in inTask', x.stage = "breach"
        PROVE  /\ x.hw \in DOMAIN mGeofences' => mGeofences'[x.hw].id = x.id
               /\ \A n \in inTask' : Gives(n, x.hw) => n.id = x.id
    <3>1. x \in inTask /\ x.hw <= lastHwId
      BY <1>1, <1>6, <1>7, <2>1 DEF HwIds
    <3>2. ~Gives(m, x.hw)
      <4>1. x.hw # hw
        BY <1>4, <3>1 DEF hw
      <4>. QED
        BY <1>7, <4>1 DEF Gives
    <3>. QED
      BY <1>1, <1>3, <1>6, <2>1, <3>1, <3>2 DEF Breaches
  <2>. QED
    BY <2>1 DEF Breaches
<1>. QED
  BY <1>6, <1>10, <1>11, <1>13, <1>14, <1>15, <1>16, <1>17 DEF GeoInv

LEMMA EngineChangesKeeps == GeoInv /\ EngineChanges => GeoInv'
<1>. SUFFICES ASSUME GeoInv, EngineChanges  PROVE GeoInv'
  OBVIOUS
<1>1. /\ TypesHold /\ Restart /\ HwIds /\ Agrees /\ NotRestored /\ Removed /\ Kept /\ Leaving /\ Breaches
  BY DEF GeoInv
<1>. DEFINE r == Head(apiTask)
            hw == r.hw
            m == answerTo(r, hw)
<1>2. /\ ApiMessage("engine") /\ hw \in DOMAIN engine /\ lastHwId' = lastHwId
      /\ apiTask' = Tail(apiTask) /\ task' = Append(task, m)
      /\ UNCHANGED <<clientVars, adapterVars, restarts>>
      /\ \/ r.op \in {"remove", "drop"} /\ engine' = Without(engine, hw)
         \/ r.op \in {"pause", "repause"}
            /\ engine' = [engine EXCEPT ![hw] = [@ EXCEPT !.paused = TRUE]]
         \/ r.op = "resume"
            /\ engine' = [engine EXCEPT ![hw] = [@ EXCEPT !.paused = FALSE]]
         \/ r.op = "modify"
            /\ engine' = [engine EXCEPT ![hw] = [@ EXCEPT !.mask = r.mask]]
  BY DEF EngineChanges, returnToSender, answerTo
<1>3. /\ mGeofences' = mGeofences /\ mGeofenceIds' = mGeofenceIds /\ mClientData' = mClientData
      /\ mSessionIdCounter' = mSessionIdCounter /\ mForwardMap' = mForwardMap /\ restarts' = restarts
  BY <1>2 DEF clientVars, adapterVars, dictVars
<1>4. /\ task \in Seq(TaskMessage) /\ apiTask \in Seq(ApiRequest) /\ lastHwId \in Nat /\ hw \in Nat
      /\ 1 <= hw /\ hw <= lastHwId /\ lastHwId # 0 /\ apiTask # <<>>
  <2>1. hw \in Nat /\ lastHwId \in Nat /\ 1 <= hw /\ hw <= lastHwId
    BY <1>1, <1>2 DEF TypesHold, HwIds
  <2>. QED
    BY <1>1, <1>2, <2>1 DEF TypesHold, ApiMessage
<1>5. ~Restarting
  BY <1>1, <1>2 DEF Restart, Fresh
<1>6. /\ r \in Asked /\ r \in inApi /\ r = apiTask[1] /\ 1 \in DOMAIN apiTask
      /\ m \in TaskMessage /\ task' \in Seq(TaskMessage) /\ apiTask' \in Seq(ApiRequest)
      /\ inTask' = inTask \cup {m} /\ inApi = inApi' \cup {r}
      /\ ~Restarting' /\ Restart' /\ OnePlace' /\ Numbered' /\ Inverses' /\ NotRestored'
      /\ Owners'
  <2>. HIDE DEF hw
  <2>. QED
    BY <1>2, <1>4, <1>5, AnsweredRest
<1>7. /\ m.stage = "answer" /\ m.op = r.op /\ m.id = r.id /\ m.hw = hw /\ m.mask = r.mask /\ m.ok
      /\ Ok(m, hw) /\ \A x : Ok(m, x) => x = hw
      /\ \A x : ~Gives(m, x)
      /\ r.op \in {"remove", "drop"} => Takes(m, hw)
      /\ r.op \notin {"remove", "drop"} => \A x : ~Takes(m, x)
  BY <1>2 DEF answerTo, Gives, Takes, Ok
<1>8. r.op \in {"remove", "drop"} => Unsaved(r)
  <2>1. toEngineOp(apiTask[1], {"remove", "drop"}) => Unsaved(apiTask[1])
    BY <1>1, <1>4, <1>6 DEF Leaving
  <2>. QED
    BY <1>2, <1>6, <2>1 DEF toEngineOp, ApiMessage
<1>. HIDE DEF m
<1>9. /\ engine \in [DOMAIN engine -> Watch] /\ DOMAIN engine \subseteq Nat /\ engine[hw] \in Watch
      /\ r.mask \in Options
  BY <1>1, <1>2, <1>6 DEF TypesHold, Asked
<1>10. /\ DOMAIN engine' = IF r.op \in {"remove", "drop"} THEN DOMAIN engine \ {hw} ELSE DOMAIN engine
       /\ engine' \in [DOMAIN engine' -> Watch]
       /\ \A x \in DOMAIN engine' : x # hw => engine'[x] = engine[x]
       /\ hw \in DOMAIN engine' =>
            /\ r.op \in {"pause", "repause", "resume", "modify"}
            /\ engine'[hw].id = engine[hw].id
            /\ engine'[hw].mask = IF r.op = "modify" THEN r.mask ELSE engine[hw].mask
            /\ r.op \in {"pause", "repause"} => engine'[hw].paused = TRUE
            /\ r.op = "resume" => engine'[hw].paused = FALSE
            /\ r.op = "modify" => engine'[hw].paused = engine[hw].paused
  <2>1. CASE r.op \in {"remove", "drop"} /\ engine' = Without(engine, hw)
    BY <1>9, <2>1 DEF Without, Restrict
  <2>2. CASE r.op \in {"pause", "repause"} /\ engine' = [engine EXCEPT ![hw] = [@ EXCEPT !.paused = TRUE]]
    <3>1. [engine[hw] EXCEPT !.paused = TRUE] \in Watch
      BY <1>9 DEF Watch
    <3>. QED
      BY <1>2, <1>9, <2>2, <3>1 DEF Watch
  <2>3. CASE r.op = "resume" /\ engine' = [engine EXCEPT ![hw] = [@ EXCEPT !.paused = FALSE]]
    <3>1. [engine[hw] EXCEPT !.paused = FALSE] \in Watch
      BY <1>9 DEF Watch
    <3>. QED
      BY <1>2, <1>9, <2>3, <3>1 DEF Watch
  <2>4. CASE r.op = "modify" /\ engine' = [engine EXCEPT ![hw] = [@ EXCEPT !.mask = r.mask]]
    <3>1. [engine[hw] EXCEPT !.mask = r.mask] \in Watch
      BY <1>9 DEF Watch
    <3>. QED
      BY <1>2, <1>9, <2>4, <3>1 DEF Watch
  <2>. QED
    BY <1>2, <2>1, <2>2, <2>3, <2>4
<1>. HIDE DEF hw, r
<1>11. TypesHold'
  BY <1>1, <1>2, <1>3, <1>6, <1>9, <1>10 DEF TypesHold
<1>12. \A x, n : Gives(n, x) => (n \in inTask' <=> n \in inTask)
  BY <1>6, <1>7
<1>13. HwIds'
  <2>1. \A x \in inTask' : /\ x.stage = "answer" /\ x.ok => x.hw <= lastHwId'
                           /\ x.stage = "breach" => x.hw <= lastHwId'
    BY <1>1, <1>2, <1>4, <1>6, <1>7 DEF HwIds
  <2>2. ASSUME NEW x \in inTask', NEW n \in inTask', NEW h, Gives(x, h)
        PROVE  h \in DOMAIN engine' /\ h \notin DOMAIN mGeofences' /\ (Gives(n, h) => x = n)
    <3>1. x \in inTask /\ h \in DOMAIN engine /\ h \notin DOMAIN mGeofences
          /\ (Gives(n, h) => n \in inTask)
      BY <1>1, <1>12, <2>2 DEF HwIds
    <3>2. r.op \in {"remove", "drop"} => h # hw
      BY <1>8, <2>2, <3>1 DEF Unsaved, hw
    <3>. QED
      BY <1>1, <1>3, <1>10, <2>2, <3>1, <3>2 DEF HwIds
  <2>3. \A x \in DOMAIN engine' : 1 <= x /\ x <= lastHwId'
    BY <1>1, <1>2, <1>10 DEF HwIds
  <2>. QED
    BY <1>1, <1>2, <1>3, <1>5, <2>1, <2>2, <2>3 DEF HwIds
<1>14. Agrees'
  <2>1. ASSUME NEW x \in DOMAIN engine', x # hw
        PROVE  LET known == x \in DOMAIN mGeofences
               IN /\ Tells(task', x, "id", engine'[x].id, known, mGeofences[x].id)
                  /\ Tells(task', x, "mask", engine'[x].mask, known, mGeofences[x].mask)
                  /\ restarts = 0 => Tells(task', x, "paused", engine'[x].paused, known, mGeofences[x].paused)
    <3>1. x \in DOMAIN engine /\ engine'[x] = engine[x]
      BY <1>10, <2>1
    <3>2. \A field : ~Sets(m, x, field)
      BY <1>7, <2>1 DEF Sets
    <3>. QED
      BY <1>1, <1>2, <1>4, <1>6, <3>1, <3>2, TellsPushed DEF Agrees
  <2>2. ASSUME hw \in DOMAIN engine'
        PROVE  LET known == hw \in DOMAIN mGeofences
               IN /\ Tells(task', hw, "id", engine'[hw].id, known, mGeofences[hw].id)
                  /\ Tells(task', hw, "mask", engine'[hw].mask, known, mGeofences[hw].mask)
                  /\ restarts = 0 => Tells(task', hw, "paused", engine'[hw].paused, known, mGeofences[hw].paused)
    <3>. DEFINE known == hw \in DOMAIN mGeofences
    <3>1. /\ r.op \in {"pause", "repause", "resume", "modify"} /\ engine'[hw].id = engine[hw].id
          /\ engine'[hw].mask = IF r.op = "modify" THEN r.mask ELSE engine[hw].mask
          /\ r.op \in {"pause", "repause"} => engine'[hw].paused = TRUE
          /\ r.op = "resume" => engine'[hw].paused = FALSE
          /\ r.op = "modify" => engine'[hw].paused = engine[hw].paused
      BY <1>10, <2>2
    <3>2. /\ ~Sets(m, hw, "id")
          /\ IF r.op = "modify" THEN Sets(m, hw, "mask") ELSE ~Sets(m, hw, "mask")
          /\ IF r.op = "modify" THEN ~Sets(m, hw, "paused") ELSE Sets(m, hw, "paused")
      BY <1>7, <3>1 DEF Sets, setters
    <3>3. /\ Tells(task, hw, "id", engine[hw].id, known, mGeofences[hw].id)
          /\ Tells(task, hw, "mask", engine[hw].mask, known, mGeofences[hw].mask)
          /\ restarts = 0 => Tells(task, hw, "paused", engine[hw].paused, known, mGeofences[hw].paused)
      BY <1>1, <1>2 DEF Agrees
    <3>. HIDE DEF known
    <3>4. \A w, field : Sets(m, hw, field) => Tells(task', hw, field, value(m, field), known, w)
      BY <1>2, <1>4, <1>6, TellsAnswered
    <3>5. \A v, w, field : ~Sets(m, hw, field) /\ Tells(task, hw, field, v, known, w)
                           => Tells(task', hw, field, v, known, w)
      BY <1>2, <1>4, <1>6, TellsPushed
    <3>6. Tells(task', hw, "id", engine'[hw].id, known, mGeofences[hw].id)
      BY <3>1, <3>2, <3>3, <3>5
    <3>7. Tells(task', hw, "mask", engine'[hw].mask, known, mGeofences[hw].mask)
      <4>1. value(m, "mask") = r.mask
        BY <1>7 DEF value
      <4>2. CASE r.op = "modify"
        <5>1. engine'[hw].mask = value(m, "mask") /\ Sets(m, hw, "mask")
          BY <3>1, <3>2, <4>1, <4>2
        <5>. QED
          BY <3>4, <5>1
      <4>3. CASE r.op # "modify"
        <5>1. engine'[hw].mask = engine[hw].mask /\ ~Sets(m, hw, "mask")
          BY <3>1, <3>2, <4>3
        <5>. QED
          BY <3>3, <3>5, <5>1
      <4>. QED
        BY <4>2, <4>3
    <3>8. ASSUME restarts = 0
          PROVE  Tells(task', hw, "paused", engine'[hw].paused, known, mGeofences[hw].paused)
      <4>1. value(m, "paused") = (r.op = "pause") /\ r.op # "repause"
        <5>1. r.stage = "engine"
          BY <1>2 DEF ApiMessage, r
        <5>. QED
          BY <1>1, <1>6, <1>7, <3>8, <5>1 DEF NotRestored, value
      <4>2. CASE r.op = "modify"
        <5>1. engine'[hw].paused = engine[hw].paused /\ ~Sets(m, hw, "paused")
          BY <3>1, <3>2, <4>2
        <5>. QED
          BY <3>3, <3>5, <3>8, <5>1
      <4>3. CASE r.op # "modify"
        <5>1. engine'[hw].paused = value(m, "paused") /\ Sets(m, hw, "paused")
          BY <3>1, <3>2, <4>1, <4>3
        <5>. QED
          BY <3>4, <5>1
      <4>. QED
        BY <4>2, <4>3
    <3>. QED
      BY <3>6, <3>7, <3>8 DEF known
  <2>. QED
    BY <1>3, <2>1, <2>2 DEF Agrees
<1>15. Removed'
  <2>1. ASSUME NEW x \in inTask', NEW h, Takes(x, h)  PROVE h \notin DOMAIN engine'
    <3>1. CASE x \in inTask
      BY <1>1, <1>10, <2>1, <3>1 DEF Removed
    <3>2. CASE x = m
      <4>1. h = hw /\ r.op \in {"remove", "drop"}
        BY <1>7, <2>1, <3>2 DEF Takes
      <4>. QED
        BY <1>10, <4>1
    <3>. QED
      BY <1>6, <3>1, <3>2
  <2>. QED
    BY <2>1 DEF Removed
<1>16. Kept'
  <2>1. ASSUME NEW x \in DOMAIN mGeofences', mGeofences'[x].client \in mClientData'
        PROVE  x \in DOMAIN engine' \/ \E n \in inTask' : Takes(n, x)
    <3>1. x \in DOMAIN engine \/ \E n \in inTask : Takes(n, x)
      BY <1>1, <1>3, <1>5, <2>1 DEF Kept
    <3>. QED
      BY <1>6, <1>7, <1>10, <3>1
  <2>. QED
    BY <2>1 DEF Kept
<1>17. Leaving'
  <2>1. \A x : Unsaved(x) =>
          /\ x.hw <= lastHwId' /\ \A n \in inTask' : ~Gives(n, x.hw)
          /\ x.op = "drop" => \A k \in DOMAIN mGeofenceIds' : mGeofenceIds'[k] # x.hw
    BY <1>2, <1>3, <1>12 DEF Unsaved
  <2>2. ASSUME NEW i \in DOMAIN apiTask', toEngineOp(apiTask'[i], {"remove", "drop"})
        PROVE  /\ apiTask'[i].hw <= lastHwId' /\ \A n \in inTask' : ~Gives(n, apiTask'[i].hw)
               /\ apiTask'[i].op = "drop" => \A k \in DOMAIN mGeofenceIds' : mGeofenceIds'[k] # apiTask'[i].hw
    <3>1. i + 1 \in DOMAIN apiTask /\ apiTask'[i] = apiTask[i + 1]
      BY <1>2, <1>4, Pulled
    <3>2. Unsaved(apiTask[i + 1])
      BY <1>1, <1>4, <2>2, <3>1 DEF Leaving
    <3>. QED
      BY <2>1, <3>1, <3>2
  <2>3. ASSUME NEW x \in inTask', x.stage = "answer", x.op = "drop", x.ok
        PROVE  /\ x.hw <= lastHwId' /\ \A n \in inTask' : ~Gives(n, x.hw)
               /\ x.op = "drop" => \A k \in DOMAIN mGeofenceIds' : mGeofenceIds'[k] # x.hw
    <3>1. CASE x \in inTask
      BY <1>1, <2>1, <2>3, <3>1 DEF Leaving
    <3>2. CASE x = m
      <4>1. Unsaved(r) /\ x.hw = r.hw /\ x.op = r.op
        BY <1>7, <1>8, <2>3, <3>2 DEF hw
      <4>. QED
        BY <2>1, <4>1
    <3>. QED
      BY <1>6, <3>1, <3>2
  <2>. QED
    BY <2>2, <2>3 DEF Leaving, Unsaved
<1>18. Breaches'
  BY <1>1, <1>3, <1>6, <1>7, <1>12 DEF Breaches
<1>. QED
  BY <1>6, <1>11, <1>13, <1>14, <1>15, <1>16, <1>17, <1>18 DEF GeoInv

LEMMA ModemRestartsKeeps ==
  ASSUME ~crossed', GeoInv, ModemRestarts
  PROVE  GeoInv'
<1>1. TypesHold /\ OnePlace /\ Numbered /\ Inverses /\ Owners
  BY DEF GeoInv
<1>. DEFINE m == [stage |-> "ssr"]
<1>2. /\ restarts' = restarts + 1 /\ engine' = Empty /\ lastHwId' = 0
      /\ apiTask' = Append(apiTask, m) /\ task' = task
      /\ UNCHANGED <<clientVars, adapterVars>>
  BY DEF ModemRestarts
<1>20. ~(InFlight > 0)
  BY Zenon DEF ModemRestarts
<1>3. /\ mGeofences' = mGeofences /\ mGeofenceIds' = mGeofenceIds /\ mClientData' = mClientData
      /\ mSessionIdCounter' = mSessionIdCounter /\ mForwardMap' = mForwardMap /\ UNCHANGED dictVars
  BY <1>2 DEF clientVars, adapterVars, dictVars
<1>4. task = <<>> /\ apiTask = <<>> /\ task \in Seq(TaskMessage) /\ apiTask \in Seq(ApiRequest)
  <2>1. task \in Seq(TaskMessage) /\ apiTask \in Seq(ApiRequest)
    BY <1>1 DEF TypesHold
  <2>2. Len(task) \in Nat /\ Len(apiTask) \in Nat /\ ~(Len(task) + Len(apiTask) > 0)
    BY <1>20, <2>1 DEF InFlight
  <2>3. Len(task) = 0 /\ Len(apiTask) = 0
    BY <2>2
  <2>. QED
    BY <2>1, <2>3
<1>5. m \in ApiRequest /\ isSsr(m) /\ m.stage = "ssr"
  BY DEF ApiRequest, Restarted, isSsr
<1>. HIDE DEF m
<1>6. /\ apiTask' = <<m>> /\ DOMAIN apiTask' = {1} /\ apiTask'[1] = m /\ apiTask' \in Seq(ApiRequest)
      /\ DOMAIN task' = {} /\ inTask' = {} /\ inApi' = {m}
  <2>1. apiTask' = <<m>> /\ DOMAIN apiTask' = {1} /\ apiTask'[1] = m /\ DOMAIN task' = {}
        /\ apiTask' \in Seq(ApiRequest)
    BY <1>2, <1>4, <1>5
  <2>. QED
    BY <2>1 DEF inTask, inApi, ToSet
<1>7. DOMAIN engine' = {} /\ engine' \in [DOMAIN engine' -> Watch]
  BY <1>2 DEF Empty
<1>8. TypesHold'
  BY <1>1, <1>2, <1>3, <1>4, <1>6, <1>7 DEF TypesHold
<1>9. Restart' /\ Restarting'
  <2>1. Restarting'
    BY <1>5, <1>6 DEF Restarting
  <2>2. Fresh' /\ restarts' # 0
    BY <1>1, <1>2, <1>5, <1>6, <1>7 DEF Fresh, TypesHold, toEngineOp
  <2>. QED
    BY <1>6, <2>1, <2>2 DEF Restart
<1>10. OnePlace'
  <2>1. ~carries(m)
    BY <1>5 DEF carries
  <2>. QED
    BY <1>1, <1>3, <1>6, <2>1 DEF OnePlace, Distinct
<1>11. ~HasId(m)
  BY <1>5 DEF HasId
<1>12. Numbered' /\ HwIds' /\ Inverses' /\ Agrees' /\ NotRestored' /\ Removed' /\ Kept'
  <2>1. Numbered'
    BY <1>1, <1>3, <1>6, <1>11 DEF Numbered
  <2>2. HwIds'
    BY <1>6, <1>7, <1>9 DEF HwIds
  <2>3. Inverses'
    BY <1>1, <1>3 DEF Inverses, keyOf
  <2>4. Agrees'
    BY <1>7 DEF Agrees
  <2>5. NotRestored' /\ Removed' /\ Kept'
    BY <1>5, <1>6, <1>9 DEF NotRestored, Removed, Kept
  <2>. QED
    BY <2>1, <2>2, <2>3, <2>4, <2>5
<1>13. Leaving' /\ Breaches'
  BY <1>5, <1>6 DEF Leaving, Breaches, toEngineOp
<1>14. Owners'
  <2>1. \A c, s : Held(c, s)' => Held(c, s)
    BY <1>3, <1>6, <1>11 DEF Held
  <2>. QED
    BY <1>1, <1>3, <2>1, SameOwners
<1>. QED
  BY <1>8, <1>9, <1>10, <1>12, <1>13, <1>14 DEF GeoInv
------------------------------------------------------------------------------
(* Answers of success.                                                     *)

\* What is the same whatever was answered.
Answered(r) ==
  /\ r = Head(task) /\ r \in Answer /\ r.ok /\ r.stage = "answer" /\ r \in inTask /\ Ok(r, r.hw) /\ r.hw \in Nat
  /\ task # <<>> /\ task' = Tail(task) /\ inTask = inTask' \cup {r}
  /\ task \in Seq(TaskMessage) /\ apiTask \in Seq(ApiRequest)
  /\ task' \in Seq(TaskMessage) /\ apiTask' \in Seq(ApiRequest)
  /\ engine' = engine /\ lastHwId' = lastHwId /\ restarts' = restarts /\ mClientData' = mClientData
  /\ mForwardMap' = mForwardMap /\ mSessionIdCounter' = mSessionIdCounter /\ UNCHANGED dictVars
  /\ ~Restarting /\ ~Restarting' /\ Restart'
  /\ r.op = "repause" => restarts # 0

LEMMA AnswerTaken ==
  ASSUME GeoInv, AnswerOk
  PROVE  LET r == Head(task)
             p == toEngine("repause", r.client, r.id, r.hw, None, FALSE)
         IN /\ Answered(r) /\ applied(r) /\ NotRestored'
            /\ apiTask' = IF r.op = "restore" /\ r.paused THEN Append(apiTask, p) ELSE apiTask
            /\ p \in ApiRequest /\ p.stage = "engine" /\ p.op = "repause" /\ p.client = r.client /\ p.id = r.id
<1>1. TypesHold /\ Restart /\ NotRestored
  BY DEF GeoInv
<1>. DEFINE r == Head(task)
            p == toEngine("repause", r.client, r.id, r.hw, None, FALSE)
<1>2. /\ task # <<>> /\ r.stage = "answer" /\ r.ok /\ task' = Tail(task) /\ applied(r)
      /\ apiTask' = IF r.op = "restore" /\ r.paused THEN Append(apiTask, p) ELSE apiTask
      /\ UNCHANGED <<clientVars, mClientData, engineVars>>
  BY DEF AnswerOk, Message
<1>3. /\ r \in Answer /\ r \in inTask /\ inTask = inTask' \cup {r}
      /\ task \in Seq(TaskMessage) /\ apiTask \in Seq(ApiRequest) /\ task' \in Seq(TaskMessage)
  BY <1>1, <1>2, TaskHead, Kinds, Pulled DEF TypesHold
<1>4. p \in ApiRequest /\ p.stage = "engine" /\ p.op = "repause" /\ p.client = r.client /\ p.id = r.id
  <2>1. p \in Asked
    BY <1>3 DEF Answer, Asked, toEngine, Options, EngineOp
  <2>. QED
    BY <2>1 DEF ApiRequest, toEngine
<1>5. r.hw \in Nat /\ Ok(r, r.hw)
  BY <1>2, <1>3 DEF Answer, Ok
<1>. HIDE DEF p
<1>6. apiTask' \in Seq(ApiRequest) /\ (inApi' = inApi \/ (r.op = "restore" /\ inApi' = inApi \cup {p}))
  <2>1. CASE r.op = "restore" /\ r.paused
    BY <1>1, <1>2, <1>3, <1>4, <2>1, ApiPut, Pushed
  <2>2. CASE ~(r.op = "restore" /\ r.paused)
    BY <1>2, <1>3, <2>2 DEF inApi
  <2>. QED
    BY <2>1, <2>2
<1>7. ~Restarting
  BY <1>1, <1>2, <1>3 DEF Restart, Fresh
<1>8. ~Restarting' /\ Restart'
  <2>1. \A x \in inTask' \cup inApi' : ~isSsr(x)
    BY <1>3, <1>4, <1>6, <1>7 DEF Restarting, isSsr
  <2>2. \A i \in DOMAIN task' : task'[i] \in inTask'
    BY <1>3, Elements DEF inTask
  <2>3. \A i \in DOMAIN apiTask' : apiTask'[i] \in inApi'
    BY <1>6, Elements DEF inApi
  <2>4. ~Restarting'
    BY <2>1 DEF Restarting
  <2>. QED
    BY <2>1, <2>2, <2>3, <2>4 DEF Restart
<1>9. NotRestored' /\ (r.op = "repause" => restarts # 0)
  BY <1>1, <1>2, <1>3, <1>6 DEF NotRestored, engineVars
<1>10. Answered(r)
  BY <1>2, <1>3, <1>5, <1>6, <1>7, <1>8, <1>9 DEF Answered, clientVars, engineVars, dictVars
<1>. QED
  BY <1>2, <1>4, <1>9, <1>10 DEF p

\* What is told of a fence once the answer is taken.
LEMMA ToldOnce ==
  ASSUME NEW r, Answered(r), NEW hw, NEW field, NEW v, NEW known, NEW w, NEW now, NEW x,
         Tells(task, hw, field, v, known, w),
         ~Sets(r, hw, field) => (known => now /\ x = w),
         Sets(r, hw, field) => (now /\ x = value(r, field)) \/ ~Unset(Tail(task), hw, field)
  PROVE  Tells(task', hw, field, v, now, x)
BY TellsPulled DEF Answered

LEMMA SaidAsBefore ==
  ASSUME NEW r, Answered(r), Agrees, NEW hw \in DOMAIN engine, \A field : ~Sets(r, hw, field),
         hw \in DOMAIN mGeofences => hw \in DOMAIN mGeofences' /\ mGeofences'[hw] = mGeofences[hw]
  PROVE  LET known == hw \in DOMAIN mGeofences'
         IN /\ Tells(task', hw, "id", engine[hw].id, known, mGeofences'[hw].id)
            /\ Tells(task', hw, "mask", engine[hw].mask, known, mGeofences'[hw].mask)
            /\ restarts = 0 => Tells(task', hw, "paused", engine[hw].paused, known, mGeofences'[hw].paused)
<1>. DEFINE known == hw \in DOMAIN mGeofences
            now == hw \in DOMAIN mGeofences'
<1>1. known => now /\ mGeofences'[hw] = mGeofences[hw]
  OBVIOUS
<1>2. /\ Tells(task, hw, "id", engine[hw].id, known, mGeofences[hw].id)
      /\ Tells(task, hw, "mask", engine[hw].mask, known, mGeofences[hw].mask)
      /\ restarts = 0 => Tells(task, hw, "paused", engine[hw].paused, known, mGeofences[hw].paused)
  BY DEF Agrees
<1>. HIDE DEF known, now
<1>3. ASSUME NEW field, NEW v, NEW w, NEW x, Tells(task, hw, field, v, known, w), known => x = w
      PROVE  Tells(task', hw, field, v, now, x)
  BY <1>1, <1>3, ToldOnce
<1>4. /\ Tells(task', hw, "id", engine[hw].id, now, mGeofences'[hw].id)
      /\ Tells(task', hw, "mask", engine[hw].mask, now, mGeofences'[hw].mask)
      /\ restarts = 0 => Tells(task', hw, "paused", engine[hw].paused, now, mGeofences'[hw].paused)
  BY <1>1, <1>2, <1>3
<1>. QED
  BY <1>4 DEF now

\* The fence is saved: its number was given to it alone.
LEMMA AdditionAnswered ==
  ASSUME GeoInv, AnswerOk, Head(task).op \in {"add", "restore"}
  PROVE  GeoInv'
<1>1. /\ TypesHold /\ OnePlace /\ Numbered /\ HwIds /\ Inverses /\ Agrees /\ Removed
      /\ Kept /\ Leaving /\ Breaches /\ Owners
  BY DEF GeoInv
<1>. DEFINE r == Head(task)
            hw == r.hw
            k == <<r.client, r.id>>
            e == [client |-> r.client, id |-> r.id, mask |-> r.mask, paused |-> FALSE]
            p == toEngine("repause", r.client, r.id, r.hw, None, FALSE)
<1>2. /\ Answered(r) /\ applied(r) /\ NotRestored'
      /\ apiTask' = IF r.op = "restore" /\ r.paused THEN Append(apiTask, p) ELSE apiTask
      /\ p \in ApiRequest /\ p.stage = "engine" /\ p.op = "repause" /\ p.client = r.client /\ p.id = r.id
  BY AnswerTaken
<1>3. /\ mGeofences' = With(mGeofences, hw, e) /\ mGeofenceIds' = With(mGeofenceIds, k, hw)
  BY <1>2 DEF applied, saveGeofenceItem
<1>4. /\ hw \in DOMAIN engine /\ hw \notin DOMAIN mGeofences /\ Gives(r, hw) /\ carries(r)
      /\ 1 <= hw /\ hw <= lastHwId /\ lastHwId \in Nat /\ lastHwId # 0 /\ hw \in Nat
  <2>1. Gives(r, hw) /\ carries(r) /\ r \in inTask /\ hw \in Nat /\ lastHwId \in Nat
    BY <1>1, <1>2 DEF Answered, Gives, carries, TypesHold
  <2>2. hw \in DOMAIN engine /\ hw \notin DOMAIN mGeofences
    BY <1>1, <2>1 DEF HwIds
  <2>3. 1 <= hw /\ hw <= lastHwId
    BY <1>1, <2>2 DEF HwIds
  <2>. QED
    BY <2>1, <2>2, <2>3
<1>5. e \in Item /\ e.client = r.client /\ e.id = r.id /\ e.mask = r.mask /\ e.paused = FALSE
      /\ k \in Client \X Session
  BY <1>2 DEF Answered, Answer, Item
<1>. HIDE DEF p, e
<1>6. /\ DOMAIN mGeofences' = DOMAIN mGeofences \cup {hw} /\ mGeofences'[hw] = e
      /\ \A x \in DOMAIN mGeofences : x # hw => mGeofences'[x] = mGeofences[x]
      /\ mGeofences' = [x \in DOMAIN mGeofences' |-> mGeofences'[x]]
  BY <1>3 DEF With
<1>7. /\ DOMAIN mGeofenceIds' = DOMAIN mGeofenceIds \cup {k} /\ mGeofenceIds'[k] = hw
      /\ \A x \in DOMAIN mGeofenceIds : x # k => mGeofenceIds'[x] = mGeofenceIds[x]
      /\ mGeofenceIds' = [x \in DOMAIN mGeofenceIds' |-> mGeofenceIds'[x]]
  <2>. HIDE DEF k, hw
  <2>. QED
    BY <1>3 DEF With
<1>8. /\ Distinct(task', apiTask, savedIds \cup {r.id}) /\ r.id \notin savedIds
      /\ \A x \in inTask' : carries(x) => x.id # r.id
  <2>1. Distinct(task, apiTask, savedIds) /\ task # <<>> /\ task \in Seq(TaskMessage) /\ task' = Tail(task)
    BY <1>1, <1>2 DEF OnePlace, Answered
  <2>2. \A x \in savedIds \cup {r.id} : x \in savedIds \/ (carries(Head(task)) /\ x = Head(task).id)
    BY <1>4
  <2>. QED
    BY <1>4, <2>1, <2>2, DistinctPulled DEF inTask
<1>9. \A x \in DOMAIN mGeofences : mGeofences[x].id # r.id /\ keyOf(x) # k
  BY <1>8 DEF savedIds, keyOf
<1>10. k \notin DOMAIN mGeofenceIds
  BY <1>1, <1>9 DEF Inverses
<1>11. TypesHold'
  <2>1. IsFiniteSet(DOMAIN mGeofences') /\ DOMAIN mGeofences' \subseteq Nat
    <3>1. \A S, x : IsFiniteSet(S) => IsFiniteSet(S \cup {x})
      BY FS_AddElement
    <3>2. IsFiniteSet(DOMAIN mGeofences) /\ DOMAIN mGeofences \subseteq Nat
      BY <1>1 DEF TypesHold
    <3>3. DOMAIN mGeofences' = DOMAIN mGeofences \cup {hw} /\ hw \in Nat
      BY <1>4, <1>6
    <3>. HIDE DEF hw
    <3>. QED
      BY ONLY <3>1, <3>2, <3>3
  <2>2. mGeofences' \in [DOMAIN mGeofences' -> Item]
    BY <1>1, <1>5, <1>6 DEF TypesHold
  <2>3. mGeofenceIds' \in [DOMAIN mGeofenceIds' -> Nat] /\ DOMAIN mGeofenceIds' \subseteq Client \X Session
    <3>. HIDE DEF k, hw
    <3>. QED
      BY <1>1, <1>4, <1>5, <1>7 DEF TypesHold
  <2>4. /\ task' \in Seq(TaskMessage) /\ apiTask' \in Seq(ApiRequest)
        /\ engine' = engine /\ lastHwId' = lastHwId /\ restarts' = restarts /\ mClientData' = mClientData
        /\ mForwardMap' = mForwardMap /\ mSessionIdCounter' = mSessionIdCounter
    BY <1>2 DEF Answered
  <2>. QED
    BY <1>1, <2>1, <2>2, <2>3, <2>4 DEF TypesHold
<1>12. /\ ~carries(p)
       /\ \A i \in DOMAIN apiTask : i \in DOMAIN apiTask' /\ apiTask'[i] = apiTask[i]
       /\ \A i \in DOMAIN apiTask' : i \in DOMAIN apiTask \/ apiTask'[i] = p
       /\ inApi' = inApi \/ inApi' = inApi \cup {p}
  <2>1. ~carries(p)
    BY <1>2 DEF carries
  <2>2. CASE r.op = "restore" /\ r.paused
    BY <1>2, <2>1, <2>2, Pushed DEF Answered, inApi
  <2>3. CASE ~(r.op = "restore" /\ r.paused)
    BY <1>2, <2>1, <2>3 DEF inApi
  <2>. QED
    BY <2>2, <2>3
<1>13. OnePlace'
  <2>1. savedIds' = savedIds \cup {r.id}
    BY <1>4, <1>5, <1>6 DEF savedIds
  <2>2. Distinct(task', apiTask', savedIds \cup {r.id})
    BY <1>8, <1>12 DEF Distinct
  <2>3. \A x, y \in DOMAIN mGeofences' : mGeofences'[x].id = mGeofences'[y].id => x = y
    BY <1>1, <1>4, <1>5, <1>6, <1>9 DEF OnePlace
  <2>. QED
    BY <2>1, <2>2, <2>3 DEF OnePlace
<1>14. HasId(r) /\ HasId(p) /\ r \in inTask /\ inTask = inTask' \cup {r}
  BY <1>2 DEF HasId, Answered
<1>15. Numbered'
  BY <1>1, <1>2, <1>4, <1>5, <1>6, <1>12, <1>14 DEF Numbered, Answered
<1>16. \A n \in inTask' : ~Gives(n, hw)
  BY <1>1, <1>2, <1>4, <1>8, <1>14 DEF HwIds, Gives, Ok, carries
<1>17. HwIds'
  BY <1>1, <1>2, <1>4, <1>6, <1>14, <1>16 DEF HwIds, Answered
<1>18. Inverses'
  <2>1. ASSUME NEW x \in DOMAIN mGeofences', mGeofences'[x].client \in mClientData'
        PROVE  LET key == <<mGeofences'[x].client, mGeofences'[x].id>>
               IN key \in DOMAIN mGeofenceIds' /\ mGeofenceIds'[key] = x
    <3>1. CASE x = hw
      BY <1>5, <1>6, <1>7, <3>1
    <3>2. CASE x # hw
      <4>1. x \in DOMAIN mGeofences /\ mGeofences'[x] = mGeofences[x] /\ mGeofences[x].client \in mClientData
        BY <1>2, <1>6, <2>1, <3>2 DEF Answered
      <4>2. keyOf(x) \in DOMAIN mGeofenceIds /\ mGeofenceIds[keyOf(x)] = x /\ keyOf(x) # k
        BY <1>1, <1>9, <4>1 DEF Inverses
      <4>3. keyOf(x) = <<mGeofences'[x].client, mGeofences'[x].id>>
        BY <4>1 DEF keyOf
      <4>. QED
        BY <1>7, <4>2, <4>3
    <3>. QED
      BY <3>1, <3>2
  <2>2. ASSUME NEW y \in DOMAIN mGeofenceIds'
        PROVE  LET x == mGeofenceIds'[y]
               IN x \in DOMAIN mGeofences' /\ <<mGeofences'[x].client, mGeofences'[x].id>> = y
    <3>1. CASE y = k
      BY <1>5, <1>6, <1>7, <3>1
    <3>2. CASE y # k
      <4>1. y \in DOMAIN mGeofenceIds /\ mGeofenceIds'[y] = mGeofenceIds[y]
        BY <1>7, <3>2
      <4>2. mGeofenceIds[y] \in DOMAIN mGeofences /\ keyOf(mGeofenceIds[y]) = y
        BY <1>1, <4>1 DEF Inverses
      <4>. QED
        BY <1>4, <1>6, <4>1, <4>2 DEF keyOf
    <3>. QED
      BY <3>1, <3>2
  <2>. QED
    BY <2>1, <2>2 DEF Inverses, keyOf
<1>19. Agrees'
  <2>1. ASSUME NEW x \in DOMAIN engine, x # hw
        PROVE  LET known == x \in DOMAIN mGeofences'
               IN /\ Tells(task', x, "id", engine[x].id, known, mGeofences'[x].id)
                  /\ Tells(task', x, "mask", engine[x].mask, known, mGeofences'[x].mask)
                  /\ restarts = 0 => Tells(task', x, "paused", engine[x].paused, known, mGeofences'[x].paused)
    <3>1. \A field : ~Sets(r, x, field)
      BY <2>1 DEF Sets, Ok
    <3>2. x \in DOMAIN mGeofences => x \in DOMAIN mGeofences' /\ mGeofences'[x] = mGeofences[x]
      BY <1>6, <2>1
    <3>. QED
      BY <1>1, <1>2, <3>1, <3>2, SaidAsBefore
  <2>2. LET known == hw \in DOMAIN mGeofences'
        IN /\ Tells(task', hw, "id", engine[hw].id, known, mGeofences'[hw].id)
           /\ Tells(task', hw, "mask", engine[hw].mask, known, mGeofences'[hw].mask)
           /\ restarts = 0 => Tells(task', hw, "paused", engine[hw].paused, known, mGeofences'[hw].paused)
    <3>1. \A field \in Field : Sets(r, hw, field)
      BY <1>4 DEF Gives, Sets, setters, Field
    <3>2. value(r, "id") = e.id /\ value(r, "mask") = e.mask /\ value(r, "paused") = e.paused
      BY <1>5 DEF value
    <3>3. \A v, w : /\ Tells(task, hw, "id", v, hw \in DOMAIN mGeofences, w)
                       => Tells(task', hw, "id", v, hw \in DOMAIN mGeofences', e.id)
                    /\ Tells(task, hw, "mask", v, hw \in DOMAIN mGeofences, w)
                       => Tells(task', hw, "mask", v, hw \in DOMAIN mGeofences', e.mask)
                    /\ Tells(task, hw, "paused", v, hw \in DOMAIN mGeofences, w)
                       => Tells(task', hw, "paused", v, hw \in DOMAIN mGeofences', e.paused)
      <4>1. \A v, w, field : field \in Field /\ Tells(task, hw, field, v, hw \in DOMAIN mGeofences, w)
                       => Tells(task', hw, field, v, hw \in DOMAIN mGeofences', value(r, field))
        BY <1>2, <1>6, <3>1, ToldOnce
      <4>. QED
        BY <3>2, <4>1 DEF Field
    <3>. QED
      BY <1>1, <1>4, <1>6, <3>3 DEF Agrees
  <2>. QED
    BY <1>2, <2>1, <2>2 DEF Agrees, Answered
<1>20. Removed'
  BY <1>1, <1>2, <1>14 DEF Removed, Answered
<1>21. Kept'
  <2>1. \A x : ~Takes(r, x)
    BY DEF Takes
  <2>. QED
    BY <1>1, <1>2, <1>4, <1>6, <1>14, <2>1 DEF Kept, Answered
<1>22. Leaving'
  <2>1. ASSUME NEW x, Unsaved(x)
        PROVE  /\ x.hw <= lastHwId' /\ \A n \in inTask' : ~Gives(n, x.hw)
               /\ x.op = "drop" => \A y \in DOMAIN mGeofenceIds' : mGeofenceIds'[y] # x.hw
    <3>1. x.hw # hw
      BY <1>4, <1>14, <2>1 DEF Unsaved
    <3>. QED
      BY <1>2, <1>7, <1>14, <2>1, <3>1 DEF Unsaved, Answered
  <2>2. ASSUME NEW i \in DOMAIN apiTask', toEngineOp(apiTask'[i], {"remove", "drop"})
        PROVE  /\ apiTask'[i].hw <= lastHwId' /\ \A n \in inTask' : ~Gives(n, apiTask'[i].hw)
               /\ apiTask'[i].op = "drop" => \A y \in DOMAIN mGeofenceIds' : mGeofenceIds'[y] # apiTask'[i].hw
    <3>1. i \in DOMAIN apiTask /\ apiTask'[i] = apiTask[i]
      BY <1>2, <1>12, <2>2 DEF toEngineOp
    <3>. QED
      BY <1>1, <1>4, <2>1, <2>2, <3>1 DEF Leaving
  <2>3. ASSUME NEW x \in inTask', x.stage = "answer", x.op = "drop", x.ok
        PROVE  /\ x.hw <= lastHwId' /\ \A n \in inTask' : ~Gives(n, x.hw)
               /\ x.op = "drop" => \A y \in DOMAIN mGeofenceIds' : mGeofenceIds'[y] # x.hw
    BY <1>1, <1>14, <2>1, <2>3 DEF Leaving
  <2>. QED
    BY <2>2, <2>3 DEF Leaving, Unsaved
<1>23. Breaches'
  BY <1>1, <1>4, <1>5, <1>6, <1>14 DEF Breaches
<1>24. Owners'
  <2>1. \A c, s : Held(c, s)' => Held(c, s)
    BY <1>2, <1>5, <1>6, <1>12, <1>14 DEF Held
  <2>. QED
    BY <1>1, <1>2, <2>1, SameOwners DEF Answered
<1>25. Restart'
  BY <1>2 DEF Answered
<1>. QED
  BY <1>2, <1>11, <1>13, <1>15, <1>17, <1>18, <1>19, <1>20, <1>21, <1>22, <1>23, <1>24, <1>25 DEF GeoInv

\* The fence is no more at the engine, and forgotten.
LEMMA RemovalAnswered ==
  ASSUME GeoInv, AnswerOk, Head(task).op \in {"remove", "drop"}
  PROVE  GeoInv'
<1>1. /\ TypesHold /\ OnePlace /\ Numbered /\ HwIds /\ Inverses /\ Agrees /\ Removed
      /\ Kept /\ Leaving /\ Breaches /\ Owners
  BY DEF GeoInv
<1>. DEFINE r == Head(task)
            hw == r.hw
<1>2. /\ Answered(r) /\ applied(r) /\ NotRestored' /\ apiTask' = apiTask
  BY AnswerTaken
<1>3. /\ Takes(r, hw) /\ r \in inTask /\ inTask = inTask' \cup {r} /\ hw \notin DOMAIN engine
      /\ inApi' = inApi
  BY <1>1, <1>2 DEF Answered, Takes, Removed, inApi
<1>4. \/ /\ r.op = "remove" /\ hw \in DOMAIN mGeofences /\ keyOf(hw) \in DOMAIN mGeofenceIds
         /\ mGeofenceIds' = Without(mGeofenceIds, keyOf(hw)) /\ mGeofences' = Without(mGeofences, hw)
      \/ /\ r.op = "remove" /\ ~(hw \in DOMAIN mGeofences /\ keyOf(hw) \in DOMAIN mGeofenceIds)
         /\ UNCHANGED <<mGeofences, mGeofenceIds>>
      \/ r.op = "drop" /\ mGeofences' = Without(mGeofences, hw) /\ UNCHANGED mGeofenceIds
  BY <1>2 DEF applied, removeGeofenceItem
<1>5. r.op = "drop" => \A k \in DOMAIN mGeofenceIds : mGeofenceIds[k] # hw
  BY <1>1, <1>2 DEF Answered, Leaving, Unsaved
<1>. HIDE DEF hw
<1>6. /\ mGeofences' = [x \in DOMAIN mGeofences' |-> mGeofences'[x]]
      /\ \A x \in DOMAIN mGeofences' : x \in DOMAIN mGeofences /\ mGeofences'[x] = mGeofences[x]
      /\ \A x \in DOMAIN mGeofences : x # hw => x \in DOMAIN mGeofences'
      /\ mGeofenceIds' = [k \in DOMAIN mGeofenceIds' |-> mGeofenceIds'[k]]
      /\ \A k \in DOMAIN mGeofenceIds' : k \in DOMAIN mGeofenceIds /\ mGeofenceIds'[k] = mGeofenceIds[k]
  <2>1. /\ mGeofences = [x \in DOMAIN mGeofences |-> mGeofences[x]]
        /\ mGeofenceIds = [k \in DOMAIN mGeofenceIds |-> mGeofenceIds[k]]
    BY <1>1 DEF TypesHold
  <2>2. \A f, x : /\ Without(f, x) = [y \in DOMAIN f \ {x} |-> f[y]]
                  /\ DOMAIN Without(f, x) = DOMAIN f \ {x}
    BY DEF Without, Restrict
  <2>3. mGeofences' = mGeofences \/ mGeofences' = Without(mGeofences, hw)
    BY <1>4
  <2>4. mGeofenceIds' = mGeofenceIds \/ mGeofenceIds' = Without(mGeofenceIds, keyOf(hw))
    BY <1>4
  <2>5. /\ mGeofences' = [x \in DOMAIN mGeofences' |-> mGeofences'[x]]
        /\ \A x \in DOMAIN mGeofences' : x \in DOMAIN mGeofences /\ mGeofences'[x] = mGeofences[x]
        /\ \A x \in DOMAIN mGeofences : x # hw => x \in DOMAIN mGeofences'
    BY <2>1, <2>3 DEF Without, Restrict
  <2>6. /\ mGeofenceIds' = [k \in DOMAIN mGeofenceIds' |-> mGeofenceIds'[k]]
        /\ \A k \in DOMAIN mGeofenceIds' : k \in DOMAIN mGeofenceIds /\ mGeofenceIds'[k] = mGeofenceIds[k]
    BY <2>1, <2>4 DEF Without, Restrict
  <2>. QED
    BY <2>5, <2>6
<1>6a. /\ mGeofences' = Without(mGeofences, hw) => DOMAIN mGeofences' = DOMAIN mGeofences \ {hw}
       /\ mGeofenceIds' = Without(mGeofenceIds, keyOf(hw))
          => DOMAIN mGeofenceIds' = DOMAIN mGeofenceIds \ {keyOf(hw)}
  BY DEF Without, Restrict
<1>7. \A k \in DOMAIN mGeofenceIds' : mGeofenceIds[k] \in DOMAIN mGeofences' /\ keyOf(mGeofenceIds[k]) = k
  <2>1. ASSUME NEW k \in DOMAIN mGeofenceIds'
        PROVE  mGeofenceIds[k] \in DOMAIN mGeofences' /\ keyOf(mGeofenceIds[k]) = k
    <3>1. mGeofenceIds[k] \in DOMAIN mGeofences /\ keyOf(mGeofenceIds[k]) = k
      BY <1>1, <1>6, <2>1 DEF Inverses
    <3>2. mGeofenceIds[k] # hw \/ mGeofences' = mGeofences
      <4>1. CASE mGeofenceIds' = Without(mGeofenceIds, keyOf(hw))
        <5>1. k # keyOf(hw)
          BY <1>6a, <4>1
        <5>. QED
          BY <3>1, <5>1
      <4>2. CASE mGeofenceIds' # Without(mGeofenceIds, keyOf(hw))
        BY <1>4, <1>5, <1>6, <4>2
      <4>. QED
        BY <4>1, <4>2
    <3>. QED
      BY <1>6, <3>1, <3>2
  <2>. QED
    BY <2>1
<1>8. ASSUME NEW x \in DOMAIN mGeofences', mGeofences[x].client \in mClientData
      PROVE  /\ x # hw /\ keyOf(x) \in DOMAIN mGeofenceIds' /\ mGeofenceIds[keyOf(x)] = x
  <2>1. x \in DOMAIN mGeofences /\ keyOf(x) \in DOMAIN mGeofenceIds /\ mGeofenceIds[keyOf(x)] = x
    BY <1>1, <1>6, <1>8 DEF Inverses
  <2>2. CASE /\ hw \in DOMAIN mGeofences
             /\ mGeofenceIds' = Without(mGeofenceIds, keyOf(hw)) /\ mGeofences' = Without(mGeofences, hw)
    <3>1. x # hw
      BY <1>6a, <2>2
    <3>2. keyOf(x) # keyOf(hw)
      BY <1>1, <2>1, <2>2, <3>1 DEF OnePlace, keyOf
    <3>. QED
      BY <1>6a, <2>1, <2>2, <3>1, <3>2
  <2>3. CASE UNCHANGED mGeofenceIds /\ mGeofences' = Without(mGeofences, hw)
    <3>1. x # hw
      BY <1>6a, <2>3
    <3>. QED
      BY <2>1, <2>3, <3>1
  <2>4. CASE ~(hw \in DOMAIN mGeofences /\ keyOf(hw) \in DOMAIN mGeofenceIds) /\ UNCHANGED mGeofenceIds
    BY <2>1, <2>4
  <2>. QED
    BY <1>4, <2>2, <2>3, <2>4
<1>9. /\ task' \in Seq(TaskMessage) /\ apiTask' \in Seq(ApiRequest) /\ mClientData' = mClientData
      /\ engine' = engine /\ lastHwId' = lastHwId /\ restarts' = restarts
      /\ mForwardMap' = mForwardMap /\ mSessionIdCounter' = mSessionIdCounter
      /\ task # <<>> /\ task \in Seq(TaskMessage) /\ task' = Tail(task) /\ UNCHANGED dictVars
      /\ ~Restarting /\ ~Restarting' /\ Restart'
  BY <1>2 DEF Answered
<1>10. TypesHold'
  <2>1. DOMAIN mGeofences' \subseteq DOMAIN mGeofences
    BY <1>6
  <2>2. IsFiniteSet(DOMAIN mGeofences') /\ DOMAIN mGeofences' \subseteq Nat
    <3>1. IsFiniteSet(DOMAIN mGeofences) /\ DOMAIN mGeofences \subseteq Nat
      BY <1>1 DEF TypesHold
    <3>. QED
      BY <2>1, <3>1, FS_Subset
  <2>3. mGeofences' \in [DOMAIN mGeofences' -> Item]
    BY <1>1, <1>6 DEF TypesHold
  <2>4. mGeofenceIds' \in [DOMAIN mGeofenceIds' -> Nat] /\ DOMAIN mGeofenceIds' \subseteq Client \X Session
    BY <1>1, <1>6 DEF TypesHold
  <2>. QED
    BY <1>1, <1>9, <2>2, <2>3, <2>4 DEF TypesHold
<1>11. OnePlace'
  <2>1. \A x \in savedIds' : x \in savedIds
    BY <1>6 DEF savedIds
  <2>2. Distinct(task', apiTask', savedIds')
    BY <1>1, <1>2, <1>9, <2>1, DistinctPulled DEF OnePlace
  <2>. QED
    BY <1>1, <1>6, <2>2 DEF OnePlace
<1>12. Numbered'
  BY <1>1, <1>3, <1>6, <1>9 DEF Numbered
<1>13. HwIds'
  BY <1>1, <1>3, <1>6, <1>9 DEF HwIds
<1>14. Inverses'
  BY <1>6, <1>7, <1>8, <1>9 DEF Inverses, keyOf
<1>15. Agrees'
  <2>1. ASSUME NEW x \in DOMAIN engine
        PROVE  LET known == x \in DOMAIN mGeofences'
               IN /\ Tells(task', x, "id", engine[x].id, known, mGeofences'[x].id)
                  /\ Tells(task', x, "mask", engine[x].mask, known, mGeofences'[x].mask)
                  /\ restarts = 0 => Tells(task', x, "paused", engine[x].paused, known, mGeofences'[x].paused)
    <3>1. \A field : ~Sets(r, x, field)
      BY <1>3, <2>1 DEF Sets, Ok, hw
    <3>2. x \in DOMAIN mGeofences => x \in DOMAIN mGeofences' /\ mGeofences'[x] = mGeofences[x]
      BY <1>3, <1>6, <2>1
    <3>. QED
      BY <1>1, <1>2, <3>1, <3>2, SaidAsBefore
  <2>. QED
    BY <1>9, <2>1 DEF Agrees
<1>16. Removed'
  BY <1>1, <1>3, <1>9 DEF Removed
<1>17. Kept'
  <2>1. ASSUME NEW x \in DOMAIN mGeofences', mGeofences'[x].client \in mClientData'
        PROVE  x \in DOMAIN engine' \/ \E n \in inTask' : Takes(n, x)
    <3>1. x # hw /\ x \in DOMAIN mGeofences /\ mGeofences[x].client \in mClientData
      BY <1>6, <1>8, <1>9, <2>1
    <3>2. ~Takes(r, x)
      BY <3>1 DEF Takes, Ok, hw
    <3>. QED
      BY <1>1, <1>3, <1>9, <3>1, <3>2 DEF Kept
  <2>. QED
    BY <2>1 DEF Kept
<1>18. Leaving'
  <2>1. \A x : Unsaved(x) =>
          /\ x.hw <= lastHwId' /\ \A n \in inTask' : ~Gives(n, x.hw)
          /\ x.op = "drop" => \A k \in DOMAIN mGeofenceIds' : mGeofenceIds'[k] # x.hw
    BY <1>3, <1>6, <1>9 DEF Unsaved
  <2>. QED
    BY <1>1, <1>2, <1>3, <1>9, <2>1 DEF Leaving, Unsaved
<1>19. Breaches'
  BY <1>1, <1>3, <1>6 DEF Breaches
<1>20. Owners'
  <2>1. \A c, s : Held(c, s)' => Held(c, s)
    BY <1>3, <1>6 DEF Held
  <2>. QED
    BY <1>1, <1>9, <2>1, SameOwners
<1>. QED
  BY <1>2, <1>9, <1>10, <1>11, <1>12, <1>13, <1>14, <1>15, <1>16, <1>17, <1>18, <1>19, <1>20 DEF GeoInv

\* The fence is paused, resumed or modified.
LEMMA ChangeAnswered ==
  ASSUME GeoInv, AnswerOk, Head(task).op \in {"pause", "resume", "modify", "repause"}
  PROVE  GeoInv'
<1>1. /\ TypesHold /\ OnePlace /\ Numbered /\ HwIds /\ Inverses /\ Agrees /\ Removed
      /\ Kept /\ Leaving /\ Breaches /\ Owners
  BY DEF GeoInv
<1>. DEFINE r == Head(task)
            hw == r.hw
<1>2. /\ Answered(r) /\ applied(r) /\ NotRestored' /\ apiTask' = apiTask
  BY AnswerTaken
<1>3. /\ r \in inTask /\ inTask = inTask' \cup {r} /\ r \in Answer /\ inApi' = inApi
      /\ ~carries(r) /\ Ok(r, hw) /\ \A x : Ok(r, x) => x = hw
      /\ \A x : ~Gives(r, x) /\ ~Takes(r, x)
  BY <1>1, <1>2 DEF Answered, Takes, Gives, carries, inApi, Ok
<1>4. /\ mGeofenceIds' = mGeofenceIds
      /\ \/ r.op = "pause" /\ changeItem(hw, "paused", TRUE)
         \/ r.op = "resume" /\ changeItem(hw, "paused", FALSE)
         \/ r.op = "modify" /\ changeItem(hw, "mask", r.mask)
         \/ r.op = "repause" /\ mGeofences' = mGeofences
  BY <1>2 DEF applied, changeItem
<1>5. /\ mGeofences \in [DOMAIN mGeofences -> Item] /\ r.mask \in Options
  BY <1>1, <1>3 DEF TypesHold, Answer
<1>. HIDE DEF hw
<1>6. /\ mGeofences' \in [DOMAIN mGeofences -> Item] /\ DOMAIN mGeofences' = DOMAIN mGeofences
      /\ \A x \in DOMAIN mGeofences :
           /\ mGeofences'[x].id = mGeofences[x].id /\ mGeofences'[x].client = mGeofences[x].client
           /\ x # hw => mGeofences'[x] = mGeofences[x]
      /\ hw \in DOMAIN mGeofences =>
           /\ mGeofences'[hw].mask = IF r.op = "modify" THEN r.mask ELSE mGeofences[hw].mask
           /\ r.op = "pause" => mGeofences'[hw].paused = TRUE
           /\ r.op = "resume" => mGeofences'[hw].paused = FALSE
           /\ r.op = "modify" => mGeofences'[hw].paused = mGeofences[hw].paused
  <2>1. CASE mGeofences' = mGeofences /\ (hw \notin DOMAIN mGeofences \/ r.op = "repause")
    BY <1>5, <2>1
  <2>2. ASSUME NEW b \in BOOLEAN, hw \in DOMAIN mGeofences,
               mGeofences' = [mGeofences EXCEPT ![hw] = [@ EXCEPT !["paused"] = b]]
        PROVE  /\ mGeofences' \in [DOMAIN mGeofences -> Item] /\ DOMAIN mGeofences' = DOMAIN mGeofences
               /\ \A x \in DOMAIN mGeofences :
                    /\ mGeofences'[x].id = mGeofences[x].id /\ mGeofences'[x].client = mGeofences[x].client
                    /\ x # hw => mGeofences'[x] = mGeofences[x]
               /\ mGeofences'[hw].mask = mGeofences[hw].mask /\ mGeofences'[hw].paused = b
    <3>1. mGeofences[hw] \in Item /\ [mGeofences[hw] EXCEPT !["paused"] = b] \in Item
      BY <1>5, <2>2 DEF Item
    <3>. QED
      BY <1>5, <2>2, <3>1 DEF Item
  <2>3. ASSUME hw \in DOMAIN mGeofences,
               mGeofences' = [mGeofences EXCEPT ![hw] = [@ EXCEPT !["mask"] = r.mask]]
        PROVE  /\ mGeofences' \in [DOMAIN mGeofences -> Item] /\ DOMAIN mGeofences' = DOMAIN mGeofences
               /\ \A x \in DOMAIN mGeofences :
                    /\ mGeofences'[x].id = mGeofences[x].id /\ mGeofences'[x].client = mGeofences[x].client
                    /\ x # hw => mGeofences'[x] = mGeofences[x]
               /\ mGeofences'[hw].mask = r.mask /\ mGeofences'[hw].paused = mGeofences[hw].paused
    <3>1. mGeofences[hw] \in Item /\ [mGeofences[hw] EXCEPT !["mask"] = r.mask] \in Item
      BY <1>5, <2>3 DEF Item
    <3>. QED
      BY <1>5, <2>3, <3>1 DEF Item
  <2>4. CASE hw \notin DOMAIN mGeofences \/ r.op = "repause"
    BY <1>4, <2>1, <2>4 DEF changeItem
  <2>5. CASE hw \in DOMAIN mGeofences /\ r.op = "pause"
    <3>1. mGeofences' = [mGeofences EXCEPT ![hw] = [@ EXCEPT !["paused"] = TRUE]]
      BY <1>4, <2>5 DEF changeItem
    <3>. QED
      BY <2>2, <2>5, <3>1
  <2>6. CASE hw \in DOMAIN mGeofences /\ r.op = "resume"
    <3>1. mGeofences' = [mGeofences EXCEPT ![hw] = [@ EXCEPT !["paused"] = FALSE]]
      BY <1>4, <2>6 DEF changeItem
    <3>. QED
      BY <2>2, <2>6, <3>1
  <2>7. CASE hw \in DOMAIN mGeofences /\ r.op = "modify"
    <3>1. mGeofences' = [mGeofences EXCEPT ![hw] = [@ EXCEPT !["mask"] = r.mask]]
      BY <1>4, <2>7 DEF changeItem
    <3>. QED
      BY <2>3, <2>7, <3>1
  <2>. QED
    BY <1>4, <2>4, <2>5, <2>6, <2>7
<1>7. /\ task' \in Seq(TaskMessage) /\ apiTask' \in Seq(ApiRequest) /\ mClientData' = mClientData
      /\ engine' = engine /\ lastHwId' = lastHwId /\ restarts' = restarts
      /\ mForwardMap' = mForwardMap /\ mSessionIdCounter' = mSessionIdCounter
      /\ task # <<>> /\ task \in Seq(TaskMessage) /\ task' = Tail(task) /\ UNCHANGED dictVars
      /\ ~Restarting /\ ~Restarting' /\ Restart'
  BY <1>2 DEF Answered
<1>8. TypesHold'
  BY <1>1, <1>4, <1>6, <1>7 DEF TypesHold
<1>9. OnePlace'
  <2>1. savedIds' = savedIds
    BY <1>6 DEF savedIds
  <2>2. Distinct(task', apiTask', savedIds')
    BY <1>1, <1>2, <1>7, <2>1, DistinctPulled DEF OnePlace
  <2>. QED
    BY <1>1, <1>6, <2>2 DEF OnePlace
<1>10. Numbered'
  BY <1>1, <1>3, <1>6, <1>7 DEF Numbered
<1>11. HwIds'
  BY <1>1, <1>3, <1>6, <1>7 DEF HwIds
<1>12. Inverses'
  BY <1>1, <1>4, <1>6, <1>7 DEF Inverses, keyOf
<1>13. Agrees'
  <2>1. ASSUME NEW x \in DOMAIN engine, x # hw
        PROVE  LET known == x \in DOMAIN mGeofences'
               IN /\ Tells(task', x, "id", engine[x].id, known, mGeofences'[x].id)
                  /\ Tells(task', x, "mask", engine[x].mask, known, mGeofences'[x].mask)
                  /\ restarts = 0 => Tells(task', x, "paused", engine[x].paused, known, mGeofences'[x].paused)
    <3>1. \A field : ~Sets(r, x, field)
      BY <1>3, <2>1 DEF Sets
    <3>2. x \in DOMAIN mGeofences => x \in DOMAIN mGeofences' /\ mGeofences'[x] = mGeofences[x]
      BY <1>6, <2>1
    <3>. QED
      BY <1>1, <1>2, <3>1, <3>2, SaidAsBefore
  <2>2. ASSUME hw \in DOMAIN engine
        PROVE  LET known == hw \in DOMAIN mGeofences'
               IN /\ Tells(task', hw, "id", engine[hw].id, known, mGeofences'[hw].id)
                  /\ Tells(task', hw, "mask", engine[hw].mask, known, mGeofences'[hw].mask)
                  /\ restarts = 0 => Tells(task', hw, "paused", engine[hw].paused, known, mGeofences'[hw].paused)
    <3>. DEFINE known == hw \in DOMAIN mGeofences
    <3>1. /\ Tells(task, hw, "id", engine[hw].id, known, mGeofences[hw].id)
          /\ Tells(task, hw, "mask", engine[hw].mask, known, mGeofences[hw].mask)
          /\ restarts = 0 => Tells(task, hw, "paused", engine[hw].paused, known, mGeofences[hw].paused)
      BY <1>1, <2>2 DEF Agrees
    <3>2. /\ ~Sets(r, hw, "id")
          /\ IF r.op = "modify" THEN Sets(r, hw, "mask") ELSE ~Sets(r, hw, "mask")
          /\ IF r.op = "modify" THEN ~Sets(r, hw, "paused") ELSE Sets(r, hw, "paused")
      BY <1>3 DEF Sets, setters
    <3>3. known =>
            /\ mGeofences'[hw].id = mGeofences[hw].id
            /\ mGeofences'[hw].mask = IF r.op = "modify" THEN r.mask ELSE mGeofences[hw].mask
            /\ r.op = "pause" => mGeofences'[hw].paused = TRUE
            /\ r.op = "resume" => mGeofences'[hw].paused = FALSE
            /\ r.op = "modify" => mGeofences'[hw].paused = mGeofences[hw].paused
      BY <1>6
    <3>. HIDE DEF known
    <3>4. ASSUME ~known, NEW field \in Field  PROVE ~Unset(Tail(task), hw, field)
      BY <1>7, <3>1, <3>2, <3>4, StillToBeGiven
    <3>5. ASSUME NEW field \in Field, NEW v, NEW w, NEW x, Tells(task, hw, field, v, known, w),
                 ~Sets(r, hw, field) => (known => x = w),
                 Sets(r, hw, field) => (known => x = value(r, field))
          PROVE  Tells(task', hw, field, v, known, x)
      BY <1>2, <3>4, <3>5, ToldOnce
    <3>6. Tells(task', hw, "id", engine[hw].id, known, mGeofences'[hw].id)
      BY <3>1, <3>2, <3>3, <3>5 DEF Field
    <3>7. Tells(task', hw, "mask", engine[hw].mask, known, mGeofences'[hw].mask)
      <4>1. value(r, "mask") = r.mask
        BY DEF value
      <4>2. /\ ~Sets(r, hw, "mask") => (known => mGeofences'[hw].mask = mGeofences[hw].mask)
            /\ Sets(r, hw, "mask") => (known => mGeofences'[hw].mask = value(r, "mask"))
        BY <3>2, <3>3, <4>1
      <4>. QED
        BY <3>1, <3>5, <4>2 DEF Field
    <3>8. ASSUME restarts = 0
          PROVE  Tells(task', hw, "paused", engine[hw].paused, known, mGeofences'[hw].paused)
      <4>1. value(r, "paused") = (r.op = "pause") /\ r.op # "repause"
        BY <1>2, <3>8 DEF value, Answered
      <4>2. /\ ~Sets(r, hw, "paused") => (known => mGeofences'[hw].paused = mGeofences[hw].paused)
            /\ Sets(r, hw, "paused") => (known => mGeofences'[hw].paused = value(r, "paused"))
        BY <3>2, <3>3, <4>1
      <4>. QED
        BY <3>1, <3>5, <3>8, <4>2 DEF Field
    <3>. QED
      BY <1>6, <3>6, <3>7, <3>8 DEF known
  <2>. QED
    BY <1>7, <2>1, <2>2 DEF Agrees
<1>14. Removed'
  BY <1>1, <1>3, <1>7 DEF Removed
<1>15. Kept'
  BY <1>1, <1>3, <1>6, <1>7 DEF Kept
<1>16. Leaving'
  <2>1. \A x : Unsaved(x) =>
          /\ x.hw <= lastHwId' /\ \A n \in inTask' : ~Gives(n, x.hw)
          /\ x.op = "drop" => \A k \in DOMAIN mGeofenceIds' : mGeofenceIds'[k] # x.hw
    BY <1>3, <1>4, <1>7 DEF Unsaved
  <2>. QED
    BY <1>1, <1>2, <1>3, <1>7, <2>1 DEF Leaving, Unsaved
<1>17. Breaches'
  BY <1>1, <1>3, <1>6 DEF Breaches
<1>18. Owners'
  <2>1. \A c, s : Held(c, s)' => Held(c, s)
    BY <1>3, <1>6 DEF Held
  <2>. QED
    BY <1>1, <1>7, <2>1, SameOwners
<1>. QED
  BY <1>2, <1>7, <1>8, <1>9, <1>10, <1>11, <1>12, <1>13, <1>14, <1>15, <1>16, <1>17, <1>18 DEF GeoInv
------------------------------------------------------------------------------
(* A client that is erased, and the fences restored after a restart.       *)

\* The numbers in their order, as a sequence.
LEMMA OrderedSequence ==
  ASSUME NEW S \in SUBSET Nat, IsFiniteSet(S)
  PROVE  LET q == inOrder(S)
         IN /\ Len(q) \in Nat /\ DOMAIN q = 1..Len(q)
            /\ \A i \in 1..Len(q) : q[i] \in S
            /\ \A i, j \in 1..Len(q) : q[i] = q[j] => i = j
<1>. DEFINE n == Cardinality(S)
            q == inOrder(S)
<1>1. n \in Nat /\ q \in [1..n -> S] /\ \A i, j \in 1..n : q[i] = q[j] => i = j
  BY InOrder
<1>. HIDE DEF n, q
<1>2. Len(q) = n /\ DOMAIN q = 1..n
  BY <1>1
<1>. QED
  BY <1>1, <1>2 DEF q

\* A queue behind another.
LEMMA Behind ==
  ASSUME NEW T, NEW q \in Seq(T), NEW s \in Seq(T), NEW p, p = q \o s
  PROVE  /\ p \in Seq(T) /\ \A x : x \in ToSet(p) <=> x \in ToSet(q) \/ x \in ToSet(s)
         /\ \A i \in DOMAIN q : i \in DOMAIN p /\ p[i] = q[i]
         /\ \A i \in DOMAIN p : i \in DOMAIN q \/ \E j \in DOMAIN s : p[i] = s[j]
         /\ \A x \in ToSet(s) : \E j \in DOMAIN s : x = s[j]
<1>1. /\ p \in Seq(T) /\ ToSet(p) = ToSet(q) \cup ToSet(s)
      /\ \A i \in DOMAIN q : i \in DOMAIN p /\ p[i] = q[i] /\ i <= Len(q)
      /\ \A i \in DOMAIN p : i \in DOMAIN q \/ (i - Len(q) \in DOMAIN s /\ Len(q) < i /\ i \in Nat
                                                /\ p[i] = s[i - Len(q)])
  BY ONLY Joined, q \in Seq(T), s \in Seq(T), p = q \o s
<1>2. \A i \in DOMAIN p : i \in DOMAIN q \/ \E j \in DOMAIN s : p[i] = s[j]
  BY <1>1
<1>3. \A x \in ToSet(s) : \E j \in DOMAIN s : x = s[j]
  BY Elements
<1>4. \A x : x \in ToSet(p) <=> x \in ToSet(q) \/ x \in ToSet(s)
  BY <1>1
<1>. QED
  BY <1>1, <1>2, <1>3, <1>4

LEMMA RemoveClientKeeps == GeoInv /\ RemoveClient => GeoInv'
<1>. SUFFICES ASSUME GeoInv, RemoveClient  PROVE GeoInv'
  OBVIOUS
<1>1. /\ TypesHold /\ Restart /\ OnePlace /\ Numbered /\ HwIds /\ Inverses /\ Agrees
      /\ NotRestored /\ Removed /\ Kept /\ Leaving /\ Breaches /\ Owners
  BY DEF GeoInv
<1>. DEFINE c == Head(task).client
            own == {s \in Session : <<c, s>> \in DOMAIN mGeofenceIds}
            q == inOrder(own)
            n == Len(q)
            all == [i \in 1..n |-> toEngine("drop", c, q[i], mGeofenceIds[<<c, q[i]>>], None, FALSE)]
<1>2. /\ task # <<>> /\ Head(task).stage = "removeClient" /\ task' = Tail(task)
      /\ mGeofenceIds' = Restrict(mGeofenceIds, DOMAIN mGeofenceIds \ {<<c, s>> : s \in own})
      /\ apiTask' = apiTask \o all /\ mClientData' = mClientData \ {c}
      /\ UNCHANGED <<clientVars, mGeofences, engineVars>>
  BY DEF RemoveClient, Message
<1>3. /\ engine' = engine /\ mGeofences' = mGeofences /\ lastHwId' = lastHwId /\ restarts' = restarts
      /\ mSessionIdCounter' = mSessionIdCounter /\ mForwardMap' = mForwardMap /\ UNCHANGED dictVars
  BY <1>2 DEF clientVars, engineVars, dictVars
<1>4. /\ task \in Seq(TaskMessage) /\ apiTask \in Seq(ApiRequest) /\ task' \in Seq(TaskMessage)
      /\ Head(task) \in inTask /\ inTask = inTask' \cup {Head(task)} /\ Head(task) = task[1]
      /\ 1 \in DOMAIN task /\ c \in Client
  <2>1. Head(task) \in Removal
    BY <1>1, <1>2, TaskHead, Kinds
  <2>. QED
    BY <1>1, <1>2, <2>1, TaskHead, Pulled DEF TypesHold, Removal
<1>5. /\ n \in Nat /\ \A i \in 1..n : q[i] \in own
  <2>1. own \in SUBSET Nat /\ own \subseteq Session
    BY DEF Session
  <2>2. IsFiniteSet(own)
    <3>1. IsFiniteSet(Session)
      BY GeofenceAssumption, FS_Interval DEF Session
    <3>. QED
      BY <2>1, <3>1, FS_Subset
  <2>. HIDE DEF own
  <2>. QED
    BY <2>1, <2>2, OrderedSequence
<1>6. ASSUME NEW i \in 1..n
      PROVE  LET hw == mGeofenceIds[<<c, q[i]>>]
             IN /\ q[i] \in Session /\ q[i] \in own /\ <<c, q[i]>> \in DOMAIN mGeofenceIds
                /\ hw \in DOMAIN mGeofences /\ hw \in Nat /\ keyOf(hw) = <<c, q[i]>>
                /\ mGeofences[hw].client = c /\ mGeofences[hw].id = q[i]
  <2>1. q[i] \in own /\ q[i] \in Session /\ <<c, q[i]>> \in DOMAIN mGeofenceIds
    BY <1>5
  <2>. HIDE DEF own, q
  <2>. QED
    BY <1>1, <2>1 DEF Inverses, TypesHold, keyOf
<1>7. /\ DOMAIN mGeofenceIds' = DOMAIN mGeofenceIds \ {<<c, s>> : s \in own}
      /\ \A k \in DOMAIN mGeofenceIds' : k \in DOMAIN mGeofenceIds /\ mGeofenceIds'[k] = mGeofenceIds[k]
      /\ mGeofenceIds' = [k \in DOMAIN mGeofenceIds' |-> mGeofenceIds'[k]]
  BY <1>2 DEF Restrict
<1>8. ASSUME NEW hw, keyOf(hw) \in DOMAIN mGeofenceIds, mGeofences[hw].client # c
      PROVE  keyOf(hw) \in DOMAIN mGeofenceIds'
  <2>1. \A s \in own : keyOf(hw) # <<c, s>>
    BY <1>8 DEF keyOf
  <2>. HIDE DEF own
  <2>. QED
    BY <1>7, <1>8, <2>1
<1>. HIDE DEF own
<1>9. PICK drops \in Seq(ApiRequest) :
        /\ apiTask' = apiTask \o drops /\ DOMAIN drops = 1..n
        /\ \A i \in 1..n : /\ drops[i].stage = "engine" /\ drops[i].op = "drop" /\ drops[i].client = c
                           /\ drops[i].id = q[i] /\ drops[i].hw = mGeofenceIds[<<c, q[i]>>]
  <2>. HIDE DEF q, n
  <2>1. \A i \in 1..n : toEngine("drop", c, q[i], mGeofenceIds[<<c, q[i]>>], None, FALSE) \in Asked
    BY <1>4, <1>6 DEF toEngine, Asked, EngineOp, Options
  <2>2. all \in [1..n -> ApiRequest]
    BY <2>1 DEF ApiRequest
  <2>3. \A T : \A f \in [1..n -> T] : f \in Seq(T)
    BY <1>5
  <2>4. all \in Seq(ApiRequest) /\ DOMAIN all = 1..n
    BY <2>2, <2>3
  <2>5. \A i \in 1..n : /\ all[i].stage = "engine" /\ all[i].op = "drop" /\ all[i].client = c
                      /\ all[i].id = q[i] /\ all[i].hw = mGeofenceIds[<<c, q[i]>>]
    BY DEF toEngine
  <2>. HIDE DEF all
  <2>. QED
    BY <1>2, <2>4, <2>5
<1>. HIDE DEF all, q, n
<1>10. /\ apiTask' \in Seq(ApiRequest) /\ inApi' = inApi \cup ToSet(drops)
       /\ \A i \in DOMAIN apiTask : i \in DOMAIN apiTask' /\ apiTask'[i] = apiTask[i]
       /\ \A i \in DOMAIN apiTask' : i \in DOMAIN apiTask \/ \E j \in 1..n : apiTask'[i] = drops[j]
       /\ \A x \in ToSet(drops) : \E j \in 1..n : x = drops[j]
  <2>1. drops \in Seq(ApiRequest) /\ apiTask \in Seq(ApiRequest) /\ apiTask' = apiTask \o drops
    BY <1>2, <1>4, <1>9
  <2>2. apiTask' \in Seq(ApiRequest)
    BY ONLY <2>1, Behind
  <2>3. \A x : x \in ToSet(apiTask') <=> x \in ToSet(apiTask) \/ x \in ToSet(drops)
    BY ONLY <2>1, Behind
  <2>4. \A i \in DOMAIN apiTask : i \in DOMAIN apiTask' /\ apiTask'[i] = apiTask[i]
    BY ONLY <2>1, Behind
  <2>5. \A i \in DOMAIN apiTask' : i \in DOMAIN apiTask \/ \E j \in DOMAIN drops : apiTask'[i] = drops[j]
    BY ONLY <2>1, Behind
  <2>6. \A x \in ToSet(drops) : \E j \in DOMAIN drops : x = drops[j]
    BY ONLY <2>1, Behind
  <2>7. inApi' = inApi \cup ToSet(drops)
    BY ONLY <2>3 DEF inApi
  <2>8. DOMAIN drops = 1..n
    BY <1>9
  <2>. QED
    BY ONLY <2>2, <2>4, <2>5, <2>6, <2>7, <2>8
<1>11. \A x \in ToSet(drops) : \E j \in 1..n : x = drops[j]
  BY <1>10
<1>12. \A j \in 1..n : ~isSsr(drops[j]) /\ ~carries(drops[j]) /\ HasId(drops[j])
                       /\ ~toEngineOp(drops[j], {"add", "restore"})
  BY <1>9 DEF isSsr, carries, HasId, toEngineOp
<1>13. ~isSsr(Head(task)) /\ ~carries(Head(task)) /\ ~HasId(Head(task)) /\ Head(task).stage # "answer"
  BY <1>2 DEF isSsr, carries, HasId
<1>14. Restarting' <=> Restarting
  BY <1>4, <1>10, <1>11, <1>12, <1>13 DEF Restarting
<1>15. AsBefore
  <2>1. Alike(task, task')
    BY <1>2, <1>4, <1>13, AlikePulled
  <2>. QED
    BY <1>1, <1>3, <2>1, ToldAsBefore
<1>16. TypesHold'
  <2>1. mGeofenceIds' \in [DOMAIN mGeofenceIds' -> Nat] /\ DOMAIN mGeofenceIds' \subseteq Client \X Session
    BY <1>1, <1>7 DEF TypesHold
  <2>. QED
    BY <1>1, <1>2, <1>3, <1>4, <1>10, <2>1 DEF TypesHold
<1>17. Restart'
  <2>1. Restarting' => Fresh' /\ restarts' # 0
    BY <1>1, <1>3, <1>4, <1>10, <1>11, <1>12, <1>14 DEF Restart, Fresh
  <2>2. ASSUME NEW i \in DOMAIN apiTask', isSsr(apiTask'[i])
        PROVE  i = 1 /\ \A x \in inTask' : ~isSsr(x) /\ x.stage # "item"
    BY <1>1, <1>4, <1>10, <1>12, <2>2 DEF Restart
  <2>3. ASSUME NEW i \in DOMAIN task', NEW j \in DOMAIN task', isSsr(task'[i])
        PROVE  (isSsr(task'[j]) => i = j) /\ (task'[j].stage = "item" => i < j)
    <3>1. /\ isSsr(task[i + 1]) /\ i + 1 \in DOMAIN task /\ j + 1 \in DOMAIN task /\ i \in Nat /\ j \in Nat
          /\ task'[j] = task[j + 1]
      BY <1>2, <1>4, <2>3, Pulled
    <3>2. (isSsr(task[j + 1]) => i + 1 = j + 1) /\ (task[j + 1].stage = "item" => i + 1 < j + 1)
      BY <1>1, <3>1 DEF Restart
    <3>. QED
      BY <3>1, <3>2
  <2>. QED
    BY <2>1, <2>2, <2>3 DEF Restart
<1>18. OnePlace'
  <2>1. savedIds' = savedIds
    BY <1>3 DEF savedIds
  <2>2. Distinct(task', apiTask, savedIds)
    BY <1>1, <1>2, <1>4, DistinctPulled DEF OnePlace
  <2>3. \A i \in DOMAIN apiTask' : carries(apiTask'[i]) => i \in DOMAIN apiTask /\ apiTask'[i] = apiTask[i]
    BY <1>10, <1>12
  <2>4. Distinct(task', apiTask', savedIds)
    BY ONLY <2>2, <2>3 DEF Distinct
  <2>. QED
    BY <1>1, <1>3, <2>1, <2>4 DEF OnePlace
<1>19. Numbered'
  <2>1. \A i \in 1..n : q[i] <= mSessionIdCounter
    BY <1>1, <1>6 DEF Numbered
  <2>2. ASSUME NEW x \in ToSet(drops)  PROVE \E j \in 1..n : x.id = q[j]
    <3>1. PICK j \in 1..n : x = drops[j]
      BY <1>11
    <3>2. drops[j].id = q[j]
      BY <1>9
    <3>3. x.id = q[j]
      BY <3>1, <3>2
    <3>. QED
      BY <3>3
  <2>. QED
    BY <1>1, <1>3, <1>4, <1>10, <2>1, <2>2 DEF Numbered
<1>20. HwIds'
  <2>1. Restarting' \/ \A hw \in DOMAIN mGeofences' : hw <= lastHwId'
    BY <1>1, <1>3, <1>14 DEF HwIds
  <2>2. \A x \in inTask' : /\ x.stage = "answer" /\ x.ok => x.hw <= lastHwId'
                           /\ x.stage = "breach" => x.hw <= lastHwId'
    BY <1>1, <1>3, <1>4 DEF HwIds
  <2>. QED
    BY <1>15, <2>1, <2>2 DEF HwIds, AsBefore
<1>21. Inverses'
  <2>1. ASSUME NEW hw \in DOMAIN mGeofences, mGeofences[hw].client \in mClientData \ {c}
        PROVE  keyOf(hw) \in DOMAIN mGeofenceIds' /\ mGeofenceIds'[keyOf(hw)] = hw
    BY <1>1, <1>7, <1>8, <2>1 DEF Inverses, keyOf
  <2>. QED
    BY <1>1, <1>2, <1>3, <1>7, <2>1 DEF Inverses, keyOf
<1>22. NotRestored'
  <2>1. ASSUME NEW x \in ToSet(drops)  PROVE x.op = "drop"
    <3>1. PICK j \in 1..n : x = drops[j]
      BY <1>11
    <3>. QED
      BY <1>9, <3>1
  <2>2. \A x \in inTask' \cup inApi' : x \in inTask \cup inApi \/ x.op = "drop"
    BY <1>4, <1>10, <2>1
  <2>. QED
    BY <1>1, <1>3, <2>2 DEF NotRestored
<1>23. Kept'
  BY <1>1, <1>2, <1>3, <1>14, <1>15 DEF Kept, AsBefore
<1>24. Leaving'
  <2>1. \A x : Unsaved(x) =>
          /\ x.hw <= lastHwId' /\ \A m \in inTask' : ~Gives(m, x.hw)
          /\ x.op = "drop" => \A k \in DOMAIN mGeofenceIds' : mGeofenceIds'[k] # x.hw
    BY <1>3, <1>4, <1>7 DEF Unsaved
  <2>2. ASSUME NEW i \in DOMAIN apiTask', toEngineOp(apiTask'[i], {"remove", "drop"})
        PROVE  \/ /\ apiTask'[i].hw <= lastHwId' /\ \A m \in inTask' : ~Gives(m, apiTask'[i].hw)
                  /\ apiTask'[i].op = "drop" =>
                       \A k \in DOMAIN mGeofenceIds' : mGeofenceIds'[k] # apiTask'[i].hw
               \/ (lastHwId' = 0 /\ Stale(apiTask', i))
    <3>1. CASE i \in DOMAIN apiTask
      <4>1. Unsaved(apiTask[i]) \/ (lastHwId = 0 /\ Stale(apiTask, i))
        BY <1>1, <1>10, <2>2, <3>1 DEF Leaving
      <4>2. Stale(apiTask, i) => Stale(apiTask', i)
        BY <1>2, <1>4, <1>9, <3>1, StaleJoined
      <4>. QED
        BY <1>3, <1>10, <2>1, <3>1, <4>1, <4>2
    <3>2. CASE i \notin DOMAIN apiTask
      <4>1. PICK j \in 1..n : apiTask'[i] = drops[j]
        BY <1>10, <3>2
      <4>. DEFINE hw == mGeofenceIds[<<c, q[j]>>]
      <4>2. /\ apiTask'[i].hw = hw /\ hw \in DOMAIN mGeofences /\ keyOf(hw) = <<c, q[j]>> /\ q[j] \in own
        BY <1>6, <1>9, <4>1
      <4>3. CASE ~Restarting
        <5>1. hw <= lastHwId /\ \A m \in inTask' : ~Gives(m, hw)
          BY <1>1, <1>4, <4>2, <4>3 DEF HwIds
        <5>2. \A k \in DOMAIN mGeofenceIds' : mGeofenceIds'[k] # hw
          <6>1. ASSUME NEW k \in DOMAIN mGeofenceIds', mGeofenceIds'[k] = hw  PROVE FALSE
            <7>1. k = <<c, q[j]>>
              BY <1>1, <1>7, <4>2, <6>1 DEF Inverses
            <7>. QED
              BY <1>7, <4>2, <7>1
          <6>. QED
            BY <6>1
        <5>. QED
          BY <1>3, <4>2, <5>1, <5>2
      <4>4. CASE Restarting
        <5>1. Fresh' /\ lastHwId' = 0
          BY <1>14, <1>17, <4>4 DEF Restart, Fresh
        <5>2. \A x \in DOMAIN apiTask' : apiTask'[x] \in inApi'
          BY <1>10, Elements DEF inApi
        <5>. QED
          BY <5>1, <5>2 DEF Fresh, Stale
      <4>. QED
        BY <4>3, <4>4
    <3>. QED
      BY <3>1, <3>2
  <2>3. ASSUME NEW x \in inTask', x.stage = "answer", x.op = "drop", x.ok
        PROVE  /\ x.hw <= lastHwId' /\ \A m \in inTask' : ~Gives(m, x.hw)
               /\ x.op = "drop" => \A k \in DOMAIN mGeofenceIds' : mGeofenceIds'[k] # x.hw
    BY <1>1, <1>4, <2>1, <2>3 DEF Leaving
  <2>. QED
    BY <2>2, <2>3 DEF Leaving, Unsaved
<1>25. Breaches'
  BY <1>1, <1>3, <1>4 DEF Breaches
<1>26. Owners'
  <2>1. ASSUME NEW b, NEW s, Held(b, s)'  PROVE Held(b, s)
    <3>1. CASE \E i \in 1..n : b = c /\ s = q[i]
      BY <1>6, <3>1 DEF Held
    <3>2. CASE ~(\E i \in 1..n : b = c /\ s = q[i])
      <4>1. ASSUME NEW x \in ToSet(drops)  PROVE \E j \in 1..n : x.client = c /\ x.id = q[j]
        <5>1. PICK j \in 1..n : x = drops[j]
          BY <1>11
        <5>2. drops[j].client = c /\ drops[j].id = q[j]
          BY <1>9
        <5>. QED
          BY <5>1, <5>2
      <4>2. \A x \in inTask' \cup inApi' : x \in inTask \cup inApi \/ x \in ToSet(drops)
        BY <1>4, <1>10
      <4>3. \A x \in inTask' \cup inApi' : HasId(x) /\ x.client = b /\ x.id = s => x \in inTask \cup inApi
        BY <3>2, <4>1, <4>2
      <4>. QED
        BY <1>3, <2>1, <4>3 DEF Held
    <3>. QED
      BY <3>1, <3>2
  <2>. QED
    BY <1>1, <1>3, <2>1, SameOwners
<1>. QED
  BY <1>15, <1>16, <1>17, <1>18, <1>19, <1>20, <1>21, <1>22, <1>23, <1>24, <1>25, <1>26 DEF GeoInv, AsBefore

LEMMA RestartGeofencesKeeps == GeoInv /\ RestartGeofences => GeoInv'
<1>. SUFFICES ASSUME GeoInv, RestartGeofences  PROVE GeoInv'
  OBVIOUS
<1>1. /\ TypesHold /\ Restart /\ OnePlace /\ Numbered /\ HwIds /\ Inverses /\ Agrees
      /\ NotRestored /\ Removed /\ Kept /\ Leaving /\ Breaches /\ Owners
  BY DEF GeoInv
<1>. DEFINE q == inOrder(DOMAIN mGeofences)
            n == Len(q)
            o(i) == mGeofences[q[i]]
            all == [i \in 1..n |-> toEngine("restore", o(i).client, o(i).id, 0, o(i).mask, o(i).paused)]
<1>2. /\ task # <<>> /\ isSsr(Head(task)) /\ Head(task).stage = "ssr" /\ task' = Tail(task)
      /\ apiTask' = apiTask \o all /\ mGeofences' = Empty
      /\ mGeofenceIds' = IF mGeofences = Empty THEN mGeofenceIds ELSE Empty
      /\ UNCHANGED <<clientVars, mClientData, engineVars>>
  BY DEF RestartGeofences, Message, isSsr
<1>3. /\ engine' = engine /\ lastHwId' = lastHwId /\ restarts' = restarts /\ mClientData' = mClientData
      /\ mSessionIdCounter' = mSessionIdCounter /\ mForwardMap' = mForwardMap /\ UNCHANGED dictVars
  BY <1>2 DEF clientVars, engineVars, dictVars
<1>4. /\ task \in Seq(TaskMessage) /\ apiTask \in Seq(ApiRequest) /\ task' \in Seq(TaskMessage)
      /\ Head(task) \in inTask /\ inTask = inTask' \cup {Head(task)} /\ Head(task) = task[1]
      /\ 1 \in DOMAIN task
  BY <1>1, <1>2, TaskHead, Pulled DEF TypesHold
<1>5. /\ n \in Nat /\ \A i \in 1..n : q[i] \in DOMAIN mGeofences
      /\ \A i, j \in 1..n : q[i] = q[j] => i = j
  <2>1. DOMAIN mGeofences \in SUBSET Nat /\ IsFiniteSet(DOMAIN mGeofences)
    BY <1>1 DEF TypesHold
  <2>. QED
    BY <2>1, OrderedSequence
<1>. HIDE DEF q, n
<1>6. /\ DOMAIN mGeofences' = {} /\ DOMAIN mGeofenceIds' = {}
      /\ mGeofences' \in [{} -> Item] /\ mGeofenceIds' \in [{} -> Nat]
  <2>1. mGeofences = Empty => mGeofenceIds = [k \in {} |-> mGeofenceIds[k]]
    BY <1>1 DEF Empty, Inverses, TypesHold
  <2>. QED
    BY <1>2, <2>1 DEF Empty
<1>7. \A i \in 1..n : o(i) \in Item /\ o(i).id \in savedIds
  BY <1>1, <1>5 DEF TypesHold, savedIds
<1>8. PICK back \in Seq(ApiRequest) :
        /\ apiTask' = apiTask \o back /\ DOMAIN back = 1..n
        /\ \A i \in 1..n : /\ back[i].stage = "engine" /\ back[i].op = "restore"
                           /\ back[i].client = o(i).client /\ back[i].id = o(i).id
  <2>1. \A i \in 1..n : toEngine("restore", o(i).client, o(i).id, 0, o(i).mask, o(i).paused) \in Asked
    BY <1>7 DEF toEngine, Asked, EngineOp, Item
  <2>2. all \in [1..n -> ApiRequest]
    BY <2>1 DEF ApiRequest
  <2>3. \A T : \A f \in [1..n -> T] : f \in Seq(T)
    BY <1>5
  <2>4. all \in Seq(ApiRequest) /\ DOMAIN all = 1..n
    BY <2>2, <2>3
  <2>5. \A i \in 1..n : /\ all[i].stage = "engine" /\ all[i].op = "restore"
                      /\ all[i].client = o(i).client /\ all[i].id = o(i).id
    BY DEF toEngine
  <2>. HIDE DEF all
  <2>. QED
    BY <1>2, <2>4, <2>5
<1>. HIDE DEF all
<1>9. /\ apiTask' \in Seq(ApiRequest) /\ inApi' = inApi \cup ToSet(back)
      /\ \A i \in DOMAIN apiTask : i \in DOMAIN apiTask' /\ apiTask'[i] = apiTask[i]
      /\ \A i \in DOMAIN apiTask' : i \in DOMAIN apiTask \/ \E j \in 1..n : apiTask'[i] = back[j]
      /\ \A x \in ToSet(back) : \E j \in 1..n : x = back[j]
  <2>1. back \in Seq(ApiRequest) /\ apiTask \in Seq(ApiRequest) /\ apiTask' = apiTask \o back
    BY <1>2, <1>4, <1>8
  <2>2. apiTask' \in Seq(ApiRequest)
    BY ONLY <2>1, Behind
  <2>3. \A x : x \in ToSet(apiTask') <=> x \in ToSet(apiTask) \/ x \in ToSet(back)
    BY ONLY <2>1, Behind
  <2>4. \A i \in DOMAIN apiTask : i \in DOMAIN apiTask' /\ apiTask'[i] = apiTask[i]
    BY ONLY <2>1, Behind
  <2>5. \A i \in DOMAIN apiTask' : i \in DOMAIN apiTask \/ \E j \in DOMAIN back : apiTask'[i] = back[j]
    BY ONLY <2>1, Behind
  <2>6. \A x \in ToSet(back) : \E j \in DOMAIN back : x = back[j]
    BY ONLY <2>1, Behind
  <2>7. inApi' = inApi \cup ToSet(back)
    BY ONLY <2>3 DEF inApi
  <2>8. DOMAIN back = 1..n
    BY <1>8
  <2>. QED
    BY ONLY <2>2, <2>4, <2>5, <2>6, <2>7, <2>8
<1>10. \A x \in ToSet(back) : \E j \in 1..n : x = back[j]
  BY <1>9
<1>11. \A j \in 1..n : ~isSsr(back[j]) /\ HasId(back[j])
  BY <1>8 DEF isSsr, HasId
<1>12. Restarting /\ Fresh /\ restarts # 0
  BY <1>1, <1>2, <1>4 DEF Restarting, Restart
<1>13. ~Restarting' /\ Restart'
  <2>1. \A i \in DOMAIN task' : ~isSsr(task'[i])
    <3>1. ASSUME NEW i \in DOMAIN task', isSsr(task'[i])  PROVE FALSE
      <4>1. i \in Nat /\ 1 <= i /\ i + 1 \in DOMAIN task /\ task'[i] = task[i + 1]
        BY <1>2, <1>4, Pulled
      <4>2. 1 = i + 1
        BY <1>1, <1>2, <1>4, <3>1, <4>1 DEF Restart
      <4>. QED
        BY <4>1, <4>2
    <3>. QED
      BY <3>1
  <2>2. \A i \in DOMAIN apiTask : ~isSsr(apiTask[i])
    BY <1>1, <1>2, <1>4 DEF Restart
  <2>3. \A i \in DOMAIN apiTask' : ~isSsr(apiTask'[i])
    BY <1>9, <1>11, <2>2
  <2>4. ~Restarting'
    BY <1>4, <1>9, <2>1, <2>3, Elements DEF Restarting, inTask, inApi
  <2>. QED
    BY <2>1, <2>3, <2>4 DEF Restart
<1>14. TypesHold'
  <2>1. IsFiniteSet(DOMAIN mGeofences')
    BY <1>6, FS_EmptySet
  <2>. QED
    BY <1>1, <1>3, <1>4, <1>6, <1>9, <2>1 DEF TypesHold
<1>15. OnePlace'
  <2>1. savedIds' = {}
    BY <1>6 DEF savedIds
  <2>2. Distinct(task', apiTask, savedIds)
    BY <1>1, <1>2, <1>4, DistinctPulled DEF OnePlace
  <2>3. \A i \in DOMAIN back : carries(back[i]) => back[i].id \in savedIds
    BY <1>7, <1>8
  <2>4. \A i, j \in DOMAIN back : carries(back[i]) /\ carries(back[j]) /\ back[i].id = back[j].id => i = j
    BY <1>1, <1>5, <1>8 DEF OnePlace
  <2>5. Distinct(task', apiTask \o back, {})
    BY <1>4, <1>8, <2>2, <2>3, <2>4, DistinctJoined
  <2>. QED
    BY <1>6, <1>8, <2>1, <2>5 DEF OnePlace
<1>16. Numbered'
  <2>1. \A i \in 1..n : o(i).id <= mSessionIdCounter
    BY <1>1, <1>5 DEF Numbered
  <2>2. ASSUME NEW x \in ToSet(back)  PROVE x.id <= mSessionIdCounter
    <3>1. PICK j \in 1..n : x = back[j]
      BY <1>10
    <3>2. back[j].id = o(j).id
      BY <1>8
    <3>. QED
      BY <2>1, <3>1, <3>2
  <2>. QED
    BY <1>1, <1>3, <1>4, <1>6, <1>9, <2>2 DEF Numbered
<1>17. \A m \in inTask' : m.stage # "breach" /\ (m.stage = "answer" => ~m.ok)
  BY <1>4, <1>12 DEF Fresh
<1>18. HwIds' /\ Inverses' /\ Agrees' /\ Removed' /\ Kept' /\ Breaches'
  <2>1. DOMAIN engine' = {}
    BY <1>3, <1>12 DEF Fresh
  <2>2. \A m \in inTask' : \A hw : ~Gives(m, hw) /\ ~Takes(m, hw)
    BY <1>17 DEF Gives, Takes, Ok
  <2>3. HwIds' /\ Inverses'
    BY <1>6, <1>17, <2>1, <2>2 DEF HwIds, Inverses
  <2>4. Agrees' /\ Removed' /\ Kept' /\ Breaches'
    BY <1>6, <1>17, <2>1 DEF Agrees, Removed, Kept, Breaches
  <2>. QED
    BY <2>3, <2>4
<1>19. NotRestored'
  BY <1>3, <1>12 DEF NotRestored
<1>20. Leaving'
  <2>1. lastHwId' = 0 /\ \A i \in DOMAIN apiTask : ~toEngineOp(apiTask[i], {"add", "restore"})
    BY <1>3, <1>4, <1>12, Elements DEF Fresh, inApi
  <2>2. ASSUME NEW i \in DOMAIN apiTask', toEngineOp(apiTask'[i], {"remove", "drop"})
        PROVE  Stale(apiTask', i)
    <3>1. i \in DOMAIN apiTask
      BY <1>8, <1>9, <2>2 DEF toEngineOp
    <3>2. Stale(apiTask, i)
      BY <2>1 DEF Stale
    <3>. QED
      BY <1>2, <1>4, <1>8, <3>1, <3>2, StaleJoined
  <2>. QED
    BY <1>17, <2>1, <2>2 DEF Leaving
<1>21. Owners'
  <2>1. ASSUME NEW b, NEW s, Held(b, s)'  PROVE Held(b, s)
    <3>1. CASE \E i \in 1..n : b = o(i).client /\ s = o(i).id
      BY <1>5, <3>1 DEF Held
    <3>2. CASE ~(\E i \in 1..n : b = o(i).client /\ s = o(i).id)
      <4>1. ASSUME NEW x \in ToSet(back)
            PROVE  \E j \in 1..n : x.client = o(j).client /\ x.id = o(j).id
        <5>1. PICK j \in 1..n : x = back[j]
          BY <1>10
        <5>2. back[j].client = o(j).client /\ back[j].id = o(j).id
          BY <1>8
        <5>. QED
          BY <5>1, <5>2
      <4>2. \A x \in inTask' \cup inApi' : x \in inTask \cup inApi \/ x \in ToSet(back)
        BY <1>4, <1>9
      <4>3. \A x \in inTask' \cup inApi' : HasId(x) /\ x.client = b /\ x.id = s => x \in inTask \cup inApi
        BY <3>2, <4>1, <4>2
      <4>. QED
        BY <1>6, <2>1, <4>3 DEF Held
    <3>. QED
      BY <3>1, <3>2
  <2>. QED
    BY <1>1, <1>3, <2>1, SameOwners
<1>. QED
  BY <1>13, <1>14, <1>15, <1>16, <1>18, <1>19, <1>20, <1>21 DEF GeoInv
------------------------------------------------------------------------------
(* The theorems.                                                           *)

LEMMA AnswerKeeps == GeoInv /\ AnswerOk => GeoInv'
<1>. SUFFICES ASSUME GeoInv, AnswerOk  PROVE GeoInv'
  OBVIOUS
<1>1. Head(task).op \in EngineOp
  <2>1. TypesHold /\ task # <<>> /\ Head(task).stage = "answer"
    BY DEF GeoInv, AnswerOk, Message
  <2>2. Head(task) \in Answer
    BY <2>1, TaskHead, Kinds
  <2>. QED
    BY <2>2 DEF Answer
<1>2. CASE Head(task).op \in {"add", "restore"}
  BY <1>2, AdditionAnswered
<1>3. CASE Head(task).op \in {"remove", "drop"}
  BY <1>3, RemovalAnswered
<1>4. CASE Head(task).op \in {"pause", "resume", "modify", "repause"}
  BY <1>4, ChangeAnswered
<1>. QED
  BY <1>1, <1>2, <1>3, <1>4 DEF EngineOp, Op

LEMMA StutterKeeps == GeoInv /\ UNCHANGED vars => GeoInv'
<1>. SUFFICES ASSUME Core, Owners, UNCHANGED vars  PROVE Core' /\ Owners'
  BY GeoParts DEF GeoInv, Core, Owners
<1>1. /\ task' = task /\ apiTask' = apiTask /\ mGeofences' = mGeofences
      /\ mGeofenceIds' = mGeofenceIds /\ engine' = engine /\ lastHwId' = lastHwId
      /\ restarts' = restarts /\ mSessionIdCounter' = mSessionIdCounter
      /\ mClientData' = mClientData /\ mForwardMap' = mForwardMap /\ UNCHANGED dictVars
  BY DEF vars, clientVars, adapterVars, engineVars, dictVars
<1>2. inTask' = inTask /\ inApi' = inApi /\ (Restarting' <=> Restarting) /\ savedIds' = savedIds
  BY <1>1 DEF inTask, inApi, Restarting, savedIds
<1>3. TypesHold' /\ Restart' /\ OnePlace'
  BY <1>1, <1>2 DEF Core, TypesHold, Restart, Fresh, OnePlace
<1>4. Numbered' /\ HwIds' /\ Inverses'
  BY <1>1, <1>2 DEF Core, Numbered, HwIds, Inverses, keyOf
<1>5. Agrees' /\ NotRestored' /\ Removed' /\ Kept'
  BY <1>1, <1>2 DEF Core, Agrees, NotRestored, Removed, Kept
<1>6. Leaving' /\ Breaches'
  BY <1>1, <1>2 DEF Core, Leaving, Unsaved, Breaches
<1>7. Owners'
  <2>1. \A c, s : Held(c, s)' => Held(c, s)
    BY <1>1, <1>2 DEF Held
  <2>. QED
    BY <1>1, <2>1, SameOwners
<1>. QED
  BY <1>3, <1>4, <1>5, <1>6, <1>7 DEF Core

LEMMA GeoInit == Init => GeoInv
<1>. SUFFICES ASSUME Init  PROVE GeoInv
  OBVIOUS
<1>1. /\ task = <<>> /\ apiTask = <<>> /\ DOMAIN task = {} /\ DOMAIN apiTask = {}
      /\ mGeofences = Empty /\ mGeofenceIds = Empty /\ engine = Empty /\ mBackwardMap = Empty
      /\ mSessionIdCounter = 0 /\ restarts = 0 /\ lastHwId = 0 /\ mClientData = Client
      /\ mForwardMap = [c \in Client |-> Empty]
  BY DEF Init
<1>2. DOMAIN Empty = {} /\ \A T : Empty \in [{} -> T]
  BY DEF Empty
<1>3. inTask = {} /\ inApi = {} /\ ~Restarting
  BY <1>1 DEF inTask, inApi, Restarting, ToSet
<1>4. TypesHold
  <2>1. IsFiniteSet(DOMAIN mGeofences)
    BY <1>1, <1>2, FS_EmptySet
  <2>2. task \in Seq(TaskMessage) /\ apiTask \in Seq(ApiRequest)
    BY <1>1
  <2>3. mForwardMap = [c \in Client |-> mForwardMap[c]]
    BY <1>1
  <2>4. mSessionIdCounter \in 0..MaxSession
    BY <1>1, GeofenceAssumption
  <2>. QED
    BY <1>1, <1>2, <2>1, <2>2, <2>3, <2>4 DEF TypesHold
<1>5. Restart /\ OnePlace /\ Numbered /\ HwIds
  BY <1>1, <1>2, <1>3 DEF Restart, OnePlace, Distinct, Numbered, HwIds
<1>6. Inverses /\ Agrees /\ NotRestored /\ Removed /\ Kept /\ Leaving /\ Breaches
  BY <1>1, <1>2, <1>3 DEF Inverses, Agrees, NotRestored, Removed, Kept, Leaving, Breaches
<1>7. Owners
  <2>1. PICK own \in [Session -> Client \cup {None}] : own = [s \in Session |-> None]
    OBVIOUS
  <2>2. OwnedBy(own)
    BY <1>1, <1>2, <1>3 DEF OwnedBy
  <2>. QED
    BY <2>2 DEF Owners
<1>. QED
  BY <1>4, <1>5, <1>6, <1>7 DEF GeoInv

LEMMA GeoNext ==
  ASSUME ~crossed', GeoInv, [Next]_vars
  PROVE  GeoInv'
<1>1. CASE Calls
  BY <1>1, CallsKeep
<1>2. CASE AdapterRuns
  BY <1>2, CommandKeeps, ItemKeeps, NoticeKeeps, AnswerKeeps, RemoveClientKeeps, RestartGeofencesKeeps
     DEF AdapterRuns
<1>3. CASE ApiRuns
  BY <1>3, ReturnKeeps, EngineAddsKeeps, EngineChangesKeeps DEF ApiRuns
<1>4. CASE ModemActs
  BY <1>4, ModemRestartsKeeps, ReportKeeps DEF ModemActs
<1>5. CASE UNCHANGED vars
  BY <1>5, StutterKeeps
<1>. QED
  BY <1>1, <1>2, <1>3, <1>4, <1>5 DEF Next

\* A restart that met messages under way is not forgotten.
LEMMA CrossedStays ==
  ASSUME [Next]_vars, crossed
  PROVE  crossed'
<1>1. CASE ModemRestarts
  BY Zenon, <1>1 DEF ModemRestarts
<1>2. ASSUME NEW hw \in HwId, EngineReportsBreach(hw)
      PROVE  crossed'
  BY Zenon, <1>2 DEF EngineReportsBreach, engineVars
<1>3. CASE Calls
  <2>. SUFFICES crossed' = crossed
    OBVIOUS
  <2>1. ASSUME NEW c \in Client, destroy(c)
        PROVE  crossed' = crossed
    BY Zenon, <2>1 DEF destroy, engineVars
  <2>2. ASSUME NEW c \in Client, NEW f \in Fence[c],
               locAPIRemoveGeofences(c, f) \/ locAPIPauseGeofences(c, f)
        PROVE  crossed' = crossed
    BY Zenon, <2>2 DEF locAPIRemoveGeofences, locAPIPauseGeofences, engineVars
  <2>3. ASSUME NEW c \in Client, NEW f \in Fence[c], NEW m \in Mask,
               \/ locAPIAddGeofences(c, f, m) \/ locAPIModifyGeofences(c, f, m)
               \/ locAPIResumeGeofences(c, f, m)
        PROVE  crossed' = crossed
    BY Zenon, <2>3 DEF locAPIAddGeofences, locAPIModifyGeofences, locAPIResumeGeofences,
       engineVars
  <2>. QED
    BY Zenon, <1>3, <2>1, <2>2, <2>3 DEF Calls
<1>4. CASE AdapterRuns
  BY Zenon, <1>4 DEF AdapterRuns, Command, addItem, knownItem, unknownItem, AnswerOk,
     AnswerFailed, RemoveClient, RestartGeofences, Breach, engineVars
<1>5. CASE ApiRuns
  BY Zenon, <1>5 DEF ApiRuns, AddToCallQueue, EngineFails, EngineAdds, EngineChanges, LocSsr,
     engineVars
<1>6. CASE UNCHANGED vars
  BY Zenon, <1>6 DEF vars, engineVars
<1>. QED
  BY Zenon, <1>1, <1>2, <1>3, <1>4, <1>5, <1>6 DEF Next, ModemActs

\* The invariant holds of every execution until the modem restarts with messages
\* under way: whatever the clients ask of the adapter, whichever requests of
\* LocApiBase fail and however often the modem restarts at rest (the handlers of
\* GeofenceAdapter.cpp).
THEOREM GeofencesAgree == Spec => [](~crossed => GeoInv)
<1>1. (~crossed => GeoInv) /\ [Next]_vars => (~crossed => GeoInv)'
  BY Zenon, GeoNext, CrossedStays
<1>. QED
  BY <1>1, GeoInit, PTL DEF Spec

\* With nothing under way the adapter knows each fence the modem watches, by
\* the number it has there and with its options, and the modem watches each
\* fence of a client that is there; the adapter's two maps agree.  This is so
\* until the modem restarts with messages under way, as EngineFollows has it
\* (saveGeofenceItem, removeGeofenceItem, modifyGeofenceItem and
\* restartGeofences of GeofenceAdapter.cpp).
THEOREM EngineIsFollowed == Spec => []EngineFollows
<1>1. (~crossed => GeoInv) => EngineFollows
  <2>. SUFFICES ASSUME GeoInv, task = <<>>, apiTask = <<>>
       PROVE  /\ \A hw \in DOMAIN engine :
                  /\ hw \in DOMAIN mGeofences
                  /\ engine[hw].id = mGeofences[hw].id
                  /\ engine[hw].mask = mGeofences[hw].mask
                  /\ restarts = 0 => engine[hw].paused = mGeofences[hw].paused
              /\ \A hw \in DOMAIN mGeofences :
                  mGeofences[hw].client \in mClientData =>
                      /\ hw \in DOMAIN engine
                      /\ keyOf(hw) \in DOMAIN mGeofenceIds /\ mGeofenceIds[keyOf(hw)] = hw
              /\ \A k \in DOMAIN mGeofenceIds :
                  mGeofenceIds[k] \in DOMAIN mGeofences /\ keyOf(mGeofenceIds[k]) = k
    BY DEF EngineFollows
  <2>1. Agrees /\ Kept /\ Inverses
    BY DEF GeoInv
  <2>2. DOMAIN task = {} /\ inTask = {} /\ inApi = {} /\ ~Restarting
    BY DEF inTask, inApi, Restarting, ToSet
  <2>3. \A hw, field, v, known, w : Tells(task, hw, field, v, known, w) => known /\ w = v
    BY <2>2 DEF Tells, Latest
  <2>4. ASSUME NEW hw \in DOMAIN engine
        PROVE  /\ hw \in DOMAIN mGeofences
               /\ engine[hw].id = mGeofences[hw].id
               /\ engine[hw].mask = mGeofences[hw].mask
               /\ restarts = 0 => engine[hw].paused = mGeofences[hw].paused
    <3>. DEFINE known == hw \in DOMAIN mGeofences
    <3>1. /\ Tells(task, hw, "id", engine[hw].id, known, mGeofences[hw].id)
          /\ Tells(task, hw, "mask", engine[hw].mask, known, mGeofences[hw].mask)
          /\ restarts = 0 => Tells(task, hw, "paused", engine[hw].paused, known, mGeofences[hw].paused)
      BY <2>1 DEF Agrees
    <3>2. known => hw \in DOMAIN mGeofences
      OBVIOUS
    <3>. HIDE DEF known
    <3>. QED
      BY <2>3, <3>1, <3>2
  <2>5. \A hw \in DOMAIN mGeofences : mGeofences[hw].client \in mClientData => hw \in DOMAIN engine
    BY <2>1, <2>2 DEF Kept
  <2>. QED
    BY <2>1, <2>4, <2>5 DEF Inverses
<1>. QED
  BY <1>1, GeofencesAgree, PTL

\* What the framework is told of a breach is about the fence the modem saw
\* crossed, and a client that awaits its answers is told of none it removed,
\* until the modem restarts with messages under way
\* (geofenceBreach of GeofenceAdapter.cpp, and the maps of BiDict).
THEOREM BreachesAreOwn == Spec => [](~crossed => BreachIsOwn)
<1>1. GeoInv => BreachIsOwn
  <2>. DEFINE m == Head(task)
              s == mGeofences[m.hw].id
              c == mGeofences[m.hw].client
  <2>. SUFFICES ASSUME GeoInv, Message("breach"), breachTarget(m) # None
       PROVE  /\ mGeofences[m.hw].id = m.id
              /\ breachTarget(m)[1] \in Careful =>
                   /\ breachTarget(m)[2] \in DOMAIN mForwardMap[breachTarget(m)[1]]
                   /\ mForwardMap[breachTarget(m)[1]][breachTarget(m)[2]] = m.id
    BY DEF BreachIsOwn
  <2>1. /\ m.hw \in DOMAIN mGeofences /\ s \in DOMAIN mBackwardMap
        /\ breachTarget(m) = <<c, mBackwardMap[s]>>
    BY DEF breachTarget
  <2>2. TypesHold /\ Breaches /\ Owners
    BY DEF GeoInv
  <2>3. m \in inTask /\ m.stage = "breach" /\ s = m.id
    BY <2>1, <2>2, TaskHead DEF Message, Breaches
  <2>4. PICK own \in [Session -> Client \cup {None}] : OwnedBy(own)
    BY <2>2 DEF Owners
  <2>5. own[s] = c
    BY <2>1, <2>4 DEF OwnedBy
  <2>6. c \in Careful => mBackwardMap[s] \in DOMAIN mForwardMap[c] /\ mForwardMap[c][mBackwardMap[s]] = s
    BY <2>1, <2>4, <2>5 DEF OwnedBy
  <2>. QED
    BY <2>1, <2>3, <2>6
<1>. QED
  BY <1>1, GeofencesAgree, PTL
=============================================================================
