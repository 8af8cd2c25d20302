--------------------------- MODULE TrackingProofs ---------------------------
(***************************************************************************)
(* The tracking sessions, for any number of sessions, options, failures    *)
(* and restarts.  For each session the invariant counts what its client    *)
(* will be answered for - commands, calls and answers under way - and, for *)
(* a client that waits for its answers, relates the one thing under way to *)
(* the maps; and it follows what the engine will run once it has executed  *)
(* its calls.  Beside the sessions, the callbacks and the measurements of  *)
(* the framework (GnssHal, Measurements): whom a callback that runs tells, *)
(* and what; and what every report becomes in each version.                *)
(***************************************************************************)
EXTENDS Tracking_MC, FiniteSetTheorems, SequenceTheorems, WellFoundedInduction, TLAPS

\* The calls the adapter makes, and the messages it receives.
FitCall == {c \in Call :
  /\ c.session = None => c.what = "start" /\ c.then = "none"
  /\ c.what \in {"start", "startDistance"} => c.options \in TrackingOptions
  /\ c.what = "stop" => c.options = None
  /\ c.then \in {"updated", "toTime", "restartDistance", "distanceRestarted"} =>
       c.saved \in TrackingOptions}
Answer == {"response"} \X {c \in FitCall : c.then # "none"} \X {"SUCCESS", "FAILURE"}
Parked == {"start", "update"} \X Session \X TrackingOptions
Message == Command \cup Answer \cup {<<"engineUp">>}
Named == {"start", "update", "stop", "remove"}

Types ==
  /\ timeBased \in [Session -> TrackingOptions \cup {None}]
  /\ distanceBased \in [Session -> TrackingOptions \cup {None}]
  /\ known \in {"yes", "no"} /\ modem \in {"up", "down"}
  /\ pending \in Seq(Parked) /\ queue \in Seq(Message) /\ calls \in Seq(FitCall)
  /\ engine \in TrackingOptions \cup {None} /\ engineDistance \subseteq Session
  /\ client \in [Session -> {"new", "on", "off", "leaving", "gone"}]
  /\ owed \in [Session -> Int]
  /\ hasty \subseteq Session /\ failed \subseteq Session \cup {None}

\* Of a sequence: its elements, how many are in E, and the last one that is.
Elems(q) == {q[i] : i \in 1..Len(q)}
Count(q, E) == Cardinality({i \in 1..Len(q) : q[i] \in E})
LastOf(q, E, c) == \E i \in 1..Len(q) :
  q[i] = c /\ c \in E /\ \A j \in 1..Len(q) : j > i => q[j] \notin E

\* What is under way for a session: a command, or a call with its continuation.
Of(m, k, s) == \/ m[1] = k /\ k \in Named /\ m[2] = s
               \/ m[1] = "response" /\ m[2].session = s /\ m[2].then = k
Underway(k, s) == \/ \E m \in Elems(queue) \cup Elems(pending) : Of(m, k, s)
                  \/ \E c \in Elems(calls) : c.session = s /\ c.then = k
Silent == {"none", "clientStopped", "remove"}

\* What its client will be answered for, and how much of it there is.
Owed(s) == {m \in Message :
  \/ m[1] \in Named \ Silent /\ m[2] = s
  \/ m[1] = "response" /\ m[2].session = s /\ m[2].then \notin Silent}
OwedCalls(s) == {c \in FitCall : c.session = s /\ c.then \notin Silent}
under(s) == Count(queue, Owed(s)) + Count(pending, Owed(s)) + Count(calls, OwedCalls(s))

Counted(s) ==
  /\ client[s] = "gone" => owed[s] = 0
  /\ client[s] # "gone" => under(s) <= owed[s] /\ (s \notin failed => owed[s] = under(s))
  /\ s \notin hasty => owed[s] <= 1 /\ (client[s] \in {"new", "leaving"} => owed[s] = 0)

\* A session is in one map, or in none, as its client wants it.
InOne(s)   == s \in TimeBased \cup DistanceBased /\ s \notin TimeBased \cap DistanceBased
InNone(s)  == s \notin TimeBased \cup DistanceBased
Settled(s) == IF client[s] = "on" THEN InOne(s) ELSE InNone(s)

\* What the maps hold while k is under way for a session.
Stage(k, s) ==
  /\ k = "start" => client[s] = "on" /\ InNone(s)
  /\ k = "update" => client[s] = "on" /\ InOne(s)
  /\ k = "stop" => client[s] = "off" /\ InOne(s)
  /\ k \in {"started", "stopped"} =>
       (client[s] \in {"on", "off"} /\ Settled(s)) \/ client[s] = "gone"
  /\ k = "updated" => client[s] = "on" /\ s \in TimeBased \ DistanceBased
  /\ k = "distanceStopped" => client[s] = "off" /\ s \in DistanceBased \ TimeBased
  /\ k = "toTime" => client[s] = "on" /\ InNone(s)
  /\ k \in {"restartDistance", "distanceRestarted"} =>
       client[s] = "on" /\ s \in DistanceBased \ TimeBased
  /\ k = "remove" => client[s] \in {"leaving", "gone"}
  /\ k = "clientStopped" => client[s] = "gone"
Staged(s) == s \notin hasty \cup failed =>
  /\ client[s] = "new" => InNone(s)
  /\ client[s] \in {"on", "off"} /\ owed[s] = 0 => Settled(s)
  /\ client[s] = "leaving" => s \notin TimeBased \cap DistanceBased
  /\ client[s] = "gone" =>
       s \notin TimeBased /\ (s \in DistanceBased => Underway("clientStopped", s))
  /\ \A k : Underway(k, s) => Stage(k, s)

\* Failures are known, and commands wait only for the modem.
Told == \A m \in Elems(queue) : m[1] = "response" /\ m[3] = "FAILURE" => m[2].session \in failed
Comes == <<"engineUp">> \in Elems(queue)
Waits == /\ known = "no" => modem = "down" \/ Comes
         /\ known = "yes" => pending = <<>>

\* What the engine runs once it has executed its calls.
TimeCalls == {c \in FitCall : c.what \in {"start", "stop"}}
DistanceCalls(s) == {c \in FitCall : c.what \in {"startDistance", "stopDistance"} /\ c.session = s}
Final(o) == \/ Elems(calls) \cap TimeCalls = {} /\ o = engine
            \/ \E c \in FitCall : LastOf(calls, TimeCalls, c) /\ c.options = o
Watches(s) == \/ Elems(calls) \cap DistanceCalls(s) = {} /\ s \in engineDistance
              \/ \E c \in FitCall : LastOf(calls, DistanceCalls(s), c) /\ c.what = "startDistance"
serves(o) == \A s \in TimeBased : o \in TrackingOptions /\ o.interval <= interval(s)
Up == failed = {} /\ modem = "up" /\ ~Comes
Served  == Up /\ TimeBased # {} => \E o : Final(o) /\ serves(o)
Rests   == failed = {} /\ hasty = {} /\ TimeBased = {} => Final(None)
Watched == Up => \A s \in DistanceBased \ hasty :
  Watches(s) \/ \E k \in {"restartDistance", "distanceStopped", "clientStopped"} : Underway(k, s)

IInv == /\ Types /\ Told /\ Waits
        /\ \A s \in Session : Counted(s) /\ Staged(s)
        /\ Served /\ Rests /\ Watched
------------------------------------------------------------------------------
(* Sequences: elements, counts and last elements.                          *)

LEMMA Counting ==
  ASSUME NEW T, NEW q \in Seq(T), NEW E
  PROVE  /\ IsFiniteSet({i \in 1..Len(q) : q[i] \in E}) /\ Count(q, E) \in Nat
         /\ Count(q, E) = 0 <=> Elems(q) \cap E = {}
<1>. DEFINE S == {i \in 1..Len(q) : q[i] \in E}
<1>1. IsFiniteSet(S)
  <2>1. IsFiniteSet(1..Len(q)) /\ S \in SUBSET (1..Len(q))
    BY FS_Interval
  <2>. QED
    BY <2>1, FS_Subset
<1>2. Cardinality(S) \in Nat /\ (Cardinality(S) = 0 <=> S = {})
  BY <1>1, FS_CardinalityType, FS_EmptySet
<1>3. S = {} <=> Elems(q) \cap E = {}
  BY DEF Elems
<1>. QED
  BY <1>1, <1>2, <1>3 DEF Count

LEMMA Single ==
  ASSUME NEW T, NEW x \in T
  PROVE  /\ <<x>> \in Seq(T) /\ Elems(<<x>>) = {x}
         /\ \A E : Count(<<x>>, E) = IF x \in E THEN 1 ELSE 0
         /\ \A E : x \in E => LastOf(<<x>>, E, x)
<1>1. <<x>> \in Seq(T) /\ Len(<<x>>) = 1 /\ <<x>>[1] = x /\ 1..1 = {1}
  OBVIOUS
<1>. DEFINE r == <<x>>
<1>. HIDE DEF r
<1>2. Len(r) = 1 /\ r[1] = x
  BY <1>1 DEF r
<1>3. Elems(r) = {x}
  BY <1>1, <1>2 DEF Elems
<1>4. ASSUME NEW E  PROVE Count(r, E) = IF x \in E THEN 1 ELSE 0
  <2>1. {i \in 1..Len(r) : r[i] \in E} = IF x \in E THEN {1} ELSE {}
    BY <1>1, <1>2
  <2>. QED
    BY <2>1, FS_Singleton, FS_EmptySet DEF Count
<1>5. ASSUME NEW E, x \in E  PROVE LastOf(r, E, x)
  BY <1>1, <1>2, <1>5 DEF LastOf
<1>. QED
  BY <1>1, <1>3, <1>4, <1>5 DEF r

LEMMA Joined ==
  ASSUME NEW T, NEW q \in Seq(T), NEW r \in Seq(T)
  PROVE  /\ q \o r \in Seq(T) /\ Elems(q \o r) = Elems(q) \cup Elems(r)
         /\ \A E : Count(q \o r, E) = Count(q, E) + Count(r, E)
         /\ \A E, c : LastOf(r, E, c) => LastOf(q \o r, E, c)
         /\ \A E, c : LastOf(q, E, c) /\ Elems(r) \cap E = {} => LastOf(q \o r, E, c)
<1>. DEFINE p == q \o r
            k == Len(q)
<1>1. /\ p \in Seq(T) /\ k \in Nat /\ Len(r) \in Nat /\ Len(p) = k + Len(r)
      /\ \A n \in 1..k : n \in 1..Len(p) /\ p[n] = q[n]
      /\ \A n \in 1..Len(r) : k + n \in 1..Len(p) /\ p[k + n] = r[n]
      /\ \A n \in 1..Len(p) : n \in 1..k \/ n - k \in 1..Len(r)
  OBVIOUS
<1>. HIDE DEF p, k
<1>2. \A n \in 1..Len(p) : n \in 1..k \/ (n - k \in 1..Len(r) /\ p[n] = r[n - k])
  <2>1. \A n \in 1..Len(p) : n = k + (n - k)
    BY <1>1
  <2>. QED
    BY <1>1, <2>1
<1>3. Elems(p) = Elems(q) \cup Elems(r)
  <2>1. Elems(p) \subseteq Elems(q) \cup Elems(r)
    BY <1>1, <1>2 DEF Elems, k
  <2>2. Elems(q) \subseteq Elems(p)
    BY <1>1 DEF Elems, k
  <2>3. Elems(r) \subseteq Elems(p)
    BY <1>1 DEF Elems
  <2>. QED
    BY <2>1, <2>2, <2>3
<1>4. ASSUME NEW E  PROVE Count(p, E) = Count(q, E) + Count(r, E)
  <2>. DEFINE A == {i \in 1..Len(q) : q[i] \in E}
              B == {i \in 1..Len(r) : r[i] \in E}
              C == {i \in k + 1 .. k + Len(r) : p[i] \in E}
              f == [i \in B |-> k + i]
  <2>1. IsFiniteSet(A) /\ IsFiniteSet(B) /\ Cardinality(A) \in Nat /\ Cardinality(B) \in Nat
    <3>1. IsFiniteSet(A)
      <4>1. A \in SUBSET (1..Len(q)) /\ IsFiniteSet(1..Len(q))
        BY FS_Interval
      <4>. QED
        BY <4>1, FS_Subset
    <3>2. IsFiniteSet(B)
      <4>1. B \in SUBSET (1..Len(r)) /\ IsFiniteSet(1..Len(r))
        BY FS_Interval
      <4>. QED
        BY <4>1, FS_Subset
    <3>. HIDE DEF A, B
    <3>. QED
      BY <3>1, <3>2, FS_CardinalityType
  <2>2. f \in Bijection(B, C)
    <3>1. \A i \in B : k + i \in C
      BY <1>1
    <3>2. \A i, j \in B : k + i = k + j => i = j
      BY <1>1
    <3>3. \A n \in C : \E i \in B : k + i = n
      <4> SUFFICES ASSUME NEW n \in C  PROVE \E i \in B : k + i = n
        OBVIOUS
      <4>1. n - k \in 1..Len(r) /\ k + (n - k) = n
        BY <1>1
      <4>2. r[n - k] = p[n]
        BY <1>1, <4>1
      <4>. QED
        BY <4>1, <4>2
    <3>4. f \in [B -> C] /\ \A i \in B : f[i] = k + i
      BY <3>1
    <3>. HIDE DEF B, C, f
    <3>5. IsInjective(f)
      BY <3>2, <3>4 DEF IsInjective
    <3>. QED
      BY <3>3, <3>4, <3>5 DEF Bijection, Injection, Surjection
  <2>3. IsFiniteSet(C) /\ Cardinality(C) = Cardinality(B)
    <3>1. ExistsBijection(B, C)
      BY <2>2 DEF ExistsBijection
    <3>. HIDE DEF B, C
    <3>. QED
      BY <2>1, <3>1, FS_Bijection
  <2>4. A \cap C = {}
    BY <1>1 DEF k
  <2>5. {i \in 1..Len(p) : p[i] \in E} = A \cup C
    <3>1. \A i \in 1..Len(p) : p[i] \in E => i \in A \cup C
      BY <1>1 DEF k
    <3>2. \A i \in A : i \in 1..Len(p) /\ p[i] \in E
      BY <1>1 DEF k
    <3>3. \A i \in C : i \in 1..Len(p) /\ p[i] \in E
      BY <1>1
    <3>. QED
      BY <3>1, <3>2, <3>3
  <2>6. Cardinality(A \cup C) = Cardinality(A) + Cardinality(C)
    <3>. HIDE DEF A, C
    <3>1. Cardinality(A \cup C) = Cardinality(A) + Cardinality(C) - Cardinality({})
      BY <2>1, <2>3, <2>4, FS_Union
    <3>. HIDE DEF B
    <3>. QED
      BY <2>1, <2>3, <3>1, FS_EmptySet
  <2>. QED
    BY <2>3, <2>5, <2>6 DEF Count
<1>5. ASSUME NEW E, NEW c, LastOf(r, E, c)  PROVE LastOf(p, E, c)
  <2>1. PICK i \in 1..Len(r) : r[i] = c /\ c \in E /\ \A j \in 1..Len(r) : j > i => r[j] \notin E
    BY <1>5 DEF LastOf
  <2>2. k + i \in 1..Len(p) /\ p[k + i] = c
    BY <1>1, <2>1
  <2>3. \A j \in 1..Len(p) : j > k + i => p[j] \notin E
    BY <1>1, <1>2, <2>1
  <2>. QED
    BY <2>1, <2>2, <2>3 DEF LastOf
<1>6. ASSUME NEW E, NEW c, LastOf(q, E, c), Elems(r) \cap E = {}  PROVE LastOf(p, E, c)
  <2>1. PICK i \in 1..k : q[i] = c /\ c \in E /\ \A j \in 1..k : j > i => q[j] \notin E
    BY <1>6 DEF LastOf, k
  <2>2. \A j \in 1..Len(r) : r[j] \notin E
    BY <1>6 DEF Elems
  <2>3. i \in 1..Len(p) /\ p[i] = c
    BY <1>1, <2>1
  <2>4. \A j \in 1..Len(p) : j > i => p[j] \notin E
    BY <1>1, <1>2, <2>1, <2>2
  <2>. QED
    BY <2>1, <2>3, <2>4 DEF LastOf
<1>. QED
  BY <1>1, <1>3, <1>4, <1>5, <1>6 DEF p

LEMMA Taken ==
  ASSUME NEW T, NEW q \in Seq(T), q # <<>>
  PROVE  /\ Tail(q) \in Seq(T) /\ Head(q) \in T /\ Elems(q) = Elems(Tail(q)) \cup {Head(q)}
         /\ \A E : Count(q, E) = Count(Tail(q), E) + (IF Head(q) \in E THEN 1 ELSE 0)
         /\ \A E, c : LastOf(q, E, c) =>
              LastOf(Tail(q), E, c) \/ (c = Head(q) /\ c \in E /\ Elems(Tail(q)) \cap E = {})
<1>. DEFINE r == Tail(q)
            x == Head(q)
<1>1. r \in Seq(T) /\ x \in T /\ <<x>> \in Seq(T) /\ q = <<x>> \o r
  OBVIOUS
<1>2. /\ Len(r) \in Nat /\ Len(q) = Len(r) + 1 /\ q[1] = x
      /\ \A n \in 1..Len(r) : n + 1 \in 1..Len(q) /\ q[n + 1] = r[n]
      /\ \A n \in 1..Len(q) : n = 1 \/ (n - 1 \in 1..Len(r) /\ r[n - 1] = q[n])
  OBVIOUS
<1>. HIDE DEF r, x
<1>3. Elems(q) = {x} \cup Elems(r) /\ \A E : Count(q, E) = Count(<<x>>, E) + Count(r, E)
  <2>. DEFINE p == <<x>>
  <2>1. Elems(p) = {x}
    BY <1>1, Single
  <2>2. p \in Seq(T) /\ q = p \o r
    BY <1>1
  <2>. HIDE DEF p
  <2>3. Elems(p \o r) = Elems(p) \cup Elems(r) /\ \A E : Count(p \o r, E) = Count(p, E) + Count(r, E)
    BY <1>1, <2>2, Joined
  <2>. QED
    BY <2>1, <2>2, <2>3 DEF p
<1>4. \A E : Count(q, E) = Count(r, E) + (IF x \in E THEN 1 ELSE 0)
  <2>1. \A E : Count(r, E) \in Nat /\ Count(<<x>>, E) = IF x \in E THEN 1 ELSE 0
    BY <1>1, Counting, Single
  <2>. QED
    BY <1>3, <2>1
<1>5. ASSUME NEW E, NEW c, LastOf(q, E, c)
      PROVE  LastOf(r, E, c) \/ (c = x /\ c \in E /\ Elems(r) \cap E = {})
  <2>1. PICK i \in 1..Len(q) : q[i] = c /\ c \in E /\ \A j \in 1..Len(q) : j > i => q[j] \notin E
    BY <1>5 DEF LastOf
  <2>2. CASE i = 1
    <3>1. \A n \in 1..Len(r) : r[n] \notin E
      BY <1>2, <2>1, <2>2
    <3>. QED
      BY <1>2, <2>1, <2>2, <3>1 DEF Elems
  <2>3. CASE i # 1
    <3>1. i - 1 \in 1..Len(r) /\ r[i - 1] = c
      BY <1>2, <2>1, <2>3
    <3>2. \A n \in 1..Len(r) : n > i - 1 => r[n] \notin E
      BY <1>2, <2>1, <2>3
    <3>. QED
      BY <2>1, <3>1, <3>2 DEF LastOf
  <2>. QED
    BY <2>2, <2>3
<1>. QED
  BY <1>1, <1>3, <1>4, <1>5 DEF r, x
------------------------------------------------------------------------------
(* The merge of the sessions: its interval is the least.                   *)

LEMMA Least ==
  ASSUME NEW S \in SUBSET Nat, S # {}
  PROVE  \E m \in S : \A n \in S : m <= n
<1>. DEFINE R == OpToRel(<, Nat)
<1>1. \A x, y \in Nat : <<y, x>> \in R <=> y < x
  BY DEF OpToRel
<1>. HIDE DEF R
<1>2. IsWellFoundedOn(R, Nat)
  BY NatLessThanWellFounded DEF R
<1>3. PICK x \in S : \A y \in S : ~(<<y, x>> \in R)
  BY <1>2, WFMin
<1>4. \A y \in S : x \in Nat /\ y \in Nat /\ ~(y < x)
  BY <1>1, <1>3
<1>. QED
  BY <1>4

\* The options of time-based sessions are options.
LEMMA OptionsOf ==
  ASSUME Types, NEW s \in TimeBased
  PROVE  /\ s \in Session /\ s \in Nat /\ timeBased[s] \in TrackingOptions
         /\ interval(s) \in Nat /\ power(s) \in Nat
BY TrackingAssumption DEF Types, TimeBased, TrackingOptions, interval, power

LEMMA Fastest ==
  ASSUME Types, NEW S \in SUBSET TimeBased, S # {}
  PROVE  fastest(S) \in S /\ \A t \in S : interval(fastest(S)) <= interval(t)
<1>. DEFINE I == {interval(s) : s \in S}
            first(s) == \A t \in S \ {s} :
              \/ interval(s) < interval(t)
              \/ interval(s) = interval(t) /\ s < t
<1>1. \A s \in S : s \in Nat /\ interval(s) \in Nat
  BY OptionsOf
<1>2. PICK i \in I : \A j \in I : i <= j
  <2>1. I \in SUBSET Nat /\ I # {}
    BY <1>1
  <2>. HIDE DEF I
  <2>. QED
    BY <2>1, Least
<1>. DEFINE F == {s \in S : interval(s) = i}
<1>3. PICK s \in F : \A t \in F : s <= t
  <2>1. F \in SUBSET Nat /\ F # {}
    BY <1>1, <1>2
  <2>. HIDE DEF F
  <2>. QED
    BY <2>1, Least
<1>4. s \in S /\ first(s)
  BY <1>1, <1>2, <1>3
<1>5. fastest(S) \in S /\ first(fastest(S))
  <2>. HIDE DEF first
  <2>. DEFINE f == CHOOSE t \in S : first(t)
  <2>1. f \in S /\ first(f)
    BY <1>4
  <2>2. fastest(S) = f
    BY DEF fastest, first
  <2>. QED
    BY <2>1, <2>2
<1>. QED
  BY <1>1, <1>5

LEMMA Powers ==
  ASSUME Types, NEW S \in SUBSET TimeBased, S # {}
  PROVE  multiplexedPower(S) \in Nat /\ restartPower(S) \in Nat
<1>1. \A s \in S : s \in Nat /\ power(s) \in Nat
  BY OptionsOf
<1>2. multiplexedPower(S) \in Nat
  <2>. DEFINE counted == {s \in S : \A t \in S : power(t) = 0 => t < s}
              P == {power(s) : s \in counted}
              least(p) == \A s \in counted : p <= power(s)
  <2>1. counted # {} => \E p \in P : least(p)
    <3>1. P \in SUBSET Nat /\ (counted # {} => P # {}) /\ \A s \in counted : power(s) \in P
      BY <1>1
    <3>. HIDE DEF P, counted
    <3>2. counted # {} => \E p \in P : \A q \in P : p <= q
      BY <3>1, Least
    <3>. QED
      BY <3>1, <3>2
  <2>2. multiplexedPower(S) = IF counted = {} THEN 0 ELSE CHOOSE p \in P : least(p)
    BY DEF multiplexedPower
  <2>3. \A p \in P : p \in Nat
    BY <1>1
  <2>. HIDE DEF counted, P, least
  <2>. QED
    BY <2>1, <2>2, <2>3
<1>3. restartPower(S) \in Nat
  <2>. DEFINE isFirst(s) == \A t \in S : s <= t
              first == CHOOSE s \in S : isFirst(s)
              modes == {power(s) : s \in S} \ {0}
              least(p) == \A q \in modes : p <= q
  <2>1. first \in S
    <3>1. S \in SUBSET Nat
      BY <1>1
    <3>2. \E s \in S : isFirst(s)
      BY <3>1, Least
    <3>. HIDE DEF isFirst
    <3>. QED
      BY <3>2
  <2>2. power(first) # 0 => \E p \in modes : least(p)
    <3>1. modes \in SUBSET Nat /\ (power(first) # 0 => modes # {})
      BY <1>1, <2>1
    <3>. HIDE DEF modes, first
    <3>. QED
      BY <3>1, Least
  <2>3. restartPower(S) = IF power(first) = 0 THEN 0 ELSE CHOOSE p \in modes : least(p)
    BY DEF restartPower
  <2>4. \A p \in modes : p \in Nat
    BY <1>1
  <2>. HIDE DEF first, modes, least
  <2>. QED
    BY <2>2, <2>3, <2>4
<1>. QED
  BY <1>2, <1>3

LEMMA Merged ==
  ASSUME NEW o \in TrackingOptions, NEW i \in Nat, NEW p \in Nat
  PROVE  merge(o, i, p) \in TrackingOptions /\ merge(o, i, p).interval = i
BY DEF merge, TrackingOptions

LEMMA Raised ==
  ASSUME Types, NEW S \in SUBSET TimeBased, S # {}, NEW o \in TrackingOptions
  PROVE  /\ raised(o, S) \in TrackingOptions
         /\ raised(o, S).interval <= o.interval
         /\ \A t \in S : raised(o, S).interval <= interval(t)
         /\ ~raises(o, S) => interval(fastest(S)) <= o.interval
<1>. DEFINE f == fastest(S)
            i == IF o.interval < interval(f) THEN o.interval ELSE interval(f)
            p == IF o.power < multiplexedPower(S) THEN o.power ELSE power(f)
<1>1. f \in S /\ \A t \in S : interval(f) <= interval(t) /\ interval(t) \in Nat
  BY Fastest, OptionsOf
<1>2. timeBased[f] \in TrackingOptions /\ interval(f) \in Nat /\ power(f) \in Nat
  BY <1>1, OptionsOf
<1>3. o.interval \in Nat /\ o.power \in Nat
  BY DEF TrackingOptions
<1>5. raised(o, S) = merge(timeBased[f], i, p)
  BY DEF raised
<1>. HIDE DEF f
<1>4. i \in Nat /\ p \in Nat /\ i <= o.interval /\ i <= interval(f)
  BY <1>2, <1>3
<1>. HIDE DEF i, p
<1>6. raised(o, S) \in TrackingOptions /\ raised(o, S).interval = i
  <2>1. merge(timeBased[f], i, p) \in TrackingOptions /\ merge(timeBased[f], i, p).interval = i
    BY <1>2, <1>4, Merged
  <2>. QED
    BY <1>5, <2>1
<1>7. \A t \in S : i <= interval(t)
  BY <1>1, <1>2, <1>4
<1>8. ~raises(o, S) => interval(f) <= o.interval
  BY <1>2, <1>3 DEF raises, f
<1>. QED
  BY <1>4, <1>6, <1>7, <1>8 DEF f
------------------------------------------------------------------------------
(* Messages and calls.                                                     *)

LEMMA MessageIs ==
  ASSUME NEW m \in Message
  PROVE  /\ m[1] \in {"start", "update"} => /\ m = <<m[1], m[2], m[3]>>
                                            /\ m[2] \in Session /\ m[3] \in TrackingOptions
         /\ m[1] \in {"stop", "remove"} => m[2] \in Session
         /\ m[1] = "response" => /\ m[2] \in FitCall /\ m[2].then # "none"
                                 /\ m[2].session \in Session /\ m[2].then \in Continuation
                                 /\ m[3] \in {"SUCCESS", "FAILURE"}
         /\ m[1] # "engineUp" => m # <<"engineUp">>
         /\ m[1] = "engineUp" => m = <<"engineUp">>
<1>1. CASE m \in Command
  BY <1>1 DEF Command
<1>2. CASE m \in Answer
  BY <1>2 DEF Answer, FitCall, Call
<1>3. CASE m = <<"engineUp">>
  BY <1>3
<1>. QED
  BY <1>1, <1>2, <1>3 DEF Message

LEMMA CallIs ==
  ASSUME NEW w, NEW o, NEW s, NEW t, NEW v,
         w \in {"start", "stop", "startDistance", "stopDistance"},
         o \in TrackingOptions \cup {None}, v \in TrackingOptions \cup {None},
         s \in Session \/ (s = None /\ w = "start" /\ t = "none"),
         t \in Continuation,
         w \in {"start", "startDistance"} => o \in TrackingOptions,
         w = "stop" => o = None,
         t \in {"updated", "toTime", "restartDistance", "distanceRestarted"} => v \in TrackingOptions
  PROVE  /\ callTo(w, o, s, t, v) \in FitCall
         /\ callTo(w, o, s, t, v).what = w /\ callTo(w, o, s, t, v).options = o
         /\ callTo(w, o, s, t, v).session = s /\ callTo(w, o, s, t, v).then = t
         /\ callTo(w, o, s, t, v).saved = v
<1>1. s = None => w = "start" /\ t = "none"
  BY TrackingAssumption
<1>. QED
  BY <1>1 DEF callTo, FitCall, Call

\* What is asked of the engine when a time-based session stops serves the others.
Restarts(c, s) ==
  /\ c \in TimeCalls /\ c.session = s /\ c.then \in {"started", "stopped"}
  /\ TimeBased \ {s} = {} => c.options = None
  /\ \A t \in TimeBased \ {s} : c.options \in TrackingOptions /\ c.options.interval <= interval(t)

LEMMA StopCalls ==
  ASSUME Types, NEW s \in TimeBased
  PROVE  \/ stopCalls(s) = <<>> /\ TimeBased \ {s} # {}
         \/ \E c \in FitCall : stopCalls(s) = <<c>> /\ Restarts(c, s)
<1>. DEFINE others == TimeBased \ {s}
            f == fastest(others)
            m == merge(timeBased[f], interval(f), multiplexedPower(others))
            stop == callTo("stop", None, s, "stopped", None)
            start == callTo("start", m, s, "started", None)
<1>1. s \in Session
  BY DEF TimeBased
<1>2. others = {} \/ (others # {} /\ (stopCalls(s) = <<start>> \/ stopCalls(s) = <<>>))
  BY DEF stopCalls
<1>3. others = {} => stopCalls(s) = <<stop>>
  BY DEF stopCalls
<1>4. stop \in FitCall /\ stop.what = "stop" /\ stop.options = None /\ stop.session = s /\ stop.then = "stopped"
  BY <1>1, CallIs DEF Continuation
<1>5. CASE others = {}
  <2>. HIDE DEF stop
  <2>1. Restarts(stop, s)
    BY <1>4, <1>5 DEF Restarts, TimeCalls
  <2>. QED
    BY <1>3, <1>4, <1>5, <2>1
<1>6. CASE others # {}
  <2>1. f \in others /\ \A t \in others : interval(f) <= interval(t)
    BY <1>6, Fastest
  <2>2. timeBased[f] \in TrackingOptions /\ interval(f) \in Nat /\ multiplexedPower(others) \in Nat
    BY <1>6, <2>1, OptionsOf, Powers
  <2>. HIDE DEF others, f
  <2>3. m \in TrackingOptions /\ m.interval = interval(f)
    BY <2>2, Merged
  <2>. HIDE DEF m
  <2>4. start \in FitCall /\ start.what = "start" /\ start.options = m /\ start.session = s /\ start.then = "started"
    BY <1>1, <2>3, CallIs DEF Continuation
  <2>. HIDE DEF start
  <2>5. Restarts(start, s)
    BY <1>6, <2>1, <2>3, <2>4 DEF Restarts, TimeCalls, others
  <2>. QED
    BY <1>2, <1>6, <2>4, <2>5 DEF others
<1>. QED
  BY <1>5, <1>6

LEMMA InOrder ==
  ASSUME NEW S \in SUBSET Session
  PROVE  /\ Cardinality(S) \in Nat
         /\ SetToSeq(S) \in [1..Cardinality(S) -> S]
         /\ \A m, n \in 1..Cardinality(S) : SetToSeq(S)[m] = SetToSeq(S)[n] => m = n
         /\ \A s \in S : \E n \in 1..Cardinality(S) : SetToSeq(S)[n] = s
<1>. DEFINE n == Cardinality(S)
<1>1. IsFiniteSet(S)
  BY TrackingAssumption, FS_Subset
<1>2. n \in Nat /\ ExistsBijection(1..n, S)
  BY <1>1, FS_CardinalityType
<1>3. \E f \in [1..n -> S] : IsInjective(f)
  BY <1>2 DEF ExistsBijection, Bijection, Injection
<1>4. SetToSeq(S) \in [1..n -> S] /\ IsInjective(SetToSeq(S))
  BY <1>3 DEF SetToSeq
<1>5. SetToSeq(S) \in Injection(1..n, S)
  BY <1>4 DEF Injection
<1>6. IsFiniteSet(1..n) /\ Cardinality(1..n) = n
  BY <1>2, FS_Interval
<1>7. SetToSeq(S) \in Surjection(1..n, S)
  BY <1>1, <1>5, <1>6, FS_Injection
<1>. QED
  BY <1>2, <1>4, <1>7 DEF IsInjective, Surjection

LEMMA FunctionIsSeq ==
  ASSUME NEW T, NEW n \in Nat, NEW q \in [1..n -> T]
  PROVE  q \in Seq(T) /\ Len(q) = n
OBVIOUS

\* After a restart of the modem the calls start what the sessions need.
LEMMA RestartCalls ==
  ASSUME Types
  PROVE  /\ restartCalls \in Seq(FitCall)
         /\ \A c \in Elems(restartCalls) : c.then = "none"
         /\ TimeBased = {} => Elems(restartCalls) \cap TimeCalls = {}
         /\ TimeBased # {} => \E c \in FitCall :
              LastOf(restartCalls, TimeCalls, c) /\ serves(c.options)
         /\ \A s \in DistanceBased : \E c \in FitCall :
              LastOf(restartCalls, DistanceCalls(s), c) /\ c.what = "startDistance"
<1>. DEFINE f == fastest(TimeBased)
            m == merge(timeBased[f], interval(f), restartPower(TimeBased))
            start == callTo("start", m, None, "none", None)
            A == IF TimeBased = {} THEN <<>> ELSE <<start>>
            n == Cardinality(DistanceBased)
            d == SetToSeq(DistanceBased)
            sent(i) == callTo("startDistance", distanceBased[d[i]], d[i], "none", None)
            B == [i \in 1..n |-> sent(i)]
<1>1. restartCalls = A \o B
  BY DEF restartCalls
<1>2. /\ n \in Nat /\ d \in [1..n -> DistanceBased]
      /\ \A i, j \in 1..n : d[i] = d[j] => i = j
      /\ \A s \in DistanceBased : \E i \in 1..n : d[i] = s
  <2>1. DistanceBased \in SUBSET Session
    BY DEF DistanceBased
  <2>. QED
    BY <2>1, InOrder
<1>3. \A s \in DistanceBased : s \in Session /\ distanceBased[s] \in TrackingOptions
  BY DEF DistanceBased, Types
<1>. HIDE DEF n, d
<1>4. ASSUME NEW i \in 1..n
      PROVE  /\ sent(i) \in FitCall /\ sent(i).what = "startDistance"
             /\ sent(i).session = d[i] /\ sent(i).then = "none"
  <2>1. d[i] \in Session /\ distanceBased[d[i]] \in TrackingOptions
    BY <1>2, <1>3
  <2>. QED
    BY <2>1, CallIs DEF Continuation
<1>5. B \in Seq(FitCall) /\ Len(B) = n /\ \A i \in 1..n : B[i] = sent(i)
  <2>1. B \in [1..n -> FitCall] /\ \A i \in 1..n : B[i] = sent(i)
    BY <1>4
  <2>. HIDE DEF B, sent
  <2>. QED
    BY <1>2, <2>1, FunctionIsSeq
<1>. HIDE DEF B
<1>6. \A c \in Elems(B) : c.what = "startDistance" /\ c.then = "none"
  BY <1>4, <1>5 DEF Elems
<1>7. ASSUME NEW s \in DistanceBased
      PROVE  \E c \in FitCall : LastOf(B, DistanceCalls(s), c) /\ c.what = "startDistance"
  <2>1. PICK i \in 1..n : d[i] = s
    BY <1>2
  <2>2. sent(i) \in DistanceCalls(s) /\ sent(i) \in FitCall /\ sent(i).what = "startDistance"
    BY <1>4, <2>1 DEF DistanceCalls
  <2>3. \A j \in 1..n : sent(j) \in DistanceCalls(s) => j = i
    BY <1>2, <1>4, <2>1 DEF DistanceCalls
  <2>. HIDE DEF sent
  <2>4. LastOf(B, DistanceCalls(s), sent(i))
    BY <1>2, <1>5, <2>2, <2>3 DEF LastOf
  <2>. QED
    BY <2>2, <2>4
<1>8. TimeBased # {} => /\ start \in FitCall /\ start \in TimeCalls /\ start.then = "none"
                        /\ serves(start.options)
  <2>. SUFFICES ASSUME TimeBased # {}
       PROVE  /\ start \in FitCall /\ start \in TimeCalls /\ start.then = "none"
              /\ serves(start.options)
    OBVIOUS
  <2>1. f \in TimeBased /\ \A t \in TimeBased : interval(f) <= interval(t)
    BY Fastest
  <2>2. timeBased[f] \in TrackingOptions /\ interval(f) \in Nat /\ restartPower(TimeBased) \in Nat
    BY <2>1, OptionsOf, Powers
  <2>. HIDE DEF f
  <2>3. m \in TrackingOptions /\ m.interval = interval(f)
    BY <2>2, Merged
  <2>. HIDE DEF m
  <2>4. start \in FitCall /\ start.what = "start" /\ start.options = m /\ start.then = "none"
    BY <2>3, CallIs DEF Continuation
  <2>. HIDE DEF start
  <2>. QED
    BY <2>1, <2>3, <2>4 DEF TimeCalls, serves
<1>. HIDE DEF start
<1>9. Elems(B) \cap TimeCalls = {}
  BY <1>6 DEF TimeCalls
<1>10. CASE TimeBased = {}
  <2>1. restartCalls = B
    <3>1. A = <<>>
      BY <1>10
    <3>. HIDE DEF A
    <3>. QED
      BY <1>1, <1>5, <3>1
  <2>. QED
    BY <1>5, <1>6, <1>7, <1>9, <1>10, <2>1
<1>11. CASE TimeBased # {}
  <2>1. /\ A \in Seq(FitCall) /\ Elems(A) = {start} /\ LastOf(A, TimeCalls, start)
    BY <1>8, <1>11, Single
  <2>. HIDE DEF A
  <2>2. /\ A \o B \in Seq(FitCall) /\ Elems(A \o B) = {start} \cup Elems(B)
        /\ LastOf(A \o B, TimeCalls, start)
        /\ \A s, c : LastOf(B, DistanceCalls(s), c) => LastOf(A \o B, DistanceCalls(s), c)
    BY <1>5, <1>9, <2>1, Joined
  <2>. QED
    BY <1>1, <1>6, <1>7, <1>8, <1>11, <2>2
<1>. QED
  BY <1>10, <1>11
------------------------------------------------------------------------------
(* A step of the message task.                                             *)

LEMMA Elements ==
  ASSUME NEW T, NEW q \in Seq(T)
  PROVE  Elems(q) \subseteq T
BY DEF Elems

LEMMA Due ==
  ASSUME NEW m \in Message, NEW s
  PROVE  /\ m \in Owed(s) <=> \E k : k \notin Silent /\ Of(m, k, s)
         /\ \A k : Of(m, k, s) => k \in Named \cup Continuation
BY MessageIs DEF Owed, Of

LEMMA Under ==
  ASSUME Types, NEW s
  PROVE  /\ Count(queue, Owed(s)) \in Nat /\ Count(pending, Owed(s)) \in Nat
         /\ Count(calls, OwedCalls(s)) \in Nat /\ under(s) \in Nat
         /\ under(s) = 0 <=> /\ Elems(queue) \cap Owed(s) = {} /\ Elems(pending) \cap Owed(s) = {}
                             /\ Elems(calls) \cap OwedCalls(s) = {}
<1>1. Count(queue, Owed(s)) \in Nat /\ (Count(queue, Owed(s)) = 0 <=> Elems(queue) \cap Owed(s) = {})
  BY Counting DEF Types
<1>2. Count(pending, Owed(s)) \in Nat /\ (Count(pending, Owed(s)) = 0 <=> Elems(pending) \cap Owed(s) = {})
  BY Counting DEF Types
<1>3. /\ Count(calls, OwedCalls(s)) \in Nat
      /\ Count(calls, OwedCalls(s)) = 0 <=> Elems(calls) \cap OwedCalls(s) = {}
  BY Counting DEF Types
<1>. QED
  BY <1>1, <1>2, <1>3 DEF under

LEMMA Consumes ==
  ASSUME Types, queue # <<>>, queue' = Tail(queue), pending' = pending,
         NEW more \in Seq(FitCall), calls' = calls \o more
  PROVE  /\ queue' \in Seq(Message) /\ calls' \in Seq(FitCall) /\ Head(queue) \in Message
         /\ Elems(queue) = Elems(queue') \cup {Head(queue)}
         /\ Elems(calls') = Elems(calls) \cup Elems(more)
         /\ \A s : /\ Count(queue, Owed(s)) =
                        Count(queue', Owed(s)) + (IF Head(queue) \in Owed(s) THEN 1 ELSE 0)
                   /\ Count(queue', Owed(s)) \in Nat /\ Count(more, OwedCalls(s)) \in Nat
                   /\ under(s)' = under(s) + Count(more, OwedCalls(s))
                                   - (IF Head(queue) \in Owed(s) THEN 1 ELSE 0)
<1>1. /\ queue' \in Seq(Message) /\ Head(queue) \in Message
      /\ Elems(queue) = Elems(queue') \cup {Head(queue)}
      /\ \A E : Count(queue, E) = Count(queue', E) + (IF Head(queue) \in E THEN 1 ELSE 0)
  BY Taken DEF Types
<1>2. /\ calls' \in Seq(FitCall) /\ Elems(calls') = Elems(calls) \cup Elems(more)
      /\ \A E : Count(calls', E) = Count(calls, E) + Count(more, E)
  BY Joined DEF Types
<1>3. ASSUME NEW s
      PROVE  /\ Count(queue', Owed(s)) \in Nat /\ Count(more, OwedCalls(s)) \in Nat
             /\ under(s)' = under(s) + Count(more, OwedCalls(s))
                             - (IF Head(queue) \in Owed(s) THEN 1 ELSE 0)
  <2>1. Count(queue', Owed(s)) \in Nat
    BY <1>1, Counting
  <2>2. Count(more, OwedCalls(s)) \in Nat
    BY Counting
  <2>3. under(s)' = Count(queue', Owed(s)) + Count(pending, Owed(s)) + Count(calls', OwedCalls(s))
    BY DEF under
  <2>4. /\ Count(queue, Owed(s)) \in Nat /\ Count(pending, Owed(s)) \in Nat
        /\ Count(calls, OwedCalls(s)) \in Nat
    BY Under
  <2>5. under(s) = Count(queue, Owed(s)) + Count(pending, Owed(s)) + Count(calls, OwedCalls(s))
    BY DEF under
  <2>6. /\ Count(queue, Owed(s)) = Count(queue', Owed(s)) + (IF Head(queue) \in Owed(s) THEN 1 ELSE 0)
        /\ Count(calls', OwedCalls(s)) = Count(calls, OwedCalls(s)) + Count(more, OwedCalls(s))
    BY <1>1, <1>2
  <2>. QED
    BY <2>1, <2>2, <2>3, <2>4, <2>5, <2>6
<1>. QED
  BY <1>1, <1>2, <1>3

\* What is under way after a step was before, or is a call it made.
Made(more, k, s) == \E c \in Elems(more) : c.session = s /\ c.then = k

LEMMA Earlier ==
  ASSUME Types, queue # <<>>, queue' = Tail(queue), pending' = pending,
         NEW more \in Seq(FitCall), calls' = calls \o more, NEW k, NEW s
  PROVE  /\ Underway(k, s)' => Underway(k, s) \/ Made(more, k, s)
         /\ Underway(k, s) /\ ~Of(Head(queue), k, s) => Underway(k, s)'
         /\ Made(more, k, s) => Underway(k, s)'
<1>1. /\ Elems(queue) = Elems(queue') \cup {Head(queue)}
      /\ Elems(calls') = Elems(calls) \cup Elems(more)
  BY Consumes
<1>. QED
  BY <1>1 DEF Underway, Made

\* A client that waits for its answers has one thing under way.
LEMMA Sole ==
  ASSUME Types, NEW s \in Session, Counted(s), s \notin hasty \cup failed, client[s] # "gone",
         queue # <<>>, queue' = Tail(queue), pending' = pending, Head(queue) \in Owed(s),
         NEW more \in Seq(FitCall), calls' = calls \o more
  PROVE  \A k : k \notin Silent /\ Underway(k, s)' => Made(more, k, s)
<1>. SUFFICES ASSUME NEW k, k \notin Silent, Underway(k, s)'
     PROVE  Made(more, k, s)
  OBVIOUS
<1>1. /\ owed[s] \in Int /\ owed[s] <= 1 /\ owed[s] = under(s)
  BY DEF Counted, Types
<1>2. /\ Count(queue, Owed(s)) \in Nat /\ Count(pending, Owed(s)) \in Nat
      /\ Count(calls, OwedCalls(s)) \in Nat
      /\ under(s) = Count(queue, Owed(s)) + Count(pending, Owed(s)) + Count(calls, OwedCalls(s))
  BY Under DEF under
<1>3. /\ queue' \in Seq(Message) /\ Elems(calls') = Elems(calls) \cup Elems(more)
      /\ Count(queue, Owed(s)) = Count(queue', Owed(s)) + 1 /\ Count(queue', Owed(s)) \in Nat
  BY Consumes
<1>4. Count(queue', Owed(s)) = 0 /\ Count(pending, Owed(s)) = 0 /\ Count(calls, OwedCalls(s)) = 0
  BY <1>1, <1>2, <1>3
<1>5. Elems(queue') \cap Owed(s) = {}
  BY <1>3, <1>4, Counting
<1>6. Elems(pending) \cap Owed(s) = {} /\ Elems(calls) \cap OwedCalls(s) = {}
  <2>1. Elems(pending) \cap Owed(s) = {}
    BY <1>4, Counting DEF Types
  <2>2. Elems(calls) \cap OwedCalls(s) = {}
    BY <1>4, Counting DEF Types
  <2>. QED
    BY <2>1, <2>2
<1>7. Elems(queue') \subseteq Message /\ Elems(pending) \subseteq Message /\ Elems(calls) \subseteq FitCall
  <2>1. Elems(queue') \subseteq Message
    BY <1>3, Elements
  <2>2. Elems(pending) \subseteq Parked
    BY Elements DEF Types
  <2>3. Elems(calls) \subseteq FitCall
    BY Elements DEF Types
  <2>. QED
    BY <2>1, <2>2, <2>3 DEF Parked, Message, Command
<1>8. \A m \in Elems(queue') \cup Elems(pending) : ~Of(m, k, s)
  BY <1>5, <1>6, <1>7, Due
<1>9. \A c \in Elems(calls) : ~(c.session = s /\ c.then = k)
  BY <1>6, <1>7 DEF OwedCalls
<1>. QED
  BY <1>3, <1>8, <1>9 DEF Underway, Made

\* A session that a step does not touch.
LEMMA Kept ==
  ASSUME NEW s \in Session, Counted(s), Staged(s),
         timeBased'[s] = timeBased[s], distanceBased'[s] = distanceBased[s],
         client'[s] = client[s], owed'[s] = owed[s],
         s \in hasty => s \in hasty', s \in failed => s \in failed',
         client[s] # "gone" => under(s)' = under(s),
         \A k : Underway(k, s)' => Underway(k, s) \/ k = "none",
         Underway("clientStopped", s) => Underway("clientStopped", s)' \/ s \in failed'
  PROVE  Counted(s)' /\ Staged(s)'
<1>1. Counted(s)'
  BY DEF Counted
<1>2. /\ s \in TimeBased' <=> s \in TimeBased
      /\ s \in DistanceBased' <=> s \in DistanceBased
  BY DEF TimeBased, DistanceBased
<1>3. ASSUME s \notin hasty' \cup failed'  PROVE Staged(s)'
  <2>1. s \notin hasty \cup failed
    BY <1>3
  <2>2. ASSUME NEW k, Underway(k, s)'  PROVE Stage(k, s)'
    <3>1. Stage(k, s) \/ k = "none"
      BY <2>1, <2>2 DEF Staged
    <3>2. Stage(k, s)' <=> Stage(k, s)
      BY <1>2 DEF Stage, Settled, InOne, InNone
    <3>. QED
      BY <3>1, <3>2 DEF Stage
  <2>. QED
    BY <1>2, <1>3, <2>1, <2>2 DEF Staged, Settled, InOne, InNone
<1>. QED
  BY <1>1, <1>3 DEF Staged

\* The session whose command or answer a step handles.
LEMMA Own ==
  ASSUME NEW s \in Session, Types, Counted(s), Staged(s),
         queue # <<>>, queue' = Tail(queue), pending' = pending, Head(queue) \in Owed(s),
         NEW more \in Seq(FitCall), calls' = calls \o more,
         UNCHANGED <<client, hasty, failed>>,
         owed'[s] \in Int, client[s] = "gone" => owed'[s] = owed[s],
         client[s] # "gone" =>
           /\ owed'[s] <= owed[s]
           /\ owed'[s] >= owed[s] - 1 + Count(more, OwedCalls(s))
           /\ s \notin failed => owed'[s] = owed[s] - 1 + Count(more, OwedCalls(s)),
         s \notin hasty \cup failed =>
           /\ client[s] = "gone" => s \notin TimeBased' /\ (s \in DistanceBased' => s \in DistanceBased)
           /\ client[s] \in {"on", "off"} /\ owed'[s] = 0 => Settled(s)'
           /\ \A k : Made(more, k, s) => Stage(k, s)'
  PROVE  Counted(s)' /\ Staged(s)'
<1>1. /\ Head(queue) \in Message /\ under(s)' = under(s) + Count(more, OwedCalls(s)) - 1
      /\ Count(more, OwedCalls(s)) \in Nat /\ Count(queue, Owed(s)) >= 1
  BY Consumes
<1>2. under(s) \in Nat /\ under(s) >= 1 /\ owed[s] \in Int
  <2>1. /\ Count(queue, Owed(s)) \in Nat /\ Count(pending, Owed(s)) \in Nat
        /\ Count(calls, OwedCalls(s)) \in Nat
    BY Under
  <2>2. owed[s] \in Int
    BY DEF Types
  <2>. QED
    BY <1>1, <2>1, <2>2 DEF under
<1>3. s \notin hasty => client[s] \notin {"new", "leaving"}
  BY <1>2 DEF Counted
<1>4. Counted(s)'
  <2>1. client[s] = "gone" => owed'[s] = 0
    BY DEF Counted
  <2>2. client[s] # "gone" => under(s)' <= owed'[s] /\ (s \notin failed => owed'[s] = under(s)')
    BY <1>1, <1>2 DEF Counted
  <2>3. s \notin hasty => owed'[s] <= 1
    BY <1>1, <1>2, <2>1 DEF Counted
  <2>. QED
    BY <1>3, <2>1, <2>2, <2>3 DEF Counted
<1>5. ASSUME s \notin hasty \cup failed  PROVE Staged(s)'
  <2>1. client[s] \in {"on", "off", "gone"}
    BY <1>3, <1>5 DEF Types
  <2>2. CASE client[s] = "gone"
    <3>1. s \in DistanceBased' => Underway("clientStopped", s)'
      <4>1. s \in DistanceBased => Underway("clientStopped", s)
        BY <1>5, <2>2 DEF Staged
      <4>2. ~Of(Head(queue), "clientStopped", s)
        BY <1>1, Due DEF Silent, Of, Named
      <4>. QED
        BY <1>5, <2>2, <4>1, <4>2, Earlier
    <3>2. ASSUME NEW k, Underway(k, s)'  PROVE Stage(k, s)'
      <4>1. CASE Underway(k, s)
        <5>1. Stage(k, s)
          BY <1>5, <4>1 DEF Staged
        <5>. QED
          BY <2>2, <5>1 DEF Stage
      <4>2. CASE ~Underway(k, s)
        <5>1. Made(more, k, s)
          BY <3>2, <4>2, Earlier
        <5>. QED
          BY <1>5, <5>1
      <4>. QED
        BY <4>1, <4>2
    <3>. QED
      BY <1>5, <2>2, <3>1, <3>2 DEF Staged
  <2>3. CASE client[s] # "gone"
    <3>0. \A k : k \notin Silent /\ Underway(k, s)' => Made(more, k, s)
      BY <1>5, <2>3, Sole
    <3>1. ASSUME NEW k, Underway(k, s)'  PROVE Stage(k, s)'
      <4>1. CASE k \notin Silent
        <5>1. Made(more, k, s)
          BY <3>0, <3>1, <4>1
        <5>. QED
          BY <1>5, <5>1
      <4>2. CASE k \in Silent
        <5>1. CASE Underway(k, s)
          <6>1. Stage(k, s)
            BY <1>5, <5>1 DEF Staged
          <6>. QED
            BY <2>1, <2>3, <4>2, <6>1 DEF Stage, Silent
        <5>2. CASE ~Underway(k, s)
          <6>1. Made(more, k, s)
            BY <3>1, <5>2, Earlier
          <6>. QED
            BY <1>5, <6>1
        <5>. QED
          BY <5>1, <5>2
      <4>. QED
        BY <4>1, <4>2
    <3>. QED
      BY <1>5, <2>1, <2>3, <3>1 DEF Staged
  <2>. QED
    BY <2>2, <2>3
<1>6. Staged(s)'
  BY <1>5 DEF Staged
<1>. QED
  BY <1>4, <1>6

\* What a step asks of the engine, with what it does to the sessions: the fix
\* serves them still, and ends with the last.
Fix(more) ==
  \/ /\ Elems(more) \cap TimeCalls = {}
     /\ failed = {} => \A t \in TimeBased' : \E u \in TimeBased : interval(u) <= timeBased'[t].interval
     /\ failed = {} /\ hasty = {} /\ TimeBased' = {} => TimeBased = {}
  \/ \E c \in FitCall :
       /\ LastOf(more, TimeCalls, c)
       /\ TimeBased' = {} => c.options = None
       /\ \A t \in TimeBased' : c.options \in TrackingOptions /\ c.options.interval <= timeBased'[t].interval

LEMMA Finals ==
  ASSUME Types, NEW more \in Seq(FitCall), calls' = calls \o more, engine' = engine
  PROVE  /\ Elems(more) \cap TimeCalls = {} => \A o : Final(o) => Final(o)'
         /\ \A c \in FitCall : LastOf(more, TimeCalls, c) => Final(c.options)'
<1>1. /\ Elems(calls') = Elems(calls) \cup Elems(more)
      /\ \A E, c : LastOf(more, E, c) => LastOf(calls', E, c)
      /\ \A E, c : LastOf(calls, E, c) /\ Elems(more) \cap E = {} => LastOf(calls', E, c)
  BY Joined DEF Types
<1>2. ASSUME Elems(more) \cap TimeCalls = {}, NEW o, Final(o)  PROVE Final(o)'
  <2>1. CASE Elems(calls) \cap TimeCalls = {} /\ o = engine
    BY <1>1, <1>2, <2>1 DEF Final
  <2>2. CASE \E c \in FitCall : LastOf(calls, TimeCalls, c) /\ c.options = o
    BY <1>1, <1>2, <2>2 DEF Final
  <2>. QED
    BY <1>2, <2>1, <2>2 DEF Final
<1>3. ASSUME NEW c \in FitCall, LastOf(more, TimeCalls, c)  PROVE Final(c.options)'
  BY <1>1, <1>3 DEF Final
<1>. QED
  BY <1>2, <1>3

LEMMA FixKept ==
  ASSUME Types, Served, Rests, NEW more \in Seq(FitCall), calls' = calls \o more, engine' = engine,
         UNCHANGED <<hasty, failed>>, Up' => Up, Fix(more),
         timeBased' \in [Session -> TrackingOptions \cup {None}]
  PROVE  Served' /\ Rests'
<1>1. /\ Elems(more) \cap TimeCalls = {} => \A o : Final(o) => Final(o)'
      /\ \A c \in FitCall : LastOf(more, TimeCalls, c) => Final(c.options)'
  BY Finals
<1>2. \A t \in TimeBased' : timeBased'[t].interval \in Nat /\ interval(t)' = timeBased'[t].interval
  BY DEF TimeBased, TrackingOptions, interval
<1>3. CASE /\ Elems(more) \cap TimeCalls = {}
           /\ failed = {} => \A t \in TimeBased' : \E u \in TimeBased : interval(u) <= timeBased'[t].interval
           /\ failed = {} /\ hasty = {} /\ TimeBased' = {} => TimeBased = {}
  <2>1. ASSUME Up', TimeBased' # {}  PROVE \E o : Final(o)' /\ serves(o)'
    <3>1. Up /\ failed = {} /\ TimeBased # {}
      BY <1>3, <2>1 DEF Up
    <3>2. PICK o : Final(o) /\ serves(o)
      BY <3>1 DEF Served
    <3>3. o \in TrackingOptions /\ o.interval \in Nat
      BY <3>1, <3>2 DEF serves, TrackingOptions
    <3>4. ASSUME NEW t \in TimeBased'  PROVE o.interval <= timeBased'[t].interval
      <4>1. PICK u \in TimeBased : interval(u) <= timeBased'[t].interval
        BY <1>3, <3>1
      <4>2. interval(u) \in Nat /\ o.interval <= interval(u) /\ timeBased'[t].interval \in Nat
        BY <1>2, <3>2, OptionsOf DEF serves
      <4>. QED
        BY <3>3, <4>1, <4>2
    <3>5. serves(o)'
      BY <1>2, <3>3, <3>4 DEF serves
    <3>. QED
      BY <1>1, <1>3, <3>2, <3>5
  <2>2. Rests'
    BY <1>1, <1>3 DEF Rests
  <2>. QED
    BY <2>1, <2>2 DEF Served
<1>4. CASE \E c \in FitCall :
             /\ LastOf(more, TimeCalls, c)
             /\ TimeBased' = {} => c.options = None
             /\ \A t \in TimeBased' : c.options \in TrackingOptions /\ c.options.interval <= timeBased'[t].interval
  <2>1. PICK c \in FitCall :
          /\ LastOf(more, TimeCalls, c)
          /\ TimeBased' = {} => c.options = None
          /\ \A t \in TimeBased' : c.options \in TrackingOptions /\ c.options.interval <= timeBased'[t].interval
    BY <1>4
  <2>2. Final(c.options)'
    BY <1>1, <2>1
  <2>3. serves(c.options)'
    BY <1>2, <2>1 DEF serves
  <2>. QED
    BY <2>1, <2>2, <2>3 DEF Served, Rests
<1>. QED
  BY <1>3, <1>4 DEF Fix

LEMMA WatchesKept ==
  ASSUME Types, NEW more \in Seq(FitCall), calls' = calls \o more, engineDistance' = engineDistance,
         NEW s
  PROVE  /\ Watches(s) /\ Elems(more) \cap DistanceCalls(s) = {} => Watches(s)'
         /\ \A c \in FitCall : LastOf(more, DistanceCalls(s), c) /\ c.what = "startDistance" => Watches(s)'
<1>1. /\ Elems(calls') = Elems(calls) \cup Elems(more)
      /\ \A E, c : LastOf(more, E, c) => LastOf(calls', E, c)
      /\ \A E, c : LastOf(calls, E, c) /\ Elems(more) \cap E = {} => LastOf(calls', E, c)
  BY Joined DEF Types
<1>2. ASSUME Watches(s), Elems(more) \cap DistanceCalls(s) = {}  PROVE Watches(s)'
  <2>1. CASE Elems(calls) \cap DistanceCalls(s) = {} /\ s \in engineDistance
    BY <1>1, <1>2, <2>1 DEF Watches
  <2>2. CASE \E c \in FitCall : LastOf(calls, DistanceCalls(s), c) /\ c.what = "startDistance"
    BY <1>1, <1>2, <2>2 DEF Watches
  <2>. QED
    BY <1>2, <2>1, <2>2 DEF Watches
<1>3. ASSUME NEW c \in FitCall, LastOf(more, DistanceCalls(s), c), c.what = "startDistance"
      PROVE  Watches(s)'
  BY <1>1, <1>3 DEF Watches
<1>. QED
  BY <1>2, <1>3

\* A step of the message task that handles a message of session s, asks for
\* more of the engine, and does to the session what the last premises say.
Handles == /\ queue # <<>> /\ queue' = Tail(queue) /\ pending' = pending
           /\ UNCHANGED <<known, modem, engine, engineDistance, hasty, failed>>
Takes(more) == Handles /\ calls' = calls \o more
For(m, s) == \/ m[1] \in Named /\ m[2] = s
             \/ m[1] = "response" /\ m[2].session = s
SameBut(s) == \A t \in Session \ {s} :
  /\ timeBased'[t] = timeBased[t] /\ distanceBased'[t] = distanceBased[t]
  /\ client'[t] = client[t] /\ owed'[t] = owed[t]
MapTypes ==
  /\ timeBased \in [Session -> TrackingOptions \cup {None}]
  /\ distanceBased \in [Session -> TrackingOptions \cup {None}]
  /\ client \in [Session -> {"new", "on", "off", "leaving", "gone"}]
  /\ owed \in [Session -> Int]
Follows(s) == \E k \in {"restartDistance", "distanceStopped", "clientStopped"} : Underway(k, s)
Watch(more, s) ==
  failed = {} /\ modem = "up" /\ s \notin hasty /\ s \in DistanceBased' =>
    \/ \E c \in FitCall : LastOf(more, DistanceCalls(s), c) /\ c.what = "startDistance"
    \/ Follows(s)'
    \/ /\ s \in DistanceBased /\ Elems(more) \cap DistanceCalls(s) = {}
       /\ \A k \in {"restartDistance", "distanceStopped", "clientStopped"} : ~Of(Head(queue), k, s)

LEMMA StepQueues ==
  ASSUME Types, Told, Waits, NEW more \in Seq(FitCall), Takes(more), Head(queue)[1] # "engineUp",
         MapTypes'
  PROVE  Types' /\ Told' /\ Waits' /\ (Up' <=> Up)
<1>1. /\ queue' \in Seq(Message) /\ calls' \in Seq(FitCall) /\ Head(queue) \in Message
      /\ Elems(queue) = Elems(queue') \cup {Head(queue)}
  BY Consumes DEF Takes, Handles
<1>2. Types'
  BY <1>1 DEF Types, MapTypes, Takes, Handles
<1>3. Told'
  BY <1>1 DEF Told, Takes, Handles
<1>4. Head(queue) # <<"engineUp">>
  BY <1>1, MessageIs
<1>5. Comes' <=> Comes
  BY <1>1, <1>4 DEF Comes
<1>6. Waits' /\ (Up' <=> Up)
  BY <1>5 DEF Waits, Up, Takes, Handles
<1>. QED
  BY <1>2, <1>3, <1>6

LEMMA StepOthers ==
  ASSUME Types, NEW s \in Session, NEW more \in Seq(FitCall), Takes(more), For(Head(queue), s),
         SameBut(s), \A c \in Elems(more) : c.session = s,
         NEW t \in Session \ {s}, Counted(t), Staged(t)
  PROVE  Counted(t)' /\ Staged(t)' /\ \A k : Underway(k, t)' <=> Underway(k, t)
<1>1. /\ Head(queue) \in Message /\ Count(more, OwedCalls(t)) \in Nat
      /\ under(t)' = under(t) + Count(more, OwedCalls(t)) - (IF Head(queue) \in Owed(t) THEN 1 ELSE 0)
  BY Consumes DEF Takes, Handles
<1>2. \A k : ~Of(Head(queue), k, t)
  BY DEF For, Of, Named
<1>3. Head(queue) \notin Owed(t)
  BY <1>1, <1>2, Due
<1>4. Count(more, OwedCalls(t)) = 0
  <2>1. Elems(more) \cap OwedCalls(t) = {}
    BY DEF OwedCalls
  <2>. QED
    BY <2>1, Counting
<1>5. under(t)' = under(t)
  <2>1. under(t) \in Nat
    BY Under
  <2>. QED
    BY <1>1, <1>3, <1>4, <2>1
<1>6. ASSUME NEW k  PROVE Underway(k, t)' <=> Underway(k, t)
  <2>1. /\ Underway(k, t)' => Underway(k, t) \/ Made(more, k, t)
        /\ Underway(k, t) /\ ~Of(Head(queue), k, t) => Underway(k, t)'
    BY Earlier DEF Takes, Handles
  <2>2. ~Made(more, k, t)
    BY DEF Made
  <2>. QED
    BY <1>2, <2>1, <2>2
<1>7. /\ timeBased'[t] = timeBased[t] /\ distanceBased'[t] = distanceBased[t]
      /\ client'[t] = client[t] /\ owed'[t] = owed[t] /\ hasty' = hasty /\ failed' = failed
  BY DEF SameBut, Takes, Handles
<1>8. Counted(t)' /\ Staged(t)'
  BY <1>5, <1>6, <1>7, Kept
<1>. QED
  BY <1>6, <1>8

LEMMA StepWatched ==
  ASSUME Types, Watched, NEW s \in Session, NEW more \in Seq(FitCall), Takes(more), Up' => Up,
         SameBut(s), \A c \in Elems(more) : c.session = s,
         \A t \in Session \ {s} : \A k : Underway(k, t)' <=> Underway(k, t),
         Watch(more, s)
  PROVE  Watched'
<1>. SUFFICES ASSUME Up', NEW t \in DistanceBased', t \notin hasty  PROVE Watches(t)' \/ Follows(t)'
  BY DEF Watched, Takes, Handles, Follows
<1>1. t \in Session /\ Up /\ failed = {} /\ modem = "up"
  BY DEF DistanceBased, Up
<1>2. t \in DistanceBased => Watches(t) \/ Follows(t)
  BY <1>1 DEF Watched, Follows
<1>3. /\ Watches(t) /\ Elems(more) \cap DistanceCalls(t) = {} => Watches(t)'
      /\ \A c \in FitCall : LastOf(more, DistanceCalls(t), c) /\ c.what = "startDistance" => Watches(t)'
  BY WatchesKept DEF Takes, Handles
<1>4. CASE t # s
  <2>1. t \in DistanceBased
    BY <1>1, <1>4 DEF DistanceBased, SameBut
  <2>2. Elems(more) \cap DistanceCalls(t) = {}
    BY <1>4 DEF DistanceCalls
  <2>3. Follows(t) => Follows(t)'
    BY <1>1, <1>4 DEF Follows
  <2>. QED
    BY <1>2, <1>3, <2>1, <2>2, <2>3
<1>5. CASE t = s
  <2>1. CASE \E c \in FitCall : LastOf(more, DistanceCalls(s), c) /\ c.what = "startDistance"
    BY <1>3, <1>5, <2>1
  <2>2. CASE Follows(s)'
    BY <1>5, <2>2
  <2>3. CASE /\ s \in DistanceBased /\ Elems(more) \cap DistanceCalls(s) = {}
             /\ \A k \in {"restartDistance", "distanceStopped", "clientStopped"} : ~Of(Head(queue), k, s)
    <3>1. \A k : Underway(k, s) /\ ~Of(Head(queue), k, s) => Underway(k, s)'
      BY Earlier DEF Takes, Handles
    <3>2. Follows(s) => Follows(s)'
      BY <2>3, <3>1 DEF Follows
    <3>. QED
      BY <1>2, <1>3, <1>5, <2>3, <3>2
  <2>. QED
    BY <1>1, <1>5, <2>1, <2>2, <2>3 DEF Watch
<1>. QED
  BY <1>4, <1>5

LEMMA Step ==
  ASSUME IInv, NEW s \in Session, NEW more \in Seq(FitCall), Takes(more), For(Head(queue), s),
         MapTypes', SameBut(s), \A c \in Elems(more) : c.session = s,
         Counted(s)', Staged(s)', Fix(more), Watch(more, s)
  PROVE  IInv'
<1>1. Head(queue)[1] # "engineUp"
  BY DEF For, Named
<1>2. Types' /\ Told' /\ Waits' /\ (Up' <=> Up)
  BY <1>1, StepQueues DEF IInv
<1>3. \A t \in Session \ {s} : Counted(t)' /\ Staged(t)' /\ \A k : Underway(k, t)' <=> Underway(k, t)
  BY StepOthers DEF IInv
<1>4. \A t \in Session : Counted(t)' /\ Staged(t)'
  BY <1>3
<1>5. Watched'
  BY <1>2, <1>3, StepWatched DEF IInv
<1>6. Served' /\ Rests'
  BY <1>2, FixKept DEF IInv, Takes, Handles, MapTypes
<1>. QED
  BY <1>2, <1>4, <1>5, <1>6 DEF IInv
------------------------------------------------------------------------------
(* The commands and continuations.                                         *)

LEMMA Nothing ==
  /\ <<>> \in Seq(FitCall) /\ Elems(<<>>) = {} /\ \A E : Count(<<>>, E) = 0
  /\ \A q \in Seq(FitCall) : q \o <<>> = q
<1>1. <<>> \in Seq(FitCall) /\ Elems(<<>>) = {}
  BY DEF Elems
<1>2. \A E : Count(<<>>, E) = 0
  BY <1>1, Counting
<1>. QED
  BY <1>1, <1>2

\* The message of a session that a step handles, and what it is about.
LEMMA Handled ==
  ASSUME IInv, NEW s \in Session, NEW more \in Seq(FitCall), Takes(more), UNCHANGED client,
         For(Head(queue), s), Head(queue) \in Owed(s),
         MapTypes', SameBut(s), \A c \in Elems(more) : c.session = s,
         client[s] = "gone" => owed'[s] = owed[s],
         client[s] # "gone" =>
           /\ owed'[s] <= owed[s]
           /\ owed'[s] >= owed[s] - 1 + Count(more, OwedCalls(s))
           /\ s \notin failed => owed'[s] = owed[s] - 1 + Count(more, OwedCalls(s)),
         s \notin hasty \cup failed =>
           /\ client[s] = "gone" => s \notin TimeBased' /\ (s \in DistanceBased' => s \in DistanceBased)
           /\ client[s] \in {"on", "off"} /\ owed'[s] = 0 => Settled(s)'
           /\ \A k : Made(more, k, s) => Stage(k, s)',
         Fix(more), Watch(more, s)
  PROVE  IInv'
<1>1. owed'[s] \in Int
  BY DEF MapTypes
<1>2. Counted(s)' /\ Staged(s)'
  BY <1>1, Own DEF IInv, Takes, Handles
<1>. QED
  BY <1>2, Step

LEMMA Handling ==
  ASSUME IInv, NEW s \in Session, queue # <<>>, NEW k, Of(Head(queue), k, s)
  PROVE  /\ Head(queue) \in Message /\ For(Head(queue), s)
         /\ k \notin Silent => Head(queue) \in Owed(s)
         /\ k \notin Silent /\ s \notin failed /\ client[s] # "gone" => owed[s] # 0
         /\ s \notin hasty \cup failed => Stage(k, s)
<1>1. Head(queue) \in Message /\ Head(queue) \in Elems(queue)
  BY Taken DEF IInv, Types
<1>2. Underway(k, s)
  BY <1>1 DEF Underway
<1>3. For(Head(queue), s) /\ (k \notin Silent => Head(queue) \in Owed(s))
  BY <1>1, Due DEF For, Of
<1>4. k \notin Silent /\ s \notin failed /\ client[s] # "gone" => owed[s] # 0
  <2>1. Head(queue) \in Owed(s) => under(s) # 0
    BY <1>1, Under DEF IInv
  <2>. QED
    BY <1>3, <2>1 DEF IInv, Counted
<1>. QED
  BY <1>1, <1>2, <1>3, <1>4 DEF IInv, Staged

LEMMA FixSame ==
  ASSUME Types, NEW more, Elems(more) \cap TimeCalls = {}, timeBased' = timeBased
  PROVE  Fix(more)
<1>1. \A t \in TimeBased' : t \in TimeBased /\ interval(t) <= timeBased'[t].interval
  <2>1. TimeBased' = TimeBased
    BY DEF TimeBased
  <2>2. \A t \in TimeBased : interval(t) \in Nat /\ interval(t) = timeBased[t].interval
    BY OptionsOf DEF interval
  <2>. QED
    BY <2>1, <2>2
<1>2. TimeBased' = {} => TimeBased = {}
  BY DEF TimeBased
<1>. QED
  BY <1>1, <1>2 DEF Fix

LEMMA WatchSame ==
  ASSUME NEW more, NEW s, s \in DistanceBased' => s \in DistanceBased,
         Elems(more) \cap DistanceCalls(s) = {}, NEW k, Of(Head(queue), k, s),
         k \notin {"restartDistance", "distanceStopped", "clientStopped"}
  PROVE  Watch(more, s)
BY DEF Watch, Of, Named

\* The maps after one entry changed.
LEMMA Entry ==
  ASSUME NEW s \in Session, NEW o \in TrackingOptions \cup {None}, Types,
         timeBased' = [timeBased EXCEPT ![s] = o], UNCHANGED distanceBased
  PROVE  /\ timeBased' \in [Session -> TrackingOptions \cup {None}]
         /\ timeBased'[s] = o /\ \A t \in Session \ {s} : timeBased'[t] = timeBased[t]
         /\ DistanceBased' = DistanceBased
         /\ o # None => TimeBased' = TimeBased \cup {s}
         /\ o = None => TimeBased' = TimeBased \ {s}
<1>1. /\ timeBased' \in [Session -> TrackingOptions \cup {None}]
      /\ timeBased'[s] = o /\ \A t \in Session \ {s} : timeBased'[t] = timeBased[t]
  BY DEF Types
<1>. QED
  BY <1>1 DEF TimeBased, DistanceBased

LEMMA DistanceEntry ==
  ASSUME NEW s \in Session, NEW o \in TrackingOptions \cup {None}, Types,
         distanceBased' = [distanceBased EXCEPT ![s] = o], UNCHANGED timeBased
  PROVE  /\ distanceBased' \in [Session -> TrackingOptions \cup {None}]
         /\ distanceBased'[s] = o /\ \A t \in Session \ {s} : distanceBased'[t] = distanceBased[t]
         /\ TimeBased' = TimeBased
         /\ o # None => DistanceBased' = DistanceBased \cup {s}
         /\ o = None => DistanceBased' = DistanceBased \ {s}
<1>1. /\ distanceBased' \in [Session -> TrackingOptions \cup {None}]
      /\ distanceBased'[s] = o /\ \A t \in Session \ {s} : distanceBased'[t] = distanceBased[t]
  BY DEF Types
<1>. QED
  BY <1>1 DEF TimeBased, DistanceBased

LEMMA Reported ==
  ASSUME Types, NEW s \in Session, reportResponse(s) \/ UNCHANGED owed
  PROVE  /\ owed' \in [Session -> Int] /\ \A t \in Session \ {s} : owed'[t] = owed[t]
         /\ client[s] = "gone" => owed'[s] = owed[s]
         /\ reportResponse(s) /\ client[s] # "gone" => owed'[s] = owed[s] - 1
<1>1. CASE reportResponse(s) /\ client[s] # "gone"
  <2>1. owed' = [owed EXCEPT ![s] = owed[s] - 1] /\ owed[s] - 1 \in Int
    BY <1>1 DEF reportResponse, Types
  <2>. QED
    BY <1>1, <2>1 DEF Types
<1>2. CASE ~(reportResponse(s) /\ client[s] # "gone")
  BY <1>2 DEF reportResponse, Types
<1>. QED
  BY <1>1, <1>2

\* A time-based session is started, by its command or after its distance-based
\* one was stopped.
LEMMA Multiplex ==
  ASSUME IInv, NEW s \in Session, NEW o \in TrackingOptions, Handles, UNCHANGED client,
         NEW k \in {"start", "toTime"}, Of(Head(queue), k, s),
         startTimeBasedTrackingMultiplex(s, o)
  PROVE  IInv'
<1>. DEFINE started(x) == callTo("start", x, s, "started", None)
<1>1. Types
  BY DEF IInv
<1>2. /\ For(Head(queue), s) /\ Head(queue) \in Owed(s)
      /\ s \notin hasty \cup failed => client[s] = "on" /\ InNone(s)
  <2>1. k \notin Silent
    BY DEF Silent
  <2>2. /\ For(Head(queue), s) /\ Head(queue) \in Owed(s)
        /\ s \notin hasty \cup failed => Stage(k, s)
    BY <2>1, Handling DEF Handles
  <2>3. Stage(k, s) => client[s] = "on" /\ InNone(s)
    BY DEF Stage
  <2>. QED
    BY <2>2, <2>3
<1>3. /\ timeBased' \in [Session -> TrackingOptions \cup {None}]
      /\ timeBased'[s] = o /\ \A t \in Session \ {s} : timeBased'[t] = timeBased[t]
      /\ DistanceBased' = DistanceBased /\ distanceBased' = distanceBased
      /\ TimeBased' = TimeBased \cup {s}
  <2>1. timeBased' = [timeBased EXCEPT ![s] = o] /\ UNCHANGED distanceBased
    BY DEF startTimeBasedTrackingMultiplex, saveTimeBased
  <2>2. o # None
    BY TrackingAssumption
  <2>. QED
    BY <1>1, <2>1, <2>2, Entry
<1>4. reportResponse(s) \/ UNCHANGED owed
  BY DEF startTimeBasedTrackingMultiplex
<1>5. MapTypes' /\ SameBut(s)
  <2>1. owed' \in [Session -> Int] /\ \A t \in Session \ {s} : owed'[t] = owed[t]
    BY <1>1, <1>4, Reported
  <2>. QED
    BY <1>1, <1>3, <2>1 DEF MapTypes, SameBut, Types
<1>6. s \notin hasty \cup failed => client[s] = "on" /\ Settled(s)'
  BY <1>2, <1>3 DEF InNone, InOne, Settled
<1>7. \A t \in TimeBased : t \in Session /\ interval(t) \in Nat /\ interval(t) = timeBased[t].interval
  BY <1>1, OptionsOf DEF interval
<1>8. o.interval \in Nat
  BY DEF TrackingOptions
<1>9. ASSUME NEW x \in TrackingOptions, calls' = Append(calls, started(x)), UNCHANGED owed,
             x.interval <= o.interval, \A t \in TimeBased : x.interval <= interval(t)
      PROVE  IInv'
  <2>. DEFINE c == started(x)
              more == <<c>>
  <2>1. /\ c \in FitCall /\ c.what = "start" /\ c.options = x /\ c.session = s /\ c.then = "started"
    BY CallIs DEF Continuation
  <2>. HIDE DEF c
  <2>2. /\ more \in Seq(FitCall) /\ Elems(more) = {c}
        /\ \A E : Count(more, E) = IF c \in E THEN 1 ELSE 0
        /\ \A E : c \in E => LastOf(more, E, c)
    BY <2>1, Single
  <2>3. Takes(more)
    BY <1>1, <1>9, <2>1 DEF Takes, Types, c
  <2>. HIDE DEF more
  <2>4. Count(more, OwedCalls(s)) = 1
    BY <2>1, <2>2 DEF OwedCalls, Silent
  <2>5. Fix(more)
    <3>1. LastOf(more, TimeCalls, c)
      BY <2>1, <2>2 DEF TimeCalls
    <3>2. \A t \in TimeBased' : c.options.interval <= timeBased'[t].interval
      BY <1>3, <1>7, <1>9, <2>1
    <3>. QED
      BY <1>3, <2>1, <3>1, <3>2 DEF Fix
  <2>6. Watch(more, s)
    <3>1. Elems(more) \cap DistanceCalls(s) = {}
      BY <2>1, <2>2 DEF DistanceCalls
    <3>. QED
      BY <1>3, <3>1, WatchSame
  <2>7. s \notin hasty \cup failed =>
          /\ client[s] = "gone" => s \notin TimeBased' /\ (s \in DistanceBased' => s \in DistanceBased)
          /\ client[s] \in {"on", "off"} /\ owed'[s] = 0 => Settled(s)'
          /\ \A j : Made(more, j, s) => Stage(j, s)'
    <3>1. \A j : Made(more, j, s) => j = "started"
      BY <2>1, <2>2 DEF Made
    <3>2. s \notin hasty \cup failed => Stage("started", s)'
      BY <1>6 DEF Stage
    <3>. QED
      BY <1>6, <3>1, <3>2
  <2>8. owed'[s] = owed[s] /\ owed[s] \in Int
    BY <1>1, <1>9 DEF Types
  <2>. QED
    BY <1>2, <1>5, <2>1, <2>2, <2>3, <2>4, <2>5, <2>6, <2>7, <2>8, Handled
<1>10. CASE TimeBased = {} /\ send("start", o, s, "started", None) /\ UNCHANGED owed
  BY <1>8, <1>9, <1>10 DEF send
<1>11. CASE /\ TimeBased # {} /\ raises(o, TimeBased)
            /\ send("start", raised(o, TimeBased), s, "started", None) /\ UNCHANGED owed
  <2>1. /\ raised(o, TimeBased) \in TrackingOptions
        /\ raised(o, TimeBased).interval <= o.interval
        /\ \A t \in TimeBased : raised(o, TimeBased).interval <= interval(t)
    BY <1>1, <1>11, Raised
  <2>. QED
    BY <1>9, <1>11, <2>1 DEF send
<1>12. CASE TimeBased # {} /\ ~raises(o, TimeBased) /\ reportResponse(s) /\ UNCHANGED calls
  <2>. DEFINE more == <<>>
  <2>1. more \in Seq(FitCall) /\ Elems(more) = {} /\ Count(more, OwedCalls(s)) = 0 /\ calls' = calls \o more
    BY <1>1, <1>12, Nothing DEF Types
  <2>. HIDE DEF more
  <2>2. Takes(more)
    BY <2>1 DEF Takes
  <2>3. Fix(more)
    <3>1. fastest(TimeBased) \in TimeBased /\ interval(fastest(TimeBased)) <= o.interval
      BY <1>1, <1>12, Fastest, Raised
    <3>2. \A t \in TimeBased' : \E u \in TimeBased : interval(u) <= timeBased'[t].interval
      BY <1>3, <1>7, <3>1
    <3>. QED
      BY <1>3, <2>1, <3>2 DEF Fix
  <2>4. Watch(more, s)
    BY <1>3, <2>1, WatchSame
  <2>5. \A j : ~Made(more, j, s)
    BY <2>1 DEF Made
  <2>6. /\ client[s] = "gone" => owed'[s] = owed[s]
        /\ client[s] # "gone" => owed'[s] = owed[s] - 1
        /\ owed[s] \in Int
    BY <1>1, <1>12, Reported DEF Types
  <2>7. \A c \in Elems(more) : c.session = s
    BY <2>1
  <2>8. s \notin hasty \cup failed =>
          /\ client[s] = "gone" => s \notin TimeBased' /\ (s \in DistanceBased' => s \in DistanceBased)
          /\ client[s] \in {"on", "off"} /\ owed'[s] = 0 => Settled(s)'
          /\ \A j : Made(more, j, s) => Stage(j, s)'
    BY <1>6, <2>5
  <2>. QED
    BY <1>2, <1>5, <2>1, <2>2, <2>3, <2>4, <2>6, <2>7, <2>8, Handled
<1>. QED
  BY <1>10, <1>11, <1>12 DEF startTimeBasedTrackingMultiplex

\* A message of a session that waits for its answer: what it is about.
About(k, s) ==
  /\ For(Head(queue), s) /\ Head(queue) \in Owed(s)
  /\ s \notin hasty \cup failed => Stage(k, s)
  /\ s \notin failed /\ client[s] # "gone" => owed[s] # 0

LEMMA Handles1 ==
  ASSUME IInv, NEW s \in Session, queue # <<>>, NEW k, Of(Head(queue), k, s), k \notin Silent
  PROVE  About(k, s)
BY Handling DEF About

\* It is answered at once, or passed on with a call.
LEMMA Quiet ==
  ASSUME IInv, NEW s \in Session, NEW k, About(k, s), Handles, UNCHANGED <<client, calls>>,
         reportResponse(s) \/ (UNCHANGED owed /\ s \in failed),
         MapTypes', SameBut(s), Fix(<<>>), Watch(<<>>, s),
         s \notin hasty \cup failed =>
           /\ client[s] = "gone" => s \notin TimeBased' /\ (s \in DistanceBased' => s \in DistanceBased)
           /\ client[s] \in {"on", "off"} => Settled(s)'
  PROVE  IInv'
<1>. DEFINE more == <<>>
<1>1. more \in Seq(FitCall) /\ Elems(more) = {} /\ Count(more, OwedCalls(s)) = 0 /\ calls' = calls \o more
  BY Nothing DEF IInv, Types
<1>2. Fix(more) /\ Watch(more, s)
  OBVIOUS
<1>. HIDE DEF more
<1>3. Takes(more) /\ \A c \in Elems(more) : c.session = s
  BY <1>1 DEF Takes
<1>4. \A j : ~Made(more, j, s)
  BY <1>1 DEF Made
<1>5. /\ client[s] = "gone" => owed'[s] = owed[s]
      /\ client[s] # "gone" /\ reportResponse(s) => owed'[s] = owed[s] - 1
      /\ UNCHANGED owed => owed'[s] = owed[s]
      /\ owed[s] \in Int
  BY Reported DEF IInv, Types
<1>6. client[s] # "gone" =>
           /\ owed'[s] <= owed[s]
           /\ owed'[s] >= owed[s] - 1 + Count(more, OwedCalls(s))
           /\ s \notin failed => owed'[s] = owed[s] - 1 + Count(more, OwedCalls(s))
  BY <1>1, <1>5
<1>7. s \notin hasty \cup failed =>
           /\ client[s] = "gone" => s \notin TimeBased' /\ (s \in DistanceBased' => s \in DistanceBased)
           /\ client[s] \in {"on", "off"} /\ owed'[s] = 0 => Settled(s)'
           /\ \A j : Made(more, j, s) => Stage(j, s)'
  BY <1>4
<1>8. For(Head(queue), s) /\ Head(queue) \in Owed(s)
  BY DEF About
<1>. QED
  BY <1>1, <1>2, <1>3, <1>5, <1>6, <1>7, <1>8, Handled

LEMMA Asked ==
  ASSUME IInv, NEW s \in Session, NEW k, About(k, s), Handles, UNCHANGED <<client, owed>>,
         NEW c \in FitCall, c.session = s, NEW j, c.then = j, j \notin Silent, calls' = Append(calls, c),
         MapTypes', SameBut(s), Fix(<<c>>), Watch(<<c>>, s),
         s \notin hasty \cup failed =>
           /\ client[s] = "gone" => s \notin TimeBased' /\ (s \in DistanceBased' => s \in DistanceBased)
           /\ Stage(j, s)'
  PROVE  IInv'
<1>. DEFINE more == <<c>>
<1>1. /\ more \in Seq(FitCall) /\ Elems(more) = {c}
      /\ \A E : Count(more, E) = IF c \in E THEN 1 ELSE 0
      /\ \A E : c \in E => LastOf(more, E, c)
  BY Single
<1>2. Fix(more) /\ Watch(more, s) /\ calls' = calls \o more
  BY DEF IInv, Types
<1>. HIDE DEF more
<1>3. Takes(more) /\ \A d \in Elems(more) : d.session = s
  BY <1>1, <1>2 DEF Takes
<1>4. Count(more, OwedCalls(s)) = 1
  BY <1>1 DEF OwedCalls
<1>5. \A i : Made(more, i, s) => i = j
  BY <1>1 DEF Made
<1>6. owed'[s] = owed[s] /\ owed[s] \in Int
  BY DEF IInv, Types
<1>7. For(Head(queue), s) /\ Head(queue) \in Owed(s)
  BY DEF About
<1>8. s \notin hasty \cup failed =>
           /\ client[s] = "gone" => s \notin TimeBased' /\ (s \in DistanceBased' => s \in DistanceBased)
           /\ client[s] \in {"on", "off"} /\ owed'[s] = 0 => Settled(s)'
           /\ \A i : Made(more, i, s) => Stage(i, s)'
  BY <1>5, <1>6 DEF About
<1>. QED
  BY <1>1, <1>2, <1>3, <1>4, <1>6, <1>7, <1>8, Handled

LEMMA Erased ==
  ASSUME Types, NEW s \in Session, eraseTrackingSession(s)
  PROVE  /\ timeBased' \in [Session -> TrackingOptions \cup {None}]
         /\ distanceBased' \in [Session -> TrackingOptions \cup {None}]
         /\ \A t \in Session \ {s} : timeBased'[t] = timeBased[t] /\ distanceBased'[t] = distanceBased[t]
         /\ \A t \in TimeBased' : t \in TimeBased /\ timeBased'[t] = timeBased[t]
         /\ DistanceBased' \subseteq DistanceBased
         /\ s \notin TimeBased => TimeBased' = TimeBased /\ DistanceBased' = DistanceBased \ {s}
<1>1. CASE s \in TimeBased
  <2>1. timeBased' = [timeBased EXCEPT ![s] = None] /\ UNCHANGED distanceBased
    BY <1>1 DEF eraseTrackingSession
  <2>2. /\ timeBased' \in [Session -> TrackingOptions \cup {None}]
        /\ timeBased'[s] = None /\ \A t \in Session \ {s} : timeBased'[t] = timeBased[t]
    BY <2>1 DEF Types
  <2>. QED
    BY <1>1, <2>1, <2>2 DEF Types, TimeBased, DistanceBased
<1>2. CASE s \notin TimeBased
  <2>1. distanceBased' = [distanceBased EXCEPT ![s] = None] /\ UNCHANGED timeBased
    BY <1>2 DEF eraseTrackingSession
  <2>2. /\ distanceBased' \in [Session -> TrackingOptions \cup {None}]
        /\ distanceBased'[s] = None /\ \A t \in Session \ {s} : distanceBased'[t] = distanceBased[t]
    BY <2>1 DEF Types
  <2>. QED
    BY <1>2, <2>1, <2>2 DEF Types, TimeBased, DistanceBased
<1>. QED
  BY <1>1, <1>2

LEMMA FixFewer ==
  ASSUME Types, NEW more, Elems(more) \cap TimeCalls = {},
         failed = {} => \A t \in TimeBased' : t \in TimeBased /\ timeBased'[t] = timeBased[t],
         failed = {} /\ hasty = {} => TimeBased' = TimeBased
  PROVE  Fix(more)
<1>1. \A t \in TimeBased : interval(t) \in Nat /\ interval(t) = timeBased[t].interval
  BY OptionsOf DEF interval
<1>2. failed = {} => \A t \in TimeBased' : t \in TimeBased /\ interval(t) <= timeBased'[t].interval
  BY <1>1
<1>. QED
  BY <1>2 DEF Fix

\* A command is kept until the engine's capabilities are known.
LEMMA Park ==
  ASSUME IInv, begin(Head(queue)[1]), Head(queue)[1] \in {"start", "update"}, known = "no",
         queue' = Tail(queue), pending' = Append(pending, Head(queue)),
         UNCHANGED <<sessionVars, calls, owed, client, known>>
  PROVE  IInv'
<1>. DEFINE m == Head(queue)
<1>1. Types /\ queue # <<>> /\ UNCHANGED <<engineVars, hasty, failed>>
  BY DEF IInv, begin
<1>2. /\ queue' \in Seq(Message) /\ m \in Message /\ Elems(queue) = Elems(queue') \cup {m}
      /\ \A E : Count(queue, E) = Count(queue', E) + (IF m \in E THEN 1 ELSE 0)
  BY <1>1, Taken DEF Types
<1>3. m \in Parked
  BY <1>2, MessageIs DEF Parked
<1>4. /\ pending' \in Seq(Parked) /\ Elems(pending') = Elems(pending) \cup {m}
      /\ \A E : Count(pending', E) = Count(pending, E) + (IF m \in E THEN 1 ELSE 0)
  <2>. DEFINE r == <<m>>
  <2>1. r \in Seq(Parked) /\ Elems(r) = {m} /\ \A E : Count(r, E) = IF m \in E THEN 1 ELSE 0
    BY <1>3, Single
  <2>2. pending' = pending \o r /\ pending \in Seq(Parked)
    <3>1. pending' = Append(pending, m) /\ pending \in Seq(Parked)
      BY <1>1 DEF Types
    <3>. HIDE DEF m
    <3>. QED
      BY <1>3, <3>1
  <2>. HIDE DEF r
  <2>3. pending \o r \in Seq(Parked) /\ Elems(pending \o r) = Elems(pending) \cup Elems(r)
        /\ \A E : Count(pending \o r, E) = Count(pending, E) + Count(r, E)
    BY <2>1, <2>2, Joined
  <2>. QED
    BY <2>1, <2>2, <2>3
<1>. HIDE DEF m
<1>5. m # <<"engineUp">>
  BY <1>2, MessageIs DEF m
<1>6. Types'
  BY <1>1, <1>2, <1>4 DEF Types, sessionVars, engineVars
<1>7. Told' /\ Waits' /\ (Up' <=> Up)
  <2>1. Comes' <=> Comes
    BY <1>2, <1>5 DEF Comes
  <2>2. Told'
    BY <1>1, <1>2 DEF IInv, Told
  <2>. QED
    BY <1>1, <2>1, <2>2 DEF IInv, Waits, Up, engineVars
<1>8. ASSUME NEW s, NEW k  PROVE Underway(k, s)' <=> Underway(k, s)
  <2>1. Elems(queue') \cup Elems(pending') = Elems(queue) \cup Elems(pending)
    BY <1>2, <1>4
  <2>. QED
    BY <2>1 DEF Underway
<1>9. ASSUME NEW s \in Session  PROVE Counted(s)' /\ Staged(s)'
  <2>1. under(s)' = under(s)
    <3>1. Count(queue', Owed(s)) \in Nat /\ Count(pending, Owed(s)) \in Nat /\ Count(calls, OwedCalls(s)) \in Nat
      BY <1>1, <1>2, Under, Counting
    <3>2. under(s)' = Count(queue', Owed(s)) + Count(pending', Owed(s)) + Count(calls, OwedCalls(s))
      BY DEF under
    <3>. QED
      BY <1>2, <1>4, <3>1, <3>2 DEF under
  <2>. QED
    BY <1>1, <1>8, <2>1, Kept DEF IInv, sessionVars
<1>10. Served' /\ Rests' /\ Watched'
  <2>1. Served' /\ Rests'
    BY <1>1, <1>7 DEF IInv, Served, Rests, Final, serves, TimeBased, interval, sessionVars, engineVars
  <2>2. Watched'
    BY <1>1, <1>7, <1>8 DEF IInv, Watched, Watches, DistanceBased, sessionVars, engineVars
  <2>. QED
    BY <2>1, <2>2
<1>. QED
  BY <1>6, <1>7, <1>9, <1>10 DEF IInv

\* The maps and answers of the other sessions.
LEMMA Others ==
  ASSUME IInv, NEW s \in Session, UNCHANGED client, reportResponse(s) \/ UNCHANGED owed,
         timeBased' \in [Session -> TrackingOptions \cup {None}],
         distanceBased' \in [Session -> TrackingOptions \cup {None}],
         \A t \in Session \ {s} : timeBased'[t] = timeBased[t] /\ distanceBased'[t] = distanceBased[t]
  PROVE  MapTypes' /\ SameBut(s)
<1>1. owed' \in [Session -> Int] /\ \A t \in Session \ {s} : owed'[t] = owed[t]
  BY Reported DEF IInv
<1>. QED
  BY <1>1 DEF MapTypes, SameBut, IInv, Types

LEMMA Unmoved ==
  ASSUME IInv, NEW s \in Session, UNCHANGED <<client, timeBased, distanceBased>>,
         reportResponse(s) \/ UNCHANGED owed
  PROVE  /\ MapTypes' /\ SameBut(s) /\ TimeBased' = TimeBased /\ DistanceBased' = DistanceBased
         /\ (Settled(s)' <=> Settled(s)) /\ \A k : Stage(k, s)' <=> Stage(k, s)
<1>1. TimeBased' = TimeBased /\ DistanceBased' = DistanceBased
  BY DEF TimeBased, DistanceBased
<1>2. (Settled(s)' <=> Settled(s)) /\ \A k : Stage(k, s)' <=> Stage(k, s)
  BY <1>1 DEF Stage, Settled, InOne, InNone
<1>3. MapTypes' /\ SameBut(s)
  BY Others DEF IInv, Types
<1>. QED
  BY <1>1, <1>2, <1>3

\* What is answered at once with the maps as they were.
LEMMA Answered1 ==
  ASSUME IInv, NEW s \in Session, NEW k, About(k, s), Of(Head(queue), k, s), Handles,
         UNCHANGED <<client, timeBased, distanceBased, calls>>,
         reportResponse(s) \/ (UNCHANGED owed /\ s \in failed),
         s \in failed \/ k \notin {"restartDistance", "distanceStopped", "clientStopped"},
         s \notin hasty \cup failed => Stage(k, s) /\ (client[s] \in {"on", "off"} => Settled(s))
  PROVE  IInv'
<1>1. /\ MapTypes' /\ SameBut(s) /\ TimeBased' = TimeBased /\ DistanceBased' = DistanceBased
      /\ (Settled(s)' <=> Settled(s))
  BY Unmoved
<1>2. Elems(<<>>) = {}
  BY Nothing
<1>3. Fix(<<>>)
  BY <1>2, FixSame DEF IInv
<1>4. Watch(<<>>, s)
  <2>1. CASE s \in failed
    BY <2>1 DEF Watch
  <2>2. CASE k \notin {"restartDistance", "distanceStopped", "clientStopped"}
    <3>. DEFINE more == <<>>
    <3>1. Elems(more) \cap DistanceCalls(s) = {}
      BY <1>2
    <3>. HIDE DEF more
    <3>2. Watch(more, s)
      BY <1>1, <2>2, <3>1, WatchSame
    <3>. QED
      BY <3>2 DEF more
  <2>. QED
    BY <2>1, <2>2
<1>5. s \notin hasty \cup failed /\ client[s] = "gone" => s \notin TimeBased
  BY DEF IInv, Staged
<1>6. s \notin hasty \cup failed =>
        /\ client[s] = "gone" => s \notin TimeBased' /\ (s \in DistanceBased' => s \in DistanceBased)
        /\ client[s] \in {"on", "off"} => Settled(s)'
  BY <1>1, <1>5
<1>7. UNCHANGED <<client, calls>>
  OBVIOUS
<1>. QED
  BY <1>1, <1>3, <1>4, <1>6, <1>7, Quiet

LEMMA Start ==
  ASSUME IInv, procStart
  PROVE  IInv'
<1>0. /\ queue # <<>> /\ Head(queue)[1] = "start" /\ queue' = Tail(queue)
      /\ UNCHANGED <<modem, engine, engineDistance, hasty, failed, client, known>>
      /\ MsgStartTracking(Head(queue)[2], Head(queue)[3])
  BY DEF procStart, begin, engineVars
<1>1. PICK s \in Session, o \in TrackingOptions : Head(queue) = <<"start", s, o>>
  <2>1. Head(queue) \in Message
    BY <1>0, Taken DEF IInv, Types
  <2>. QED
    BY <1>0, <2>1, MessageIs
<1>2. MsgStartTracking(s, o)
  BY <1>0, <1>1
<1>3. CASE known = "no" /\ o.distance > 0
  <2>1. pending' = Append(pending, Head(queue)) /\ UNCHANGED <<sessionVars, calls, owed>>
    BY <1>1, <1>2, <1>3 DEF MsgStartTracking, park
  <2>2. begin(Head(queue)[1]) /\ Head(queue)[1] \in {"start", "update"}
    BY <1>0 DEF begin, engineVars
  <2>. QED
    BY <1>0, <1>3, <2>1, <2>2, Park
<1>4. CASE ~(known = "no" /\ o.distance > 0)
  <2>1. /\ UNCHANGED pending
        /\ IF client[s] = "gone" THEN UNCHANGED <<sessionVars, calls, owed>>
           ELSE IF o.distance = 0 THEN startTimeBasedTrackingMultiplex(s, o)
           ELSE /\ saveDistanceBased(s, o)
                /\ send("startDistance", o, s, "started", None)
                /\ UNCHANGED owed
    BY <1>2, <1>4 DEF MsgStartTracking
  <2>2. Handles
    BY <1>0, <2>1 DEF Handles
  <2>3. Of(Head(queue), "start", s) /\ About("start", s)
    <3>1. Of(Head(queue), "start", s)
      BY <1>1 DEF Of, Named
    <3>. QED
      BY <1>0, <3>1, Handles1 DEF Silent
  <2>4. s \notin hasty \cup failed => client[s] = "on" /\ InNone(s)
    BY <2>3 DEF About, Stage
  <2>5. CASE client[s] = "gone"
    <3>1. UNCHANGED <<client, timeBased, distanceBased, calls>> /\ UNCHANGED owed /\ reportResponse(s)
      BY <1>0, <2>1, <2>5 DEF sessionVars, reportResponse
    <3>2. ~(s \notin hasty \cup failed)
      BY <2>4, <2>5
    <3>. QED
      BY <2>2, <2>3, <3>1, <3>2, Answered1
  <2>6. CASE client[s] # "gone" /\ o.distance = 0
    BY <1>0, <2>1, <2>2, <2>3, <2>6, Multiplex
  <2>7. CASE client[s] # "gone" /\ o.distance # 0
    <3>. DEFINE c == callTo("startDistance", o, s, "started", None)
    <3>1. /\ distanceBased' = [distanceBased EXCEPT ![s] = o] /\ UNCHANGED timeBased
          /\ calls' = Append(calls, c) /\ UNCHANGED <<client, owed>>
      BY <1>0, <2>1, <2>7 DEF saveDistanceBased, send
    <3>2. c \in FitCall /\ c.what = "startDistance" /\ c.session = s /\ c.then = "started"
      BY CallIs DEF Continuation
    <3>. HIDE DEF c
    <3>3. /\ distanceBased' \in [Session -> TrackingOptions \cup {None}]
          /\ \A t \in Session \ {s} : distanceBased'[t] = distanceBased[t]
          /\ TimeBased' = TimeBased /\ DistanceBased' = DistanceBased \cup {s}
      BY <3>1, DistanceEntry, TrackingAssumption DEF IInv
    <3>4. MapTypes' /\ SameBut(s)
      BY <3>1, <3>3, Others DEF IInv, Types
    <3>5. Elems(<<c>>) = {c} /\ \A E : c \in E => LastOf(<<c>>, E, c)
      BY <3>2, Single
    <3>6. Fix(<<c>>)
      <4>1. Elems(<<c>>) \cap TimeCalls = {}
        BY <3>2, <3>5 DEF TimeCalls
      <4>. QED
        BY <3>1, <4>1, FixSame DEF IInv
    <3>7. Watch(<<c>>, s)
      <4>1. LastOf(<<c>>, DistanceCalls(s), c)
        BY <3>2, <3>5 DEF DistanceCalls
      <4>. QED
        BY <3>2, <4>1 DEF Watch
    <3>8. s \notin hasty \cup failed => client[s] # "gone" /\ Stage("started", s)'
      BY <2>4, <3>1, <3>3 DEF Stage, Settled, InOne, InNone
    <3>9. "started" \notin Silent
      BY DEF Silent
    <3>10. s \notin hasty \cup failed =>
             /\ client[s] = "gone" => s \notin TimeBased' /\ (s \in DistanceBased' => s \in DistanceBased)
             /\ Stage("started", s)'
      BY <3>8
    <3>. QED
      BY <2>2, <2>3, <3>1, <3>2, <3>4, <3>6, <3>7, <3>9, <3>10, Asked
  <2>. QED
    BY <2>5, <2>6, <2>7
<1>. QED
  BY <1>3, <1>4

\* Stopping a time-based session, whatever else the step asks for.
LEMMA Stops ==
  ASSUME Types, NEW s \in TimeBased, timeBased' = [timeBased EXCEPT ![s] = None],
         NEW more \in Seq(FitCall), Elems(more) \cap TimeCalls = {}
  PROVE  /\ timeBased' \in [Session -> TrackingOptions \cup {None}]
         /\ \A t \in Session \ {s} : timeBased'[t] = timeBased[t]
         /\ TimeBased' = TimeBased \ {s}
         /\ stopCalls(s) \in Seq(FitCall)
         /\ \A c \in Elems(stopCalls(s)) :
              c.session = s /\ c.then \in {"started", "stopped"} /\ c \in TimeCalls
         /\ stopCalls(s) # <<>> => Count(stopCalls(s), OwedCalls(s)) = 1
         /\ Fix(stopCalls(s) \o more)
<1>1. /\ s \in Session /\ timeBased' \in [Session -> TrackingOptions \cup {None}]
      /\ timeBased'[s] = None /\ \A t \in Session \ {s} : timeBased'[t] = timeBased[t]
      /\ TimeBased' = TimeBased \ {s}
  BY DEF Types, TimeBased
<1>2. \A t \in TimeBased : interval(t) \in Nat /\ interval(t) = timeBased[t].interval
  BY OptionsOf DEF interval
<1>3. CASE stopCalls(s) = <<>> /\ TimeBased \ {s} # {}
  <2>1. <<>> \in Seq(FitCall) /\ Elems(<<>>) = {}
    BY Nothing
  <2>2. Elems(<<>> \o more) = Elems(more)
    BY <2>1, Joined
  <2>3. \A t \in TimeBased' : t \in TimeBased /\ interval(t) <= timeBased'[t].interval
    BY <1>1, <1>2
  <2>4. Fix(<<>> \o more)
    BY <1>1, <1>3, <2>2, <2>3 DEF Fix
  <2>. QED
    BY <1>1, <1>3, <2>1, <2>4
<1>4. CASE \E c \in FitCall : stopCalls(s) = <<c>> /\ Restarts(c, s)
  <2>1. PICK c \in FitCall : stopCalls(s) = <<c>> /\ Restarts(c, s)
    BY <1>4
  <2>2. /\ <<c>> \in Seq(FitCall) /\ Elems(<<c>>) = {c}
        /\ \A E : Count(<<c>>, E) = IF c \in E THEN 1 ELSE 0
        /\ \A E : c \in E => LastOf(<<c>>, E, c)
    BY Single
  <2>3. c \in TimeCalls /\ c.session = s /\ c.then \in {"started", "stopped"}
    BY <2>1 DEF Restarts
  <2>4. Count(<<c>>, OwedCalls(s)) = 1
    BY <2>2, <2>3 DEF OwedCalls, Silent
  <2>5. LastOf(<<c>> \o more, TimeCalls, c)
    <3>1. LastOf(<<c>>, TimeCalls, c)
      BY <2>2, <2>3
    <3>. DEFINE r == <<c>>
    <3>2. r \in Seq(FitCall) /\ LastOf(r, TimeCalls, c)
      BY <2>2, <3>1
    <3>. HIDE DEF r
    <3>3. LastOf(r \o more, TimeCalls, c)
      BY <3>2, Joined
    <3>. QED
      BY <3>3 DEF r
  <2>6. \A t \in TimeBased' : c.options \in TrackingOptions /\ c.options.interval <= timeBased'[t].interval
    BY <1>1, <1>2, <2>1 DEF Restarts
  <2>7. TimeBased' = {} => c.options = None
    BY <1>1, <2>1 DEF Restarts
  <2>8. Fix(<<c>> \o more)
    BY <2>5, <2>6, <2>7 DEF Fix
  <2>. QED
    BY <1>1, <2>1, <2>2, <2>3, <2>4, <2>8
<1>. QED
  BY <1>3, <1>4, StopCalls

LEMMA TimeToDistance ==
  ASSUME IInv, NEW s \in TimeBased, NEW o \in TrackingOptions, Of(Head(queue), "update", s),
         Handles, UNCHANGED client, timeToDistance(s, o)
  PROVE  IInv'
<1>. DEFINE d == callTo("startDistance", o, s, "none", None)
            more == <<d>>
            all == stopCalls(s) \o more
<1>1. Types /\ s \in Session /\ o # None
  BY TrackingAssumption DEF IInv, TimeBased
<1>2. d \in FitCall /\ d.what = "startDistance" /\ d.session = s /\ d.then = "none"
  BY <1>1, CallIs DEF Continuation
<1>3. /\ timeBased' = [timeBased EXCEPT ![s] = None]
      /\ distanceBased' = [distanceBased EXCEPT ![s] = o]
      /\ calls' = calls \o stopCalls(s) \o more
      /\ IF stopCalls(s) = <<>> THEN reportResponse(s) ELSE UNCHANGED owed
  BY DEF timeToDistance
<1>. HIDE DEF d
<1>4. /\ more \in Seq(FitCall) /\ Elems(more) = {d}
      /\ \A E : Count(more, E) = IF d \in E THEN 1 ELSE 0
      /\ \A E : d \in E => LastOf(more, E, d)
  BY <1>2, Single
<1>. HIDE DEF more
<1>5. Elems(more) \cap TimeCalls = {} /\ LastOf(more, DistanceCalls(s), d)
      /\ Count(more, OwedCalls(s)) = 0
  BY <1>2, <1>4 DEF TimeCalls, DistanceCalls, OwedCalls, Silent
<1>6. /\ timeBased' \in [Session -> TrackingOptions \cup {None}]
      /\ \A t \in Session \ {s} : timeBased'[t] = timeBased[t]
      /\ TimeBased' = TimeBased \ {s}
      /\ stopCalls(s) \in Seq(FitCall)
      /\ \A c \in Elems(stopCalls(s)) : c.session = s /\ c.then \in {"started", "stopped"}
      /\ stopCalls(s) # <<>> => Count(stopCalls(s), OwedCalls(s)) = 1
      /\ Fix(all)
  BY <1>1, <1>3, <1>4, <1>5, Stops
<1>7. /\ distanceBased' \in [Session -> TrackingOptions \cup {None}]
      /\ \A t \in Session \ {s} : distanceBased'[t] = distanceBased[t]
      /\ DistanceBased' = DistanceBased \cup {s}
  BY <1>1, <1>3 DEF Types, DistanceBased
<1>8. /\ all \in Seq(FitCall) /\ Elems(all) = Elems(stopCalls(s)) \cup {d}
      /\ Count(all, OwedCalls(s)) = Count(stopCalls(s), OwedCalls(s)) + Count(more, OwedCalls(s))
      /\ LastOf(all, DistanceCalls(s), d)
  <2>1. /\ all \in Seq(FitCall) /\ Elems(all) = Elems(stopCalls(s)) \cup Elems(more)
        /\ \A E : Count(all, E) = Count(stopCalls(s), E) + Count(more, E)
        /\ \A E, c : LastOf(more, E, c) => LastOf(all, E, c)
    BY <1>4, <1>6, Joined
  <2>. QED
    BY <1>4, <1>5, <2>1
<1>9. calls' = calls \o all
  <2>1. calls \in Seq(FitCall)
    BY <1>1 DEF Types
  <2>2. calls \o stopCalls(s) \o more = calls \o (stopCalls(s) \o more)
    BY <1>4, <1>6, <2>1
  <2>. QED
    BY <1>3, <2>2
<1>. HIDE DEF all
<1>10. Takes(all) /\ Watch(all, s) /\ \A c \in Elems(all) : c.session = s
  BY <1>2, <1>6, <1>8, <1>9 DEF Takes, Watch
<1>11. About("update", s)
  BY <1>1, Handles1 DEF Handles, Silent
<1>12. s \notin hasty \cup failed => client[s] = "on" /\ s \notin DistanceBased
  BY <1>11 DEF About, Stage, InOne
<1>13. MapTypes' /\ SameBut(s)
  BY <1>1, <1>3, <1>6, <1>7, Others
<1>14. s \notin hasty \cup failed =>
           /\ client[s] = "gone" => s \notin TimeBased' /\ (s \in DistanceBased' => s \in DistanceBased)
           /\ client[s] \in {"on", "off"} /\ owed'[s] = 0 => Settled(s)'
           /\ \A k : Made(all, k, s) => Stage(k, s)'
  <2>1. s \notin hasty \cup failed => client[s] = "on" /\ Settled(s)'
    BY <1>6, <1>7, <1>12 DEF Settled, InOne
  <2>2. \A k : Made(all, k, s) => k \in {"started", "stopped", "none"}
    BY <1>2, <1>6, <1>8 DEF Made
  <2>3. s \notin hasty \cup failed => \A k \in {"started", "stopped", "none"} : Stage(k, s)'
    BY <2>1 DEF Stage
  <2>. QED
    BY <2>1, <2>2, <2>3
<1>15. /\ client[s] = "gone" => owed'[s] = owed[s]
       /\ client[s] # "gone" => owed'[s] = owed[s] - 1 + Count(all, OwedCalls(s))
       /\ owed[s] \in Int /\ Count(all, OwedCalls(s)) \in {0, 1}
  <2>1. CASE stopCalls(s) = <<>>
    <3>1. Count(all, OwedCalls(s)) = 0
      BY <1>5, <1>8, <2>1, Nothing
    <3>2. /\ client[s] = "gone" => owed'[s] = owed[s]
          /\ client[s] # "gone" => owed'[s] = owed[s] - 1
      BY <1>1, <1>3, <2>1, Reported
    <3>. QED
      BY <1>1, <3>1, <3>2 DEF Types
  <2>2. CASE stopCalls(s) # <<>>
    BY <1>1, <1>3, <1>5, <1>6, <1>8, <2>2 DEF Types
  <2>. QED
    BY <2>1, <2>2
<1>16. For(Head(queue), s) /\ Head(queue) \in Owed(s)
  BY <1>11 DEF About
<1>17. client[s] # "gone" =>
           /\ owed'[s] <= owed[s]
           /\ owed'[s] >= owed[s] - 1 + Count(all, OwedCalls(s))
           /\ s \notin failed => owed'[s] = owed[s] - 1 + Count(all, OwedCalls(s))
  BY <1>15
<1>. QED
  BY <1>1, <1>6, <1>8, <1>10, <1>13, <1>14, <1>15, <1>16, <1>17, Handled

LEMMA DistanceToTime ==
  ASSUME IInv, NEW s \in DistanceBased, NEW o \in TrackingOptions, Of(Head(queue), "update", s),
         Handles, UNCHANGED client, distanceToTime(s, o)
  PROVE  IInv'
<1>. DEFINE c == callTo("stopDistance", None, s, "toTime", o)
<1>1. s \in Session /\ Types /\ About("update", s)
  <2>1. s \in Session
    BY DEF DistanceBased
  <2>. QED
    BY <2>1, Handles1 DEF Handles, Silent, IInv
<1>2. c \in FitCall /\ c.what = "stopDistance" /\ c.session = s /\ c.then = "toTime"
  BY <1>1, CallIs DEF Continuation
<1>3. eraseTrackingSession(s) /\ calls' = Append(calls, c) /\ UNCHANGED <<client, owed>>
  BY DEF distanceToTime, send
<1>. HIDE DEF c
<1>4. /\ timeBased' \in [Session -> TrackingOptions \cup {None}]
      /\ distanceBased' \in [Session -> TrackingOptions \cup {None}]
      /\ \A t \in Session \ {s} : timeBased'[t] = timeBased[t] /\ distanceBased'[t] = distanceBased[t]
      /\ \A t \in TimeBased' : t \in TimeBased /\ timeBased'[t] = timeBased[t]
      /\ s \notin TimeBased => TimeBased' = TimeBased /\ DistanceBased' = DistanceBased \ {s}
  BY <1>1, <1>3, Erased
<1>5. MapTypes' /\ SameBut(s)
  BY <1>1, <1>3, <1>4, Others
<1>6. s \notin hasty \cup failed =>
        client[s] = "on" /\ s \notin TimeBased /\ TimeBased' = TimeBased /\ s \notin DistanceBased'
  BY <1>1, <1>4 DEF About, Stage, InOne
<1>7. Elems(<<c>>) = {c}
  BY <1>2, Single
<1>8. Fix(<<c>>)
  <2>1. Elems(<<c>>) \cap TimeCalls = {}
    BY <1>2, <1>7 DEF TimeCalls
  <2>. QED
    BY <1>1, <1>4, <1>6, <2>1, FixFewer
<1>9. Watch(<<c>>, s)
  BY <1>6 DEF Watch
<1>10. s \notin hasty \cup failed =>
         /\ client[s] = "gone" => s \notin TimeBased' /\ (s \in DistanceBased' => s \in DistanceBased)
         /\ Stage("toTime", s)'
  BY <1>3, <1>6 DEF Stage, InNone
<1>11. "toTime" \notin Silent
  BY DEF Silent
<1>. QED
  BY <1>1, <1>2, <1>3, <1>5, <1>8, <1>9, <1>10, <1>11, Asked

LEMMA DistanceUpdate ==
  ASSUME IInv, NEW s \in DistanceBased \ TimeBased, NEW o \in TrackingOptions,
         Of(Head(queue), "update", s), Handles,
         send("stopDistance", None, s, "restartDistance", o), UNCHANGED <<client, sessionVars, owed>>
  PROVE  IInv'
<1>. DEFINE c == callTo("stopDistance", None, s, "restartDistance", o)
<1>1. s \in Session /\ Types /\ About("update", s)
  <2>1. s \in Session
    BY DEF DistanceBased
  <2>. QED
    BY <2>1, Handles1 DEF Handles, Silent, IInv
<1>2. c \in FitCall /\ c.what = "stopDistance" /\ c.session = s /\ c.then = "restartDistance"
  BY <1>1, CallIs DEF Continuation
<1>3. calls' = Append(calls, c) /\ UNCHANGED <<client, owed, timeBased, distanceBased>>
  BY DEF send, sessionVars
<1>. HIDE DEF c
<1>4. MapTypes' /\ SameBut(s) /\ TimeBased' = TimeBased /\ DistanceBased' = DistanceBased
  BY <1>1, <1>3, Unmoved
<1>5. Elems(<<c>>) = {c} /\ <<c>> \in Seq(FitCall)
  BY <1>2, Single
<1>6. Fix(<<c>>)
  <2>1. Elems(<<c>>) \cap TimeCalls = {}
    BY <1>2, <1>5 DEF TimeCalls
  <2>. QED
    BY <1>1, <1>3, <2>1, FixSame
<1>7. Watch(<<c>>, s)
  <2>. DEFINE more == <<c>>
  <2>1. Made(more, "restartDistance", s) /\ more \in Seq(FitCall) /\ calls' = calls \o more
    <3>1. Made(more, "restartDistance", s) /\ more \in Seq(FitCall)
      BY <1>2, <1>5 DEF Made
    <3>2. calls' = calls \o <<c>>
      BY <1>1, <1>2, <1>3, AppendIsConcat DEF Types
    <3>. QED
      BY <3>1, <3>2
  <2>. HIDE DEF more
  <2>2. Underway("restartDistance", s)'
    BY <1>1, <2>1, Earlier DEF Handles
  <2>. QED
    BY <2>2 DEF Watch, Follows
<1>8. s \notin hasty \cup failed =>
         /\ client[s] = "gone" => s \notin TimeBased' /\ (s \in DistanceBased' => s \in DistanceBased)
         /\ Stage("restartDistance", s)'
  <2>1. s \notin hasty \cup failed => client[s] = "on"
    BY <1>1 DEF About, Stage
  <2>. QED
    BY <1>3, <1>4, <2>1 DEF Stage
<1>9. "restartDistance" \notin Silent
  BY DEF Silent
<1>. QED
  BY <1>1, <1>2, <1>3, <1>4, <1>6, <1>7, <1>8, <1>9, Asked

LEMMA UpdateMultiplex ==
  ASSUME IInv, NEW s \in TimeBased \ DistanceBased, NEW o \in TrackingOptions,
         Of(Head(queue), "update", s), Handles, UNCHANGED client, updateTrackingMultiplex(s, o)
  PROVE  IInv'
<1>. DEFINE others == TimeBased \ {s}
            changed == interval(s) # o.interval \/ power(s) # o.power
            updated(x) == callTo("start", x, s, "updated", timeBased[s])
<1>1. s \in Session /\ Types /\ About("update", s) /\ timeBased[s] \in TrackingOptions /\ o # None
  <2>1. s \in Session /\ Types
    BY DEF TimeBased, IInv
  <2>2. timeBased[s] \in TrackingOptions
    BY <2>1, OptionsOf
  <2>. QED
    BY <2>1, <2>2, Handles1, TrackingAssumption DEF Handles, Silent
<1>2. /\ timeBased' \in [Session -> TrackingOptions \cup {None}]
      /\ timeBased'[s] = o /\ \A t \in Session \ {s} : timeBased'[t] = timeBased[t]
      /\ DistanceBased' = DistanceBased /\ TimeBased' = TimeBased
      /\ distanceBased' = distanceBased /\ distanceBased' \in [Session -> TrackingOptions \cup {None}]
  <2>1. timeBased' = [timeBased EXCEPT ![s] = o] /\ UNCHANGED distanceBased
    BY DEF updateTrackingMultiplex, saveTimeBased
  <2>2. /\ timeBased' \in [Session -> TrackingOptions \cup {None}]
        /\ timeBased'[s] = o /\ \A t \in Session \ {s} : timeBased'[t] = timeBased[t]
        /\ DistanceBased' = DistanceBased /\ TimeBased' = TimeBased \cup {s}
    BY <1>1, <2>1, Entry
  <2>. QED
    BY <1>1, <2>1, <2>2 DEF Types
<1>3. reportResponse(s) \/ UNCHANGED owed
  BY DEF updateTrackingMultiplex
<1>4. MapTypes' /\ SameBut(s)
  BY <1>1, <1>2, <1>3, Others
<1>5. s \notin hasty \cup failed => client[s] = "on" /\ Settled(s)' /\ Stage("updated", s)'
  BY <1>1, <1>2 DEF About, Stage, Settled, InOne
<1>6. \A t \in TimeBased : t \in Session /\ interval(t) \in Nat /\ interval(t) = timeBased[t].interval
  BY <1>1, OptionsOf DEF interval
<1>7. o.interval \in Nat
  BY DEF TrackingOptions
<1>8. ASSUME NEW x \in TrackingOptions, calls' = Append(calls, updated(x)), UNCHANGED owed,
             x.interval <= o.interval, \A t \in others : x.interval <= interval(t)
      PROVE  IInv'
  <2>1. PICK c \in FitCall : /\ c.what = "start" /\ c.options = x /\ c.session = s /\ c.then = "updated"
                             /\ calls' = Append(calls, c)
    BY <1>1, <1>8, CallIs DEF Continuation
  <2>2. Elems(<<c>>) = {c} /\ \A E : c \in E => LastOf(<<c>>, E, c)
    BY Single
  <2>3. Fix(<<c>>)
    <3>1. LastOf(<<c>>, TimeCalls, c)
      BY <2>1, <2>2 DEF TimeCalls
    <3>2. \A t \in TimeBased' : c.options.interval <= timeBased'[t].interval
      BY <1>2, <1>6, <1>8, <2>1
    <3>. QED
      BY <1>2, <2>1, <3>1, <3>2 DEF Fix
  <2>4. Watch(<<c>>, s)
    BY <1>2 DEF Watch
  <2>5. s \notin hasty \cup failed =>
           /\ client[s] = "gone" => s \notin TimeBased' /\ (s \in DistanceBased' => s \in DistanceBased)
           /\ Stage("updated", s)'
    BY <1>5
  <2>6. "updated" \notin Silent /\ UNCHANGED <<client, owed>>
    BY <1>8 DEF Silent
  <2>. QED
    BY <1>1, <1>4, <2>1, <2>3, <2>4, <2>5, <2>6, Asked
<1>9. CASE changed /\ others = {} /\ send("start", o, s, "updated", timeBased[s]) /\ UNCHANGED owed
  BY <1>7, <1>8, <1>9 DEF send
<1>10. CASE /\ changed /\ others # {} /\ raises(o, others)
            /\ send("start", raised(o, others), s, "updated", timeBased[s]) /\ UNCHANGED owed
  <2>1. /\ raised(o, others) \in TrackingOptions
        /\ raised(o, others).interval <= o.interval
        /\ \A t \in others : raised(o, others).interval <= interval(t)
    BY <1>1, <1>10, Raised
  <2>. QED
    BY <1>8, <1>10, <2>1 DEF send
<1>11. CASE /\ changed => others # {} /\ ~raises(o, others)
            /\ reportResponse(s) /\ UNCHANGED calls
  <2>1. Fix(<<>>)
    <3>1. \E u \in TimeBased : interval(u) <= o.interval
      <4>1. CASE changed
        <5>1. fastest(others) \in others /\ interval(fastest(others)) <= o.interval
          BY <1>1, <1>11, <4>1, Fastest, Raised
        <5>. QED
          BY <5>1
      <4>2. CASE ~changed
        BY <1>6, <4>2
      <4>. QED
        BY <4>1, <4>2
    <3>2. \A t \in TimeBased' : \E u \in TimeBased : interval(u) <= timeBased'[t].interval
      BY <1>2, <1>6, <3>1
    <3>3. Elems(<<>>) = {}
      BY Nothing
    <3>. QED
      BY <1>2, <3>2, <3>3 DEF Fix
  <2>2. Watch(<<>>, s)
    BY <1>2 DEF Watch
  <2>3. s \notin hasty \cup failed =>
           /\ client[s] = "gone" => s \notin TimeBased' /\ (s \in DistanceBased' => s \in DistanceBased)
           /\ client[s] \in {"on", "off"} => Settled(s)'
    BY <1>5
  <2>4. UNCHANGED <<client, calls>>
    BY <1>11
  <2>. QED
    BY <1>1, <1>4, <1>11, <2>1, <2>2, <2>3, <2>4, Quiet
<1>. QED
  BY <1>9, <1>10, <1>11 DEF updateTrackingMultiplex

LEMMA Update ==
  ASSUME IInv, procUpdate
  PROVE  IInv'
<1>1. /\ queue # <<>> /\ Head(queue)[1] = "update" /\ queue' = Tail(queue)
      /\ UNCHANGED <<modem, engine, engineDistance, hasty, failed, client, known>>
      /\ MsgUpdateTracking(Head(queue)[2], Head(queue)[3])
  BY DEF procUpdate, begin, engineVars
<1>2. PICK s \in Session, o \in TrackingOptions : Head(queue) = <<"update", s, o>>
  <2>1. Head(queue) \in Message
    BY <1>1, Taken DEF IInv, Types
  <2>. QED
    BY <1>1, <2>1, MessageIs
<1>3. MsgUpdateTracking(s, o)
  BY <1>1, <1>2
<1>4. CASE known = "no" /\ o.distance > 0
  <2>1. pending' = Append(pending, Head(queue)) /\ UNCHANGED <<sessionVars, calls, owed>>
    BY <1>2, <1>3, <1>4 DEF MsgUpdateTracking, park
  <2>2. begin(Head(queue)[1]) /\ Head(queue)[1] \in {"start", "update"}
    BY <1>1 DEF begin, engineVars
  <2>. QED
    BY <1>1, <1>4, <2>1, <2>2, Park
<1>5. CASE ~(known = "no" /\ o.distance > 0)
  <2>1. UNCHANGED pending
    BY <1>3, <1>5 DEF MsgUpdateTracking
  <2>2. Handles /\ UNCHANGED client
    BY <1>1, <2>1 DEF Handles
  <2>3. Of(Head(queue), "update", s) /\ About("update", s)
    <3>1. Of(Head(queue), "update", s)
      BY <1>2 DEF Of, Named
    <3>. QED
      BY <1>1, <3>1, Handles1 DEF Silent
  <2>4. CASE /\ s \notin TimeBased \cup DistanceBased
             /\ reportResponse(s) /\ UNCHANGED <<sessionVars, calls>>
    <3>1. s \notin hasty \cup failed => FALSE
      BY <2>3, <2>4 DEF About, Stage, InOne
    <3>2. UNCHANGED <<client, timeBased, distanceBased, calls>>
      BY <2>2, <2>4 DEF sessionVars
    <3>. QED
      BY <2>2, <2>3, <2>4, <3>1, <3>2, Answered1
  <2>5. CASE s \in TimeBased /\ o.distance > 0 /\ timeToDistance(s, o)
    BY <2>2, <2>3, <2>5, TimeToDistance
  <2>6. CASE s \in DistanceBased /\ o.distance = 0 /\ distanceToTime(s, o)
    BY <2>2, <2>3, <2>6, DistanceToTime
  <2>7. CASE /\ s \in TimeBased \ DistanceBased /\ o.distance = 0
             /\ updateTrackingMultiplex(s, o)
    BY <2>2, <2>3, <2>7, UpdateMultiplex
  <2>8. CASE /\ s \in DistanceBased \ TimeBased /\ o.distance > 0
             /\ send("stopDistance", None, s, "restartDistance", o)
             /\ UNCHANGED <<sessionVars, owed>>
    <3>1. UNCHANGED <<client, sessionVars, owed>>
      BY <2>2, <2>8
    <3>. QED
      BY <2>2, <2>3, <2>8, <3>1, DistanceUpdate
  <2>. QED
    BY <1>3, <1>5, <2>4, <2>5, <2>6, <2>7, <2>8 DEF MsgUpdateTracking
<1>. QED
  BY <1>4, <1>5

LEMMA TimeStop ==
  ASSUME IInv, NEW s \in TimeBased, Of(Head(queue), "stop", s), Handles, UNCHANGED client,
         eraseTrackingSession(s), calls' = calls \o stopCalls(s),
         IF stopCalls(s) = <<>> THEN reportResponse(s) ELSE UNCHANGED owed
  PROVE  IInv'
<1>. DEFINE all == stopCalls(s)
            none == <<>>
<1>1. s \in Session /\ Types /\ About("stop", s)
  <2>1. s \in Session
    BY DEF TimeBased
  <2>. QED
    BY <2>1, Handles1 DEF Handles, Silent, IInv
<1>2. timeBased' = [timeBased EXCEPT ![s] = None] /\ UNCHANGED distanceBased
  BY DEF eraseTrackingSession
<1>3. none \in Seq(FitCall) /\ Elems(none) = {} /\ (\A E : Count(none, E) = 0) /\ \A q \in Seq(FitCall) : q \o none = q
  BY Nothing
<1>. HIDE DEF none
<1>4. /\ timeBased' \in [Session -> TrackingOptions \cup {None}]
      /\ \A t \in Session \ {s} : timeBased'[t] = timeBased[t]
      /\ TimeBased' = TimeBased \ {s}
      /\ stopCalls(s) \in Seq(FitCall)
      /\ \A c \in Elems(stopCalls(s)) : c.session = s /\ c.then \in {"started", "stopped"} /\ c \in TimeCalls
      /\ stopCalls(s) # <<>> => Count(stopCalls(s), OwedCalls(s)) = 1
      /\ Fix(stopCalls(s) \o none)
  BY <1>1, <1>2, <1>3, Stops
<1>5. all \in Seq(FitCall) /\ Fix(all) /\ \A c \in Elems(all) : c.session = s
  BY <1>3, <1>4
<1>6. DistanceBased' = DistanceBased /\ distanceBased' \in [Session -> TrackingOptions \cup {None}]
  BY <1>1, <1>2 DEF DistanceBased, Types
<1>7. Takes(all)
  BY DEF Takes
<1>8. Watch(all, s)
  <2>1. Elems(all) \cap DistanceCalls(s) = {}
    BY <1>4 DEF TimeCalls, DistanceCalls
  <2>. HIDE DEF all
  <2>. QED
    BY <1>6, <2>1, WatchSame
<1>9. MapTypes' /\ SameBut(s)
  BY <1>1, <1>2, <1>4, <1>6, Others
<1>10. s \notin hasty \cup failed =>
           /\ client[s] = "gone" => s \notin TimeBased' /\ (s \in DistanceBased' => s \in DistanceBased)
           /\ client[s] \in {"on", "off"} /\ owed'[s] = 0 => Settled(s)'
           /\ \A k : Made(all, k, s) => Stage(k, s)'
  <2>1. s \notin hasty \cup failed => client[s] = "off" /\ Settled(s)'
    BY <1>1, <1>4, <1>6 DEF Settled, InOne, InNone, About, Stage
  <2>2. \A k : Made(all, k, s) => k \in {"started", "stopped"}
    BY <1>4 DEF Made
  <2>3. s \notin hasty \cup failed => \A k \in {"started", "stopped"} : Stage(k, s)'
    BY <2>1 DEF Stage
  <2>. QED
    BY <2>1, <2>2, <2>3
<1>11. /\ client[s] = "gone" => owed'[s] = owed[s]
       /\ client[s] # "gone" => owed'[s] = owed[s] - 1 + Count(all, OwedCalls(s))
       /\ owed[s] \in Int /\ Count(all, OwedCalls(s)) \in {0, 1}
  <2>1. CASE stopCalls(s) = <<>>
    <3>1. Count(all, OwedCalls(s)) = 0
      BY <2>1, Nothing
    <3>2. /\ client[s] = "gone" => owed'[s] = owed[s]
          /\ client[s] # "gone" => owed'[s] = owed[s] - 1
      BY <1>1, <2>1, Reported
    <3>. QED
      BY <1>1, <3>1, <3>2 DEF Types
  <2>2. CASE stopCalls(s) # <<>>
    BY <1>1, <1>4, <2>2 DEF Types
  <2>. QED
    BY <2>1, <2>2
<1>12. For(Head(queue), s) /\ Head(queue) \in Owed(s)
  BY <1>1 DEF About
<1>13. client[s] # "gone" =>
           /\ owed'[s] <= owed[s]
           /\ owed'[s] >= owed[s] - 1 + Count(all, OwedCalls(s))
           /\ s \notin failed => owed'[s] = owed[s] - 1 + Count(all, OwedCalls(s))
  BY <1>11
<1>. HIDE DEF all
<1>. QED
  BY <1>1, <1>5, <1>7, <1>8, <1>9, <1>10, <1>11, <1>12, <1>13, Handled

LEMMA DistanceStop ==
  ASSUME IInv, NEW s \in DistanceBased \ TimeBased, Of(Head(queue), "stop", s), Handles,
         send("stopDistance", None, s, "distanceStopped", None), UNCHANGED <<client, sessionVars, owed>>
  PROVE  IInv'
<1>1. s \in Session /\ Types /\ About("stop", s)
  <2>1. s \in Session
    BY DEF DistanceBased
  <2>. QED
    BY <2>1, Handles1 DEF Handles, Silent, IInv
<1>2. PICK c \in FitCall : /\ c.what = "stopDistance" /\ c.session = s /\ c.then = "distanceStopped"
                           /\ calls' = Append(calls, c)
  BY <1>1, CallIs DEF Continuation, send
<1>3. UNCHANGED <<client, owed, timeBased, distanceBased>>
  BY DEF sessionVars
<1>4. MapTypes' /\ SameBut(s) /\ TimeBased' = TimeBased /\ DistanceBased' = DistanceBased
  BY <1>1, <1>3, Unmoved
<1>5. Elems(<<c>>) = {c} /\ <<c>> \in Seq(FitCall)
  BY <1>2, Single
<1>6. Fix(<<c>>)
  <2>1. Elems(<<c>>) \cap TimeCalls = {}
    BY <1>2, <1>5 DEF TimeCalls
  <2>. QED
    BY <1>1, <1>3, <2>1, FixSame
<1>7. Watch(<<c>>, s)
  <2>. DEFINE more == <<c>>
  <2>1. Made(more, "distanceStopped", s) /\ more \in Seq(FitCall) /\ calls' = calls \o more
    <3>1. Made(more, "distanceStopped", s) /\ more \in Seq(FitCall)
      BY <1>2, <1>5 DEF Made
    <3>2. calls' = calls \o <<c>>
      BY <1>1, <1>2, AppendIsConcat DEF Types
    <3>. QED
      BY <3>1, <3>2
  <2>. HIDE DEF more
  <2>2. Underway("distanceStopped", s)'
    BY <1>1, <2>1, Earlier DEF Handles
  <2>. QED
    BY <2>2 DEF Watch, Follows
<1>8. s \notin hasty \cup failed =>
         /\ client[s] = "gone" => s \notin TimeBased' /\ (s \in DistanceBased' => s \in DistanceBased)
         /\ Stage("distanceStopped", s)'
  <2>1. s \notin hasty \cup failed => client[s] = "off"
    BY <1>1 DEF About, Stage
  <2>. QED
    BY <1>3, <1>4, <2>1 DEF Stage
<1>9. "distanceStopped" \notin Silent
  BY DEF Silent
<1>. QED
  BY <1>1, <1>2, <1>3, <1>4, <1>6, <1>7, <1>8, <1>9, Asked

LEMMA Stop ==
  ASSUME IInv, procStop
  PROVE  IInv'
<1>1. /\ queue # <<>> /\ Head(queue)[1] = "stop" /\ queue' = Tail(queue)
      /\ UNCHANGED <<modem, engine, engineDistance, hasty, failed, client, known>>
      /\ MsgStopTracking(Head(queue)[2])
  BY DEF procStop, begin, engineVars
<1>2. PICK s \in Session : Head(queue)[2] = s
  <2>1. Head(queue) \in Message
    BY <1>1, Taken DEF IInv, Types
  <2>. QED
    BY <1>1, <2>1, MessageIs
<1>3. MsgStopTracking(s)
  BY <1>1, <1>2
<1>4. Handles /\ UNCHANGED client
  BY <1>1, <1>3 DEF Handles, MsgStopTracking
<1>5. Of(Head(queue), "stop", s) /\ About("stop", s)
  <2>1. Of(Head(queue), "stop", s)
    BY <1>1, <1>2 DEF Of, Named
  <2>. QED
    BY <1>1, <2>1, Handles1 DEF Silent
<1>6. CASE /\ s \in TimeBased
           /\ eraseTrackingSession(s)
           /\ calls' = calls \o stopCalls(s)
           /\ IF stopCalls(s) = <<>> THEN reportResponse(s) ELSE UNCHANGED owed
  BY <1>4, <1>5, <1>6, TimeStop
<1>7. CASE /\ s \in DistanceBased \ TimeBased
           /\ send("stopDistance", None, s, "distanceStopped", None)
           /\ UNCHANGED <<sessionVars, owed>>
  <2>1. UNCHANGED <<client, sessionVars, owed>>
    BY <1>4, <1>7
  <2>. QED
    BY <1>4, <1>5, <1>7, <2>1, DistanceStop
<1>8. CASE /\ s \notin TimeBased \cup DistanceBased
           /\ reportResponse(s) /\ UNCHANGED <<sessionVars, calls>>
  <2>1. s \notin hasty \cup failed => FALSE
    BY <1>5, <1>8 DEF About, Stage, InOne
  <2>2. UNCHANGED <<client, timeBased, distanceBased, calls>>
    BY <1>4, <1>8 DEF sessionVars
  <2>. QED
    BY <1>4, <1>5, <1>8, <2>1, <2>2, Answered1
<1>. QED
  BY <1>3, <1>6, <1>7, <1>8 DEF MsgStopTracking

\* What removing a client asks of the engine.
LEMMA Removes ==
  ASSUME Types, NEW s \in Session, MsgRemoveClient(s)
  PROVE  /\ timeBased' \in [Session -> TrackingOptions \cup {None}]
         /\ \A t \in Session \ {s} : timeBased'[t] = timeBased[t]
         /\ s \notin TimeBased'
         /\ \E more \in Seq(FitCall) :
              /\ calls' = calls \o more /\ Fix(more)
              /\ \A c \in Elems(more) : c.session = s /\ c.then \in {"started", "stopped", "clientStopped"}
              /\ s \in DistanceBased => Made(more, "clientStopped", s)
<1>. DEFINE A == IF s \in TimeBased THEN stopCalls(s) ELSE <<>>
            c == callTo("stopDistance", None, s, "clientStopped", None)
            B == IF s \in DistanceBased THEN <<c>> ELSE <<>>
            more == A \o B
<1>0. timeBased' = [timeBased EXCEPT ![s] = None] /\ calls' = calls \o A \o B
  BY DEF MsgRemoveClient
<1>1. /\ timeBased' \in [Session -> TrackingOptions \cup {None}]
      /\ timeBased'[s] = None /\ (\A t \in Session \ {s} : timeBased'[t] = timeBased[t])
      /\ s \notin TimeBased' /\ (s \notin TimeBased => timeBased' = timeBased)
  BY <1>0 DEF Types, TimeBased
<1>2. c \in FitCall /\ c.what = "stopDistance" /\ c.session = s /\ c.then = "clientStopped"
  BY CallIs DEF Continuation
<1>3. <<>> \in Seq(FitCall) /\ Elems(<<>>) = {} /\ \A q \in Seq(FitCall) : <<>> \o q = q
  BY Nothing
<1>. HIDE DEF c
<1>4. <<c>> \in Seq(FitCall) /\ Elems(<<c>>) = {c}
  BY <1>2, Single
<1>5. B \in Seq(FitCall) /\ Elems(B) \subseteq {c} /\ (s \in DistanceBased => c \in Elems(B))
  BY <1>3, <1>4
<1>. HIDE DEF B
<1>7. Elems(B) \cap TimeCalls = {}
  BY <1>2, <1>5 DEF TimeCalls
<1>8. /\ A \in Seq(FitCall) /\ Fix(A \o B)
      /\ \A d \in Elems(A) : d.session = s /\ d.then \in {"started", "stopped"}
  <2>1. CASE s \in TimeBased
    <3>1. /\ stopCalls(s) \in Seq(FitCall) /\ Fix(stopCalls(s) \o B)
          /\ \A d \in Elems(stopCalls(s)) : d.session = s /\ d.then \in {"started", "stopped"}
      BY <1>0, <1>5, <1>7, <2>1, Stops
    <3>. QED
      BY <2>1, <3>1
  <2>2. CASE s \notin TimeBased
    <3>1. A = <<>> /\ A \o B = B
      BY <1>3, <1>5, <2>2
    <3>2. Fix(B)
      BY <1>1, <1>7, <2>2, FixSame
    <3>. HIDE DEF A
    <3>. QED
      BY <1>3, <3>1, <3>2
  <2>. QED
    BY <2>1, <2>2
<1>. HIDE DEF A
<1>9. A \o B \in Seq(FitCall) /\ Elems(A \o B) = Elems(A) \cup Elems(B)
  BY <1>5, <1>8, Joined
<1>10. \A d \in Elems(more) : d.session = s /\ d.then \in {"started", "stopped", "clientStopped"}
  BY <1>2, <1>5, <1>8, <1>9
<1>11. s \in DistanceBased => Made(more, "clientStopped", s)
  BY <1>2, <1>5, <1>9 DEF Made
<1>12. more \in Seq(FitCall) /\ Fix(more) /\ calls' = calls \o more
  <2>1. calls' = calls \o more
    <3>1. calls \in Seq(FitCall)
      BY DEF Types
    <3>2. calls \o A \o B = calls \o (A \o B)
      BY <1>5, <1>8, <3>1
    <3>. QED
      BY <1>0, <3>2
  <2>. QED
    BY <1>8, <1>9, <2>1
<1>. HIDE DEF more
<1>. QED
  BY <1>1, <1>10, <1>11, <1>12

\* A client that no answer is under way for.
LEMMA Unowed ==
  ASSUME Types, NEW s, under(s) = 0, NEW k, Underway(k, s)
  PROVE  k \in Silent
<1>1. /\ Elems(queue) \cap Owed(s) = {} /\ Elems(pending) \cap Owed(s) = {}
      /\ Elems(calls) \cap OwedCalls(s) = {}
  BY Under
<1>2. Elems(queue) \subseteq Message /\ Elems(pending) \subseteq Message /\ Elems(calls) \subseteq FitCall
  <2>1. Elems(queue) \subseteq Message
    BY Elements DEF Types
  <2>2. Elems(pending) \subseteq Parked
    BY Elements DEF Types
  <2>3. Elems(calls) \subseteq FitCall
    BY Elements DEF Types
  <2>. QED
    BY <2>1, <2>2, <2>3 DEF Parked, Message, Command
<1>3. ASSUME k \notin Silent  PROVE FALSE
  <2>1. \A m \in Elems(queue) \cup Elems(pending) : ~Of(m, k, s)
    BY <1>1, <1>2, <1>3, Due
  <2>2. \A c \in Elems(calls) : ~(c.session = s /\ c.then = k)
    BY <1>1, <1>2, <1>3 DEF OwedCalls
  <2>. QED
    BY <2>1, <2>2 DEF Underway
<1>. QED
  BY <1>3

\* A client that is gone keeps no answers, and only calls that stop a session.
LEMMA Gone ==
  ASSUME IInv, NEW s \in Session, NEW more \in Seq(FitCall), Takes(more), Of(Head(queue), "remove", s),
         client'[s] = "gone", owed'[s] = 0, s \notin TimeBased', DistanceBased' = DistanceBased,
         \A c \in Elems(more) : c.then \in {"started", "stopped", "clientStopped"},
         s \in DistanceBased => Made(more, "clientStopped", s)
  PROVE  Counted(s)' /\ Staged(s)'
<1>1. Types /\ Counted(s) /\ Staged(s) /\ UNCHANGED <<hasty, failed>>
  BY DEF IInv, Takes, Handles
<1>2. Counted(s)'
  BY DEF Counted
<1>3. ASSUME s \notin hasty \cup failed  PROVE Staged(s)'
  <2>1. client[s] \in {"leaving", "gone"}
    <3>1. Stage("remove", s)
      BY <1>3, Handling DEF Takes, Handles
    <3>. QED
      BY <3>1 DEF Stage
  <2>2. ASSUME NEW k, Underway(k, s)
        PROVE  k \in Silent \cup {"started", "stopped"} \/ (k \notin Named /\ k \notin Continuation)
    <3>1. CASE client[s] = "gone"
      <4>1. Stage(k, s)
        BY <1>1, <1>3, <2>2 DEF Staged
      <4>. QED
        BY <3>1, <4>1 DEF Stage, Silent, Named, Continuation
    <3>2. CASE client[s] = "leaving"
      <4>1. under(s) = 0
        BY <1>1, <1>3, <3>2 DEF Counted
      <4>2. k \in Silent
        BY <1>1, <2>2, <4>1, Unowed
      <4>. QED
        BY <4>2
    <3>. QED
      BY <2>1, <3>1, <3>2
  <2>3. ASSUME NEW k, Underway(k, s)'  PROVE Stage(k, s)'
    <3>1. Underway(k, s) \/ Made(more, k, s)
      BY <1>1, <2>3, Earlier DEF Takes, Handles
    <3>2. CASE Underway(k, s)
      <4>1. k \in Silent \cup {"started", "stopped"} \/ (k \notin Named /\ k \notin Continuation)
        BY <2>2, <3>2
      <4>. QED
        BY <4>1 DEF Stage, Silent, Named, Continuation
    <3>3. CASE Made(more, k, s)
      <4>1. k \in {"started", "stopped", "clientStopped"}
        BY <3>3 DEF Made
      <4>. QED
        BY <4>1 DEF Stage
    <3>. QED
      BY <3>1, <3>2, <3>3
  <2>4. s \in DistanceBased' => Underway("clientStopped", s)'
    BY <1>1, Earlier DEF Takes, Handles
  <2>. QED
    BY <2>3, <2>4 DEF Staged
<1>. QED
  BY <1>1, <1>2, <1>3 DEF Staged

LEMMA RemoveOf ==
  ASSUME IInv, queue # <<>>, Head(queue)[1] = "remove", queue' = Tail(queue),
         UNCHANGED <<modem, engine, engineDistance, hasty, failed, known>>,
         NEW s \in Session, Head(queue)[2] = s, MsgRemoveClient(s)
  PROVE  IInv'
<1>3. /\ timeBased' = [timeBased EXCEPT ![s] = None]
      /\ client' = [client EXCEPT ![s] = "gone"] /\ owed' = [owed EXCEPT ![s] = 0]
      /\ UNCHANGED <<distanceBased, pending>>
  BY DEF MsgRemoveClient
<1>4. Types
  BY DEF IInv
<1>5. /\ timeBased' \in [Session -> TrackingOptions \cup {None}]
      /\ \A t \in Session \ {s} : timeBased'[t] = timeBased[t]
      /\ s \notin TimeBased'
  BY <1>4, Removes
<1>6. PICK all \in Seq(FitCall) :
        /\ calls' = calls \o all /\ Fix(all)
        /\ \A c \in Elems(all) : c.session = s /\ c.then \in {"started", "stopped", "clientStopped"}
        /\ s \in DistanceBased => Made(all, "clientStopped", s)
  BY <1>4, Removes
<1>8. Handles /\ Takes(all)
  BY <1>3, <1>6 DEF Takes, Handles
<1>9. Of(Head(queue), "remove", s) /\ For(Head(queue), s)
  BY DEF Of, For, Named
<1>10. /\ client' \in [Session -> {"new", "on", "off", "leaving", "gone"}] /\ client'[s] = "gone"
       /\ owed' \in [Session -> Int] /\ owed'[s] = 0
       /\ \A t \in Session \ {s} : client'[t] = client[t] /\ owed'[t] = owed[t]
  BY <1>3, <1>4 DEF Types
<1>11. DistanceBased' = DistanceBased /\ distanceBased' \in [Session -> TrackingOptions \cup {None}]
  BY <1>3, <1>4 DEF DistanceBased, Types
<1>12. MapTypes' /\ SameBut(s)
  BY <1>3, <1>5, <1>10, <1>11 DEF MapTypes, SameBut
<1>13. Counted(s)' /\ Staged(s)'
  BY <1>5, <1>6, <1>8, <1>9, <1>10, <1>11, Gone
<1>14. Watch(all, s)
  <2>1. s \in DistanceBased => Underway("clientStopped", s)'
    BY <1>4, <1>6, <1>8, Earlier DEF Takes, Handles
  <2>. QED
    BY <1>11, <2>1 DEF Watch, Follows
<1>15. \A c \in Elems(all) : c.session = s
  BY <1>6
<1>. QED
  BY <1>6, <1>8, <1>9, <1>12, <1>13, <1>14, <1>15, Step

LEMMA Removal ==
  ASSUME IInv, procRemove
  PROVE  IInv'
<1>1. /\ queue # <<>> /\ Head(queue)[1] = "remove" /\ queue' = Tail(queue)
      /\ UNCHANGED <<modem, engine, engineDistance, hasty, failed, known>>
      /\ MsgRemoveClient(Head(queue)[2])
  BY DEF procRemove, begin, engineVars
<1>2. PICK s \in Session : Head(queue)[2] = s
  <2>1. Head(queue) \in Message
    BY <1>1, Taken DEF IInv, Types
  <2>. QED
    BY <1>1, <2>1, MessageIs
<1>3. MsgRemoveClient(s)
  BY <1>1, <1>2
<1>. QED
  BY <1>1, <1>2, <1>3, RemoveOf

\* An answer: of which session, to which continuation, and whether it failed.
Answers(s, k, err) ==
  /\ Of(Head(queue), k, s) /\ Handles /\ UNCHANGED client
  /\ err # "SUCCESS" => s \in failed

LEMMA Failing ==
  ASSUME IInv, NEW s \in failed, s \in Session, NEW k, About(k, s), Handles, UNCHANGED <<client, calls>>,
         reportResponse(s) \/ UNCHANGED owed,
         timeBased' \in [Session -> TrackingOptions \cup {None}],
         distanceBased' \in [Session -> TrackingOptions \cup {None}],
         \A t \in Session \ {s} : timeBased'[t] = timeBased[t] /\ distanceBased'[t] = distanceBased[t]
  PROVE  IInv'
<1>1. MapTypes' /\ SameBut(s)
  BY Others
<1>2. Fix(<<>>) /\ Watch(<<>>, s)
  BY Nothing DEF Fix, Watch
<1>3. s \notin hasty \cup failed =>
         /\ client[s] = "gone" => s \notin TimeBased' /\ (s \in DistanceBased' => s \in DistanceBased)
         /\ client[s] \in {"on", "off"} => Settled(s)'
  OBVIOUS
<1>. QED
  BY <1>1, <1>2, <1>3, Quiet

\* A start or restart failed, or was executed.
LEMMA Started ==
  ASSUME IInv, NEW s \in Session, NEW err, Answers(s, "started", err), startFailed(s, err)
  PROVE  IInv'
<1>1. /\ Of(Head(queue), "started", s) /\ Handles /\ About("started", s)
      /\ reportResponse(s) /\ UNCHANGED <<client, calls>> /\ (err # "SUCCESS" => eraseTrackingSession(s))
      /\ err = "SUCCESS" => UNCHANGED <<timeBased, distanceBased>>
  BY Handles1 DEF Answers, Handles, Silent, startFailed, sessionVars
<1>2. s \notin hasty \cup failed => Stage("started", s) /\ (client[s] \in {"on", "off"} => Settled(s))
  BY <1>1 DEF About, Stage
<1>3. CASE err = "SUCCESS"
  BY <1>1, <1>2, <1>3, Answered1
<1>4. CASE err # "SUCCESS"
  <2>1. s \in failed
    BY <1>4 DEF Answers
  <2>2. /\ timeBased' \in [Session -> TrackingOptions \cup {None}]
        /\ distanceBased' \in [Session -> TrackingOptions \cup {None}]
        /\ \A t \in Session \ {s} : timeBased'[t] = timeBased[t] /\ distanceBased'[t] = distanceBased[t]
    BY <1>1, <1>4, Erased DEF IInv
  <2>. QED
    BY <1>1, <2>1, <2>2, Failing
<1>. QED
  BY <1>3, <1>4

LEMMA Updated ==
  ASSUME IInv, NEW s \in Session, NEW err, NEW old \in TrackingOptions,
         Answers(s, "updated", err), updateFailed(s, old, err)
  PROVE  IInv'
<1>1. /\ Of(Head(queue), "updated", s) /\ Handles /\ About("updated", s)
      /\ reportResponse(s) /\ UNCHANGED <<client, calls>>
      /\ err # "SUCCESS" => timeBased' = [timeBased EXCEPT ![s] = old] /\ UNCHANGED distanceBased
      /\ err = "SUCCESS" => UNCHANGED <<timeBased, distanceBased>>
  BY Handles1 DEF Answers, Handles, Silent, updateFailed, saveTimeBased, sessionVars
<1>2. s \notin hasty \cup failed => Stage("updated", s) /\ (client[s] \in {"on", "off"} => Settled(s))
  BY <1>1 DEF About, Stage, Settled, InOne
<1>3. CASE err = "SUCCESS"
  BY <1>1, <1>2, <1>3, Answered1
<1>4. CASE err # "SUCCESS"
  <2>1. s \in failed
    BY <1>4 DEF Answers
  <2>2. /\ timeBased' \in [Session -> TrackingOptions \cup {None}]
        /\ distanceBased' \in [Session -> TrackingOptions \cup {None}]
        /\ \A t \in Session \ {s} : timeBased'[t] = timeBased[t] /\ distanceBased'[t] = distanceBased[t]
    BY <1>1, <1>4 DEF IInv, Types
  <2>. QED
    BY <1>1, <2>1, <2>2, Failing
<1>. QED
  BY <1>3, <1>4

LEMMA Stopped ==
  ASSUME IInv, NEW s \in Session, NEW err, Answers(s, "stopped", err), stopped(s, err)
  PROVE  IInv'
<1>1. /\ Of(Head(queue), "stopped", s) /\ Handles /\ About("stopped", s)
      /\ reportResponse(s) /\ UNCHANGED <<client, calls>> /\ UNCHANGED <<timeBased, distanceBased>>
  BY Handles1 DEF Answers, Handles, Silent, stopped, sessionVars
<1>2. s \notin hasty \cup failed => Stage("stopped", s) /\ (client[s] \in {"on", "off"} => Settled(s))
  BY <1>1 DEF About, Stage
<1>. QED
  BY <1>1, <1>2, Answered1

LEMMA DistanceStopped ==
  ASSUME IInv, NEW s \in Session, NEW err, Answers(s, "distanceStopped", err), distanceStopped(s, err)
  PROVE  IInv'
<1>1. /\ Of(Head(queue), "distanceStopped", s) /\ Handles /\ About("distanceStopped", s)
      /\ reportResponse(s) /\ UNCHANGED <<client, calls>> /\ (err = "SUCCESS" => eraseTrackingSession(s))
      /\ err # "SUCCESS" => UNCHANGED <<timeBased, distanceBased>>
  BY Handles1 DEF Answers, Handles, Silent, distanceStopped, sessionVars
<1>2. s \notin hasty \cup failed => client[s] = "off" /\ s \notin TimeBased
  BY <1>1 DEF About, Stage
<1>3. CASE err # "SUCCESS"
  <2>1. s \in failed
    BY <1>3 DEF Answers
  <2>2. s \notin hasty \cup failed =>
          Stage("distanceStopped", s) /\ (client[s] \in {"on", "off"} => Settled(s))
    BY <2>1
  <2>. QED
    BY <1>1, <1>3, <2>1, <2>2, Answered1
<1>4. CASE err = "SUCCESS"
  <2>1. /\ timeBased' \in [Session -> TrackingOptions \cup {None}]
        /\ distanceBased' \in [Session -> TrackingOptions \cup {None}]
        /\ \A t \in Session \ {s} : timeBased'[t] = timeBased[t] /\ distanceBased'[t] = distanceBased[t]
        /\ \A t \in TimeBased' : t \in TimeBased /\ timeBased'[t] = timeBased[t]
        /\ s \notin TimeBased => TimeBased' = TimeBased /\ DistanceBased' = DistanceBased \ {s}
    BY <1>1, <1>4, Erased DEF IInv
  <2>2. MapTypes' /\ SameBut(s)
    BY <1>1, <2>1, Others
  <2>3. Fix(<<>>)
    BY <1>2, <2>1, FixFewer, Nothing DEF IInv
  <2>4. Watch(<<>>, s)
    BY <1>2, <2>1 DEF Watch
  <2>5. s \notin hasty \cup failed =>
           /\ client[s] = "gone" => s \notin TimeBased' /\ (s \in DistanceBased' => s \in DistanceBased)
           /\ client[s] \in {"on", "off"} => Settled(s)'
    BY <1>1, <1>2, <2>1 DEF Settled, InNone
  <2>. QED
    BY <1>1, <2>2, <2>3, <2>4, <2>5, Quiet
<1>. QED
  BY <1>3, <1>4

\* The engine stopped a session of a client that is gone.
LEMMA ClientStopped ==
  ASSUME IInv, NEW s \in Session, NEW err, Answers(s, "clientStopped", err), clientStopped(s, err)
  PROVE  IInv'
<1>. DEFINE more == <<>>
<1>1. /\ Of(Head(queue), "clientStopped", s) /\ Handles /\ Types /\ Counted(s) /\ Staged(s)
      /\ UNCHANGED <<client, owed, calls, hasty, failed>> /\ (err = "SUCCESS" => eraseTrackingSession(s))
      /\ err # "SUCCESS" => s \in failed /\ UNCHANGED <<timeBased, distanceBased>>
  BY DEF Answers, Handles, clientStopped, sessionVars, IInv
<1>2. /\ For(Head(queue), s) /\ Head(queue) \in Message
      /\ s \notin hasty \cup failed => Stage("clientStopped", s)
  BY <1>1, Handling DEF Handles
<1>3. s \notin hasty \cup failed => client[s] = "gone" /\ s \notin TimeBased
  BY <1>1, <1>2 DEF Stage, Staged
<1>4. /\ timeBased' \in [Session -> TrackingOptions \cup {None}]
      /\ distanceBased' \in [Session -> TrackingOptions \cup {None}]
      /\ \A t \in Session \ {s} : timeBased'[t] = timeBased[t] /\ distanceBased'[t] = distanceBased[t]
      /\ \A t \in TimeBased' : t \in TimeBased /\ timeBased'[t] = timeBased[t]
      /\ s \notin hasty \cup failed => TimeBased' = TimeBased /\ DistanceBased' = DistanceBased \ {s}
  <2>1. CASE err = "SUCCESS"
    BY <1>1, <1>3, <2>1, Erased
  <2>2. CASE err # "SUCCESS"
    BY <1>1, <2>2 DEF Types, TimeBased
  <2>. QED
    BY <2>1, <2>2
<1>5. MapTypes' /\ SameBut(s)
  BY <1>1, <1>4, Others
<1>6. /\ more \in Seq(FitCall) /\ Elems(more) = {} /\ Count(more, OwedCalls(s)) = 0
      /\ calls' = calls \o more
  BY <1>1, Nothing DEF Types
<1>. HIDE DEF more
<1>7. Takes(more) /\ (\A c \in Elems(more) : c.session = s) /\ \A k : ~Made(more, k, s)
  BY <1>1, <1>6 DEF Takes, Made
<1>8. Fix(more)
  BY <1>1, <1>4, <1>6, FixFewer
<1>9. Watch(more, s)
  BY <1>3, <1>4 DEF Watch
<1>10. under(s)' = under(s)
  <2>1. \A k : Of(Head(queue), k, s) => k = "clientStopped"
    BY <1>1 DEF Of, Named
  <2>2. Head(queue) \notin Owed(s)
    BY <1>2, <2>1, Due DEF Silent
  <2>3. under(s)' = under(s) + Count(more, OwedCalls(s)) - (IF Head(queue) \in Owed(s) THEN 1 ELSE 0)
    BY <1>1, <1>6, Consumes DEF Handles
  <2>4. under(s) \in Nat
    BY <1>1, Under
  <2>. QED
    BY <1>6, <2>2, <2>3, <2>4
<1>11. Counted(s)'
  BY <1>1, <1>10 DEF Counted
<1>12. ASSUME s \notin hasty \cup failed  PROVE Staged(s)'
  <2>1. ASSUME NEW k, Underway(k, s)'  PROVE Stage(k, s)'
    <3>1. Underway(k, s)
      BY <1>1, <1>6, <1>7, <2>1, Earlier DEF Handles
    <3>2. Stage(k, s) /\ client'[s] = "gone" /\ client[s] = "gone"
      BY <1>1, <1>3, <1>12, <3>1 DEF Staged
    <3>. QED
      BY <3>2 DEF Stage
  <2>. QED
    BY <1>1, <1>3, <1>4, <1>12, <2>1 DEF Staged
<1>13. Staged(s)'
  BY <1>1, <1>12 DEF Staged
<1>. QED
  BY <1>2, <1>5, <1>6, <1>7, <1>8, <1>9, <1>11, <1>13, Step

LEMMA RestartDistance ==
  ASSUME IInv, NEW s \in Session, NEW err, NEW o \in TrackingOptions,
         Answers(s, "restartDistance", err), restartDistance(s, o, err)
  PROVE  IInv'
<1>1. /\ Of(Head(queue), "restartDistance", s) /\ Handles /\ About("restartDistance", s)
      /\ UNCHANGED <<client, owed, timeBased, distanceBased>>
  BY Handles1 DEF Answers, Handles, Silent, restartDistance, sessionVars
<1>2. s \notin hasty \cup failed => Stage("restartDistance", s) /\ client[s] = "on"
  BY <1>1 DEF About, Stage
<1>3. CASE err # "SUCCESS"
  <2>1. s \in failed /\ UNCHANGED calls
    BY <1>3 DEF Answers, restartDistance
  <2>2. s \notin hasty \cup failed =>
          Stage("restartDistance", s) /\ (client[s] \in {"on", "off"} => Settled(s))
    BY <2>1
  <2>. QED
    BY <1>1, <2>1, <2>2, Answered1
<1>4. CASE err = "SUCCESS"
  <2>1. PICK c \in FitCall : /\ c.what = "startDistance" /\ c.session = s /\ c.then = "distanceRestarted"
                             /\ calls' = Append(calls, c)
    BY <1>4, CallIs DEF Continuation, send, restartDistance
  <2>2. /\ MapTypes' /\ SameBut(s) /\ TimeBased' = TimeBased /\ DistanceBased' = DistanceBased
        /\ \A k : Stage(k, s)' <=> Stage(k, s)
    BY <1>1, Unmoved
  <2>3. Elems(<<c>>) = {c} /\ \A E : c \in E => LastOf(<<c>>, E, c)
    BY <2>1, Single
  <2>4. Fix(<<c>>)
    <3>1. Elems(<<c>>) \cap TimeCalls = {}
      BY <2>1, <2>3 DEF TimeCalls
    <3>. QED
      BY <1>1, <3>1, FixSame DEF IInv
  <2>5. Watch(<<c>>, s)
    <3>1. LastOf(<<c>>, DistanceCalls(s), c)
      BY <2>1, <2>3 DEF DistanceCalls
    <3>. QED
      BY <2>1, <3>1 DEF Watch
  <2>6. Stage("restartDistance", s) => Stage("distanceRestarted", s)
    BY DEF Stage
  <2>7. s \notin hasty \cup failed =>
           /\ client[s] = "gone" => s \notin TimeBased' /\ (s \in DistanceBased' => s \in DistanceBased)
           /\ Stage("distanceRestarted", s)'
    BY <1>2, <2>2, <2>6
  <2>8. "distanceRestarted" \notin Silent
    BY DEF Silent
  <2>. QED
    BY <1>1, <2>1, <2>2, <2>4, <2>5, <2>7, <2>8, Asked
<1>. QED
  BY <1>3, <1>4

LEMMA DistanceRestarted ==
  ASSUME IInv, NEW s \in Session, NEW err, NEW o \in TrackingOptions,
         Answers(s, "distanceRestarted", err), distanceRestarted(s, o, err)
  PROVE  IInv'
<1>1. /\ Of(Head(queue), "distanceRestarted", s) /\ Handles /\ About("distanceRestarted", s)
      /\ reportResponse(s) /\ UNCHANGED <<client, calls>>
      /\ err = "SUCCESS" => distanceBased' = [distanceBased EXCEPT ![s] = o] /\ UNCHANGED timeBased
      /\ err # "SUCCESS" => UNCHANGED <<timeBased, distanceBased>>
  BY Handles1 DEF Answers, Handles, Silent, distanceRestarted, saveDistanceBased, sessionVars
<1>2. s \notin hasty \cup failed => /\ Stage("distanceRestarted", s)
                                    /\ client[s] = "on" /\ s \in DistanceBased \ TimeBased
  BY <1>1 DEF About, Stage
<1>3. CASE err # "SUCCESS"
  <2>1. s \in failed
    BY <1>3 DEF Answers
  <2>2. s \notin hasty \cup failed =>
          Stage("distanceRestarted", s) /\ (client[s] \in {"on", "off"} => Settled(s))
    BY <2>1
  <2>. QED
    BY <1>1, <1>3, <2>1, <2>2, Answered1
<1>4. CASE err = "SUCCESS"
  <2>1. /\ distanceBased' \in [Session -> TrackingOptions \cup {None}]
        /\ \A t \in Session \ {s} : distanceBased'[t] = distanceBased[t]
        /\ TimeBased' = TimeBased /\ DistanceBased' = DistanceBased \cup {s}
        /\ UNCHANGED timeBased /\ timeBased' \in [Session -> TrackingOptions \cup {None}]
    <3>1. Types /\ o # None /\ distanceBased' = [distanceBased EXCEPT ![s] = o] /\ UNCHANGED timeBased
      BY <1>1, <1>4, TrackingAssumption DEF IInv
    <3>2. /\ distanceBased' \in [Session -> TrackingOptions \cup {None}]
          /\ \A t \in Session \ {s} : distanceBased'[t] = distanceBased[t]
          /\ TimeBased' = TimeBased /\ DistanceBased' = DistanceBased \cup {s}
      BY <3>1, DistanceEntry
    <3>. QED
      BY <3>1, <3>2 DEF Types
  <2>2. MapTypes' /\ SameBut(s)
    BY <1>1, <2>1, Others
  <2>3. Fix(<<>>)
    BY <2>1, FixSame, Nothing DEF IInv
  <2>4. Watch(<<>>, s)
    <3>1. \A k \in {"restartDistance", "distanceStopped", "clientStopped"} : ~Of(Head(queue), k, s)
      BY <1>1 DEF Of, Named
    <3>2. Elems(<<>>) = {}
      BY Nothing
    <3>3. failed = {} /\ s \notin hasty => s \in DistanceBased
      BY <1>2
    <3>. QED
      BY <3>1, <3>2, <3>3 DEF Watch
  <2>5. s \notin hasty \cup failed =>
           /\ client[s] = "gone" => s \notin TimeBased' /\ (s \in DistanceBased' => s \in DistanceBased)
           /\ client[s] \in {"on", "off"} => Settled(s)'
    BY <1>1, <1>2, <2>1 DEF Settled, InOne
  <2>. QED
    BY <1>1, <2>2, <2>3, <2>4, <2>5, Quiet
<1>. QED
  BY <1>3, <1>4

LEMMA Continues ==
  ASSUME IInv, Continue
  PROVE  IInv'
<1>1. /\ queue # <<>> /\ Head(queue)[1] = "response" /\ Handles /\ UNCHANGED client
      /\ continue(Head(queue)[2], Head(queue)[3])
  BY DEF Continue, begin, engineVars, Handles
<1>2. Head(queue) \in Message /\ Head(queue) \in Elems(queue)
  BY <1>1, Taken DEF IInv, Types
<1>3. PICK c \in FitCall, err \in {"SUCCESS", "FAILURE"} : /\ Head(queue)[2] = c /\ Head(queue)[3] = err
                                                           /\ c.session \in Session
  BY <1>1, <1>2, MessageIs
<1>4. PICK s \in Session : c.session = s
  BY <1>3
<1>5. continue(c, err)
  BY <1>1, <1>3
<1>6. Answers(s, c.then, err)
  <2>1. Of(Head(queue), c.then, s)
    BY <1>1, <1>3, <1>4 DEF Of
  <2>2. err = "FAILURE" => s \in failed
    BY <1>1, <1>2, <1>3, <1>4 DEF IInv, Told
  <2>. QED
    BY <1>1, <2>1, <2>2 DEF Answers
<1>7. c.then \in {"updated", "toTime", "restartDistance", "distanceRestarted"} => c.saved \in TrackingOptions
  BY DEF FitCall
<1>8. \/ c.then = "started" /\ startFailed(s, err)
      \/ c.then = "updated" /\ updateFailed(s, c.saved, err)
      \/ c.then = "stopped" /\ stopped(s, err)
      \/ c.then = "distanceStopped" /\ distanceStopped(s, err)
      \/ c.then = "clientStopped" /\ clientStopped(s, err)
      \/ c.then = "toTime" /\ startTimeBasedTrackingMultiplex(s, c.saved)
      \/ c.then = "restartDistance" /\ restartDistance(s, c.saved, err)
      \/ c.then = "distanceRestarted" /\ distanceRestarted(s, c.saved, err)
  BY <1>4, <1>5 DEF continue
<1>9. CASE c.then = "started" /\ startFailed(s, err)
  BY <1>6, <1>9, Started
<1>10. CASE c.then = "updated" /\ updateFailed(s, c.saved, err)
  BY <1>6, <1>7, <1>10, Updated
<1>11. CASE c.then = "stopped" /\ stopped(s, err)
  BY <1>6, <1>11, Stopped
<1>12. CASE c.then = "distanceStopped" /\ distanceStopped(s, err)
  BY <1>6, <1>12, DistanceStopped
<1>13. CASE c.then = "clientStopped" /\ clientStopped(s, err)
  BY <1>6, <1>13, ClientStopped
<1>14. CASE c.then = "toTime" /\ startTimeBasedTrackingMultiplex(s, c.saved)
  <2>1. c.saved \in TrackingOptions /\ Of(Head(queue), "toTime", s) /\ Handles /\ UNCHANGED client
    BY <1>6, <1>7, <1>14 DEF Answers
  <2>. QED
    BY <1>14, <2>1, Multiplex
<1>15. CASE c.then = "restartDistance" /\ restartDistance(s, c.saved, err)
  BY <1>6, <1>7, <1>15, RestartDistance
<1>16. CASE c.then = "distanceRestarted" /\ distanceRestarted(s, c.saved, err)
  BY <1>6, <1>7, <1>16, DistanceRestarted
<1>. QED
  BY <1>8, <1>9, <1>10, <1>11, <1>12, <1>13, <1>14, <1>15, <1>16

\* The modem is up: the sessions restart, and the commands that waited run.
LEMMA Restart ==
  ASSUME IInv, EngineUp
  PROVE  IInv'
<1>1. /\ queue # <<>> /\ Head(queue)[1] = "engineUp" /\ known' = "yes"
      /\ calls' = calls \o restartCalls /\ queue' = Tail(queue) \o pending /\ pending' = <<>>
      /\ UNCHANGED <<timeBased, distanceBased, client, owed, modem, engine, engineDistance, hasty, failed>>
      /\ Types
  BY DEF EngineUp, begin, engineVars, sessionVars, IInv
<1>2. /\ Tail(queue) \in Seq(Message) /\ Head(queue) \in Message
      /\ Elems(queue) = Elems(Tail(queue)) \cup {Head(queue)}
      /\ \A E : Count(queue, E) = Count(Tail(queue), E) + (IF Head(queue) \in E THEN 1 ELSE 0)
  BY <1>1, Taken DEF Types
<1>3. Head(queue) = <<"engineUp">> /\ \A s, k : ~Of(Head(queue), k, s)
  BY <1>1, <1>2, MessageIs DEF Of, Named
<1>4. pending \in Seq(Message) /\ Elems(pending) \subseteq Parked
  <2>1. Parked \subseteq Message
    BY DEF Parked, Message, Command
  <2>2. pending \in Seq(Parked)
    BY <1>1 DEF Types
  <2>. QED
    BY <2>1, <2>2, Elements
<1>5. /\ queue' \in Seq(Message) /\ Elems(queue') = Elems(Tail(queue)) \cup Elems(pending)
      /\ \A E : Count(queue', E) = Count(Tail(queue), E) + Count(pending, E)
  <2>. DEFINE r == Tail(queue)
  <2>1. r \in Seq(Message) /\ queue' = r \o pending
    BY <1>1, <1>2
  <2>. HIDE DEF r
  <2>2. /\ r \o pending \in Seq(Message) /\ Elems(r \o pending) = Elems(r) \cup Elems(pending)
        /\ \A E : Count(r \o pending, E) = Count(r, E) + Count(pending, E)
    BY <1>4, <2>1, Joined
  <2>. QED
    BY <2>1, <2>2 DEF r
<1>6. /\ restartCalls \in Seq(FitCall) /\ (\A c \in Elems(restartCalls) : c.then = "none")
      /\ TimeBased = {} => Elems(restartCalls) \cap TimeCalls = {}
      /\ TimeBased # {} => \E c \in FitCall : LastOf(restartCalls, TimeCalls, c) /\ serves(c.options)
      /\ \A s \in DistanceBased : \E c \in FitCall :
           LastOf(restartCalls, DistanceCalls(s), c) /\ c.what = "startDistance"
  BY <1>1, RestartCalls
<1>. DEFINE more == restartCalls
<1>. HIDE DEF more
<1>7. /\ more \in Seq(FitCall) /\ calls' = calls \o more
      /\ calls' \in Seq(FitCall) /\ Elems(calls') = Elems(calls) \cup Elems(more)
      /\ \A E : Count(calls', E) = Count(calls, E) + Count(more, E)
  <2>1. more \in Seq(FitCall) /\ calls' = calls \o more
    BY <1>1, <1>6 DEF more
  <2>. QED
    BY <1>1, <2>1, Joined DEF Types
<1>8. pending' = <<>> /\ <<>> \in Seq(Parked) /\ Elems(<<>>) = {} /\ \A E : Count(<<>>, E) = 0
  BY <1>1, Nothing
<1>9. Types'
  BY <1>1, <1>5, <1>7, <1>8 DEF Types
<1>10. Told' /\ Waits'
  <2>1. ASSUME NEW m \in Elems(pending)  PROVE m[1] # "response"
    BY <1>4, <2>1 DEF Parked
  <2>2. Told'
    BY <1>1, <1>2, <1>5, <2>1 DEF IInv, Told
  <2>. QED
    BY <1>1, <2>2 DEF Waits
<1>11. ASSUME NEW k, NEW s  PROVE /\ Underway(k, s)' => Underway(k, s) \/ k = "none"
                                  /\ Underway(k, s) => Underway(k, s)'
  BY <1>2, <1>3, <1>5, <1>6, <1>7, <1>8 DEF Underway, more
<1>12. ASSUME NEW s \in Session  PROVE Counted(s)' /\ Staged(s)'
  <2>1. under(s)' = under(s)
    <3>1. Count(more, OwedCalls(s)) = 0
      <4>1. Elems(more) \cap OwedCalls(s) = {}
        BY <1>6 DEF OwedCalls, Silent, more
      <4>. QED
        BY <1>7, <4>1, Counting
    <3>2. Head(queue) \notin Owed(s)
      BY <1>2, <1>3, Due
    <3>3. /\ Count(pending, Owed(s)) \in Nat /\ Count(calls, OwedCalls(s)) \in Nat
          /\ Count(Tail(queue), Owed(s)) \in Nat
      BY <1>1, <1>2, Under, Counting
    <3>4. under(s)' = Count(queue', Owed(s)) + Count(pending', Owed(s)) + Count(calls', OwedCalls(s))
      BY DEF under
    <3>. QED
      BY <1>2, <1>5, <1>7, <1>8, <3>1, <3>2, <3>3, <3>4 DEF under
  <2>. QED
    BY <1>1, <1>11, <2>1, Kept DEF IInv
<1>13. TimeBased' = TimeBased /\ DistanceBased' = DistanceBased /\ \A o : serves(o)' <=> serves(o)
  BY <1>1 DEF TimeBased, DistanceBased, serves, interval
<1>14. /\ Elems(more) \cap TimeCalls = {} => \A o : Final(o) => Final(o)'
       /\ \A c \in FitCall : LastOf(more, TimeCalls, c) => Final(c.options)'
  BY <1>1, <1>7, Finals
<1>15. Served'
  <2>1. ASSUME TimeBased # {}  PROVE \E o : Final(o)' /\ serves(o)
    <3>1. PICK c \in FitCall : LastOf(more, TimeCalls, c) /\ serves(c.options)
      BY <1>6, <2>1 DEF more
    <3>. QED
      BY <1>14, <3>1
  <2>. QED
    BY <1>13, <2>1 DEF Served
<1>16. Rests'
  <2>1. TimeBased = {} => Elems(more) \cap TimeCalls = {}
    BY <1>6 DEF more
  <2>. QED
    BY <1>1, <1>13, <1>14, <2>1 DEF IInv, Rests
<1>17. Watched'
  <2>1. ASSUME NEW s \in DistanceBased  PROVE Watches(s)'
    <3>1. PICK c \in FitCall : LastOf(more, DistanceCalls(s), c) /\ c.what = "startDistance"
      BY <1>6 DEF more
    <3>. QED
      BY <1>1, <1>7, <3>1, WatchesKept
  <2>. QED
    BY <1>13, <2>1 DEF Watched
<1>. QED
  BY <1>9, <1>10, <1>12, <1>15, <1>16, <1>17 DEF IInv

LEMMA TaskStep ==
  ASSUME IInv, Task
  PROVE  IInv'
BY Start, Update, Stop, Removal, Continues, Restart DEF Task
------------------------------------------------------------------------------
(* The clients.                                                            *)

LEMMA Posted ==
  ASSUME Types, NEW m \in Message, queue' = Append(queue, m)
  PROVE  /\ queue' \in Seq(Message) /\ Elems(queue') = Elems(queue) \cup {m}
         /\ \A E : Count(queue', E) = Count(queue, E) + (IF m \in E THEN 1 ELSE 0)
<1>. DEFINE r == <<m>>
<1>1. r \in Seq(Message) /\ Elems(r) = {m} /\ \A E : Count(r, E) = IF m \in E THEN 1 ELSE 0
  BY Single
<1>2. queue' = queue \o r /\ queue \in Seq(Message)
  BY DEF Types
<1>. HIDE DEF r
<1>3. /\ queue \o r \in Seq(Message) /\ Elems(queue \o r) = Elems(queue) \cup Elems(r)
      /\ \A E : Count(queue \o r, E) = Count(queue, E) + Count(r, E)
  BY <1>1, <1>2, Joined
<1>. QED
  BY <1>1, <1>2, <1>3

\* What the engine runs, and what the sessions want, is as it was.
LEMMA Steady ==
  ASSUME Served, Rests, Watched, hasty \subseteq hasty', Up' => Up, failed' = failed,
         UNCHANGED <<timeBased, distanceBased, calls, engine, engineDistance>>,
         \A k, s : Underway(k, s) => Underway(k, s)'
  PROVE  Served' /\ Rests' /\ Watched'
<1>1. /\ TimeBased' = TimeBased /\ DistanceBased' = DistanceBased
      /\ \A o : (serves(o)' <=> serves(o)) /\ (Final(o)' <=> Final(o))
      /\ \A s : Watches(s)' <=> Watches(s)
  BY DEF TimeBased, DistanceBased, serves, interval, Final, Watches
<1>2. Served' /\ Rests'
  BY <1>1 DEF Served, Rests
<1>3. Watched'
  <2>. SUFFICES ASSUME Up', NEW s \in DistanceBased' \ hasty'  PROVE Watches(s)' \/ Follows(s)'
    BY DEF Watched, Follows
  <2>1. Watches(s) \/ Follows(s)
    BY <1>1 DEF Watched, Follows
  <2>. QED
    BY <1>1, <2>1 DEF Follows
<1>. QED
  BY <1>2, <1>3

\* A client's command, with what the client was and becomes.
Asks(m, s, v) ==
  \/ m[1] = "start" /\ client[s] = "new" /\ v = "on"
  \/ m[1] = "update" /\ client[s] = "on" /\ v = "on"
  \/ m[1] = "stop" /\ client[s] = "on" /\ v = "off"
  \/ m[1] = "remove" /\ client[s] \in {"on", "off"} /\ v = "leaving"

LEMMA Commanded ==
  ASSUME IInv, NEW s \in Session, NEW m \in Command, m[2] = s, command(s, m),
         NEW v, Asks(m, s, v), client' = [client EXCEPT ![s] = v]
  PROVE  IInv'
<1>1. /\ Types /\ queue' = Append(queue, m)
      /\ UNCHANGED <<timeBased, distanceBased, modem, engine, engineDistance, known, pending, calls, failed>>
      /\ hasty' = (IF owed[s] > 0 THEN hasty \cup {s} ELSE hasty)
      /\ owed' = [owed EXCEPT ![s] = IF m[1] = "remove" THEN @ ELSE @ + 1]
  BY DEF IInv, command, sessionVars, engineVars
<1>2. /\ m \in Message /\ m[1] \in Named /\ m # <<"engineUp">>
      /\ m \in Owed(s) <=> m[1] # "remove"
      /\ \A t : t # s => m \notin Owed(t)
  <2>1. m \in Message /\ m[1] \in Named
    BY DEF Message, Command, Named
  <2>2. m # <<"engineUp">>
    BY <2>1, MessageIs DEF Named
  <2>. QED
    BY <2>1, <2>2 DEF Owed, Named, Silent
<1>3. /\ queue' \in Seq(Message) /\ Elems(queue') = Elems(queue) \cup {m}
      /\ \A E : Count(queue', E) = Count(queue, E) + (IF m \in E THEN 1 ELSE 0)
  BY <1>1, <1>2, Posted
<1>4. /\ v \in {"on", "off", "leaving"} /\ client' \in [Session -> {"new", "on", "off", "leaving", "gone"}]
      /\ client'[s] = v /\ (\A t \in Session \ {s} : client'[t] = client[t])
      /\ client[s] \in {"new", "on", "off"}
  BY <1>1 DEF Asks, Types
<1>5. /\ owed' \in [Session -> Int] /\ (\A t \in Session \ {s} : owed'[t] = owed[t])
      /\ owed[s] \in Int /\ owed'[s] = owed[s] + (IF m[1] = "remove" THEN 0 ELSE 1)
  <2>1. owed \in [Session -> Int]
    BY <1>1 DEF Types
  <2>. QED
    BY <1>1, <2>1
<1>6. hasty' \subseteq Session /\ hasty \subseteq hasty'
  BY <1>1 DEF Types
<1>7. Types'
  BY <1>1, <1>3, <1>4, <1>5, <1>6 DEF Types
<1>8. (Comes' <=> Comes) /\ Told' /\ Waits' /\ (Up' <=> Up)
  <2>1. Comes' <=> Comes
    BY <1>2, <1>3 DEF Comes
  <2>2. Told'
    BY <1>1, <1>2, <1>3 DEF IInv, Told, Named
  <2>. QED
    BY <1>1, <2>1, <2>2 DEF IInv, Waits, Up
<1>9. ASSUME NEW k, NEW t
      PROVE  /\ Underway(k, t)' => Underway(k, t) \/ (k = m[1] /\ t = s)
             /\ Underway(k, t) => Underway(k, t)'
  BY <1>1, <1>2, <1>3 DEF Underway, Of, Named
<1>10. ASSUME NEW t  PROVE under(t)' = under(t) + (IF m \in Owed(t) THEN 1 ELSE 0) /\ under(t) \in Nat
  <2>1. /\ Count(queue, Owed(t)) \in Nat /\ Count(pending, Owed(t)) \in Nat
        /\ Count(calls, OwedCalls(t)) \in Nat /\ under(t) \in Nat
    BY <1>1, Under
  <2>2. under(t)' = Count(queue', Owed(t)) + Count(pending, Owed(t)) + Count(calls, OwedCalls(t))
    BY <1>1 DEF under
  <2>. QED
    BY <1>3, <2>1, <2>2 DEF under
<1>11. ASSUME NEW t \in Session, t # s  PROVE Counted(t)' /\ Staged(t)'
  <2>1. Counted(t) /\ Staged(t)
    BY DEF IInv
  <2>2. under(t)' = under(t)
    BY <1>2, <1>10, <1>11
  <2>3. \A k : (Underway(k, t)' => Underway(k, t)) /\ (Underway(k, t) => Underway(k, t)')
    BY <1>9, <1>11
  <2>. QED
    BY <1>1, <1>4, <1>5, <1>6, <1>11, <2>1, <2>2, <2>3, Kept
<1>12. under(s)' = under(s) + (IF m[1] = "remove" THEN 0 ELSE 1) /\ under(s) \in Nat
  BY <1>2, <1>10
<1>13. s \notin hasty' => s \notin hasty /\ owed[s] = 0 /\ under(s) = 0
  <2>1. under(s) <= owed[s]
    BY <1>4 DEF IInv, Counted
  <2>. QED
    BY <1>1, <1>5, <1>12, <2>1
<1>14. Counted(s)'
  <2>1. under(s) <= owed[s] /\ (s \notin failed => owed[s] = under(s))
    BY <1>4 DEF IInv, Counted
  <2>2. v = "leaving" <=> m[1] = "remove"
    BY DEF Asks
  <2>. QED
    BY <1>1, <1>4, <1>5, <1>12, <1>13, <2>1, <2>2 DEF Counted
<1>15. ASSUME s \notin hasty' \cup failed'  PROVE Staged(s)'
  <2>1. /\ s \notin hasty \cup failed /\ owed[s] = 0 /\ under(s) = 0
        /\ client[s] = "new" => InNone(s)
        /\ client[s] = "on" => InOne(s)
        /\ client[s] = "off" => InNone(s)
    BY <1>1, <1>13, <1>15 DEF IInv, Staged, Settled
  <2>2. TimeBased' = TimeBased /\ DistanceBased' = DistanceBased
    BY <1>1 DEF TimeBased, DistanceBased
  <2>3. ASSUME NEW k, Underway(k, s)'  PROVE Stage(k, s)'
    <3>1. CASE Underway(k, s)
      <4>1. k \in Silent /\ Stage(k, s)
        BY <1>1, <2>1, <3>1, Unowed DEF IInv, Staged
      <4>2. k = "none"
        BY <1>4, <4>1 DEF Stage, Silent
      <4>. QED
        BY <4>2 DEF Stage
    <3>2. CASE k = m[1]
      <4>1. CASE m[1] = "start"
        BY <1>4, <2>1, <2>2, <3>2, <4>1 DEF Asks, Stage, InNone
      <4>2. CASE m[1] = "update"
        BY <1>4, <2>1, <2>2, <3>2, <4>2 DEF Asks, Stage, InOne
      <4>3. CASE m[1] = "stop"
        BY <1>4, <2>1, <2>2, <3>2, <4>3 DEF Asks, Stage, InOne
      <4>4. CASE m[1] = "remove"
        BY <1>4, <3>2, <4>4 DEF Asks, Stage
      <4>. QED
        BY <4>1, <4>2, <4>3, <4>4 DEF Asks
    <3>. QED
      BY <1>9, <2>3, <3>1, <3>2
  <2>4. client'[s] \in {"on", "off"} => owed'[s] # 0
    BY <1>4, <1>5, <2>1 DEF Asks
  <2>5. client'[s] = "leaving" => s \notin TimeBased' \cap DistanceBased'
    BY <1>4, <2>1, <2>2 DEF Asks, InOne, InNone
  <2>. QED
    BY <1>4, <2>3, <2>4, <2>5 DEF Staged
<1>16. Staged(s)'
  BY <1>15 DEF Staged
<1>17. Served' /\ Rests' /\ Watched'
  BY <1>1, <1>6, <1>8, <1>9, Steady DEF IInv
<1>. QED
  BY <1>7, <1>8, <1>11, <1>14, <1>16, <1>17 DEF IInv

LEMMA Client ==
  ASSUME IInv, Clients
  PROVE  IInv'
<1>1. PICK s \in Session : \/ \E o \in Options : \/ startTrackingCommand(s, o)
                                                 \/ updateTrackingOptionsCommand(s, o)
                           \/ stopTrackingCommand(s) \/ removeClientCommand(s)
  BY DEF Clients
<1>2. client \in [Session -> {"new", "on", "off", "leaving", "gone"}]
  BY DEF IInv, Types
<1>3. ASSUME NEW o \in Options, startTrackingCommand(s, o)  PROVE IInv'
  <2>1. PICK m \in Command : m = <<"start", s, o>>
    BY TrackingAssumption DEF Command
  <2>2. m[2] = s /\ command(s, m) /\ Asks(m, s, "on") /\ client' = [client EXCEPT ![s] = "on"]
    BY <1>3, <2>1 DEF startTrackingCommand, Asks
  <2>. QED
    BY <2>2, Commanded
<1>4. ASSUME NEW o \in Options, updateTrackingOptionsCommand(s, o)  PROVE IInv'
  <2>1. PICK m \in Command : m = <<"update", s, o>>
    BY TrackingAssumption DEF Command
  <2>2. m[2] = s /\ command(s, m) /\ Asks(m, s, "on")
    BY <1>4, <2>1 DEF updateTrackingOptionsCommand, Asks
  <2>3. client' = [client EXCEPT ![s] = "on"]
    BY <1>2, <1>4 DEF updateTrackingOptionsCommand
  <2>. QED
    BY <2>2, <2>3, Commanded
<1>5. ASSUME stopTrackingCommand(s)  PROVE IInv'
  <2>1. PICK m \in Command : m = <<"stop", s, None>>
    BY DEF Command
  <2>2. m[2] = s /\ command(s, m) /\ Asks(m, s, "off") /\ client' = [client EXCEPT ![s] = "off"]
    BY <1>5, <2>1 DEF stopTrackingCommand, Asks
  <2>. QED
    BY <2>2, Commanded
<1>6. ASSUME removeClientCommand(s)  PROVE IInv'
  <2>1. PICK m \in Command : m = <<"remove", s, None>>
    BY DEF Command
  <2>2. m[2] = s /\ command(s, m) /\ Asks(m, s, "leaving") /\ client' = [client EXCEPT ![s] = "leaving"]
    BY <1>6, <2>1 DEF removeClientCommand, Asks
  <2>. QED
    BY <2>2, Commanded
<1>. QED
  BY <1>1, <1>3, <1>4, <1>5, <1>6
------------------------------------------------------------------------------
(* The engine.                                                             *)

\* A call leaves for the engine, and its answer comes back to the adapter.
LEMMA Returned ==
  ASSUME Types, NEW err \in {"SUCCESS", "FAILURE"}, EngineCall(err)
  PROVE  /\ queue' \in Seq(Message) /\ calls' \in Seq(FitCall) /\ (Comes' <=> Comes)
         /\ Head(calls) \in FitCall /\ Elems(calls) = Elems(calls') \cup {Head(calls)}
         /\ \A E, c : LastOf(calls, E, c) =>
              LastOf(calls', E, c) \/ (c = Head(calls) /\ c \in E /\ Elems(calls') \cap E = {})
         /\ \A s : under(s)' = under(s)
         /\ \A k, s : Underway(k, s)' => Underway(k, s)
         /\ \A k, s : Underway(k, s) => Underway(k, s)' \/ k = "none"
         /\ \A m \in Elems(queue') :
              m \in Elems(queue) \/ (m[1] = "response" /\ m[2] = Head(calls) /\ m[3] = err)
<1>. DEFINE c == Head(calls)
            m == <<"response", c, err>>
<1>1. /\ calls # <<>> /\ calls' = Tail(calls) /\ UNCHANGED pending
      /\ queue' = IF c.then = "none" THEN queue ELSE Append(queue, m)
  BY DEF EngineCall, returnToSender
<1>2. /\ calls' \in Seq(FitCall) /\ c \in FitCall /\ Elems(calls) = Elems(calls') \cup {c}
      /\ \A E : Count(calls, E) = Count(calls', E) + (IF c \in E THEN 1 ELSE 0)
      /\ \A E, d : LastOf(calls, E, d) =>
           LastOf(calls', E, d) \/ (d = c /\ d \in E /\ Elems(calls') \cap E = {})
  BY <1>1, Taken DEF Types
<1>. HIDE DEF c
<1>3. ASSUME NEW s
      PROVE  /\ Count(calls', OwedCalls(s)) \in Nat /\ Count(queue, Owed(s)) \in Nat
             /\ Count(pending, Owed(s)) \in Nat
             /\ under(s)' = Count(queue', Owed(s)) + Count(pending, Owed(s)) + Count(calls', OwedCalls(s))
  <2>1. Count(calls', OwedCalls(s)) \in Nat
    BY <1>2, Counting
  <2>2. Count(queue, Owed(s)) \in Nat /\ Count(pending, Owed(s)) \in Nat
    BY Under
  <2>3. under(s)' = Count(queue', Owed(s)) + Count(pending, Owed(s)) + Count(calls', OwedCalls(s))
    BY <1>1 DEF under
  <2>. QED
    BY <2>1, <2>2, <2>3
<1>4. CASE c.then = "none"
  <2>1. queue' = queue /\ queue' \in Seq(Message)
    BY <1>1, <1>4 DEF Types
  <2>2. ASSUME NEW s  PROVE under(s)' = under(s)
    <3>1. c \notin OwedCalls(s)
      BY <1>4 DEF OwedCalls, Silent
    <3>. QED
      BY <1>2, <1>3, <2>1, <3>1 DEF under
  <2>3. ASSUME NEW k, NEW s  PROVE /\ Underway(k, s)' => Underway(k, s)
                                   /\ Underway(k, s) => Underway(k, s)' \/ k = "none"
    BY <1>1, <1>2, <1>4, <2>1 DEF Underway
  <2>4. Comes' <=> Comes
    BY <2>1 DEF Comes
  <2>. QED
    BY <1>2, <2>1, <2>2, <2>3, <2>4 DEF c
<1>5. CASE c.then # "none"
  <2>1. m \in Message /\ m[1] = "response" /\ m[2] = c /\ m[3] = err
    BY <1>2, <1>5 DEF Message, Answer
  <2>2. m # <<"engineUp">>
    BY <2>1, MessageIs
  <2>. HIDE DEF m
  <2>3. queue' = Append(queue, m)
    BY <1>1, <1>5
  <2>4. /\ queue' \in Seq(Message) /\ Elems(queue') = Elems(queue) \cup {m}
        /\ \A E : Count(queue', E) = Count(queue, E) + (IF m \in E THEN 1 ELSE 0)
    BY <2>1, <2>3, Posted
  <2>5. ASSUME NEW s  PROVE under(s)' = under(s)
    <3>1. m \in Owed(s) <=> c \in OwedCalls(s)
      BY <1>2, <2>1 DEF Owed, OwedCalls, Named, Silent
    <3>. QED
      BY <1>2, <1>3, <2>4, <3>1 DEF under
  <2>6. ASSUME NEW k, NEW s  PROVE Underway(k, s)' <=> Underway(k, s)
    <3>1. Of(m, k, s) <=> c.session = s /\ c.then = k
      BY <2>1 DEF Of, Named
    <3>. QED
      BY <1>1, <1>2, <2>4, <3>1 DEF Underway
  <2>7. Comes' <=> Comes
    BY <2>2, <2>4 DEF Comes
  <2>8. \A n \in Elems(queue') : n \in Elems(queue) \/ (n[1] = "response" /\ n[2] = c /\ n[3] = err)
    BY <2>1, <2>4
  <2>. QED
    BY <1>2, <2>4, <2>5, <2>6, <2>7, <2>8 DEF c
<1>. QED
  BY <1>4, <1>5

LEMMA ReturnedKept ==
  ASSUME IInv, NEW err \in {"SUCCESS", "FAILURE"}, EngineCall(err), failed \subseteq failed',
         NEW s \in Session
  PROVE  Counted(s)' /\ Staged(s)'
<1>1. Types /\ Counted(s) /\ Staged(s) /\ UNCHANGED <<timeBased, distanceBased, client, owed, hasty>>
  BY DEF IInv, EngineCall, sessionVars
<1>2. /\ under(s)' = under(s) /\ (\A k : Underway(k, s)' => Underway(k, s))
      /\ \A k : Underway(k, s) => Underway(k, s)' \/ k = "none"
  BY <1>1, Returned
<1>3. Underway("clientStopped", s) => Underway("clientStopped", s)'
  BY <1>2
<1>. QED
  BY <1>1, <1>2, <1>3, Kept

LEMMA Executed ==
  ASSUME Types, NEW c \in FitCall, calls # <<>>, c = Head(calls), calls' \in Seq(FitCall), execute(c),
         Elems(calls) = Elems(calls') \cup {c},
         \A E, d : LastOf(calls, E, d) =>
           LastOf(calls', E, d) \/ (d = c /\ d \in E /\ Elems(calls') \cap E = {})
  PROVE  (\A o : Final(o) => Final(o)') /\ \A s : Watches(s) => Watches(s)'
<1>1. /\ c \in TimeCalls => engine' = c.options
      /\ c \notin TimeCalls => engine' = engine
  BY DEF execute, TimeCalls, FitCall
<1>2. ASSUME NEW s
      PROVE  /\ c \in DistanceCalls(s) /\ c.what = "startDistance" => s \in engineDistance'
             /\ c \notin DistanceCalls(s) /\ s \in engineDistance => s \in engineDistance'
  BY DEF execute, DistanceCalls
<1>3. ASSUME NEW o, Final(o)  PROVE Final(o)'
  <2>1. CASE Elems(calls) \cap TimeCalls = {} /\ o = engine
    BY <1>1, <2>1 DEF Final
  <2>2. CASE \E d \in FitCall : LastOf(calls, TimeCalls, d) /\ d.options = o
    BY <1>1, <2>2 DEF Final
  <2>. QED
    BY <1>3, <2>1, <2>2 DEF Final
<1>4. ASSUME NEW s, Watches(s)  PROVE Watches(s)'
  <2>1. CASE Elems(calls) \cap DistanceCalls(s) = {} /\ s \in engineDistance
    BY <1>2, <2>1 DEF Watches
  <2>2. CASE \E d \in FitCall : LastOf(calls, DistanceCalls(s), d) /\ d.what = "startDistance"
    BY <1>2, <2>2 DEF Watches
  <2>. QED
    BY <1>4, <2>1, <2>2 DEF Watches
<1>. QED
  BY <1>3, <1>4

LEMMA Executes ==
  ASSUME IInv, EngineExecutes
  PROVE  IInv'
<1>1. /\ EngineCall("SUCCESS") /\ execute(Head(calls)) /\ modem = "up" /\ calls # <<>> /\ Types
      /\ UNCHANGED <<timeBased, distanceBased, known, pending, modem, client, owed, hasty, failed>>
  BY DEF EngineExecutes, EngineCall, sessionVars, IInv
<1>2. /\ queue' \in Seq(Message) /\ calls' \in Seq(FitCall) /\ (Comes' <=> Comes)
      /\ Head(calls) \in FitCall /\ Elems(calls) = Elems(calls') \cup {Head(calls)}
      /\ \A E, c : LastOf(calls, E, c) =>
           LastOf(calls', E, c) \/ (c = Head(calls) /\ c \in E /\ Elems(calls') \cap E = {})
  BY <1>1, Returned
<1>3. /\ \A k, s : Underway(k, s) => Underway(k, s)' \/ k = "none"
      /\ \A m \in Elems(queue') : m \in Elems(queue) \/ (m[1] = "response" /\ m[3] = "SUCCESS")
  BY <1>1, Returned
<1>4. engine' \in TrackingOptions \cup {None} /\ engineDistance' \subseteq Session
  <2>1. PICK c \in FitCall : c = Head(calls) /\ execute(c)
    BY <1>1, <1>2
  <2>2. /\ c.options \in TrackingOptions \cup {None}
        /\ c.what = "startDistance" => c.session \in Session
    BY DEF FitCall, Call
  <2>. QED
    BY <1>1, <2>1, <2>2 DEF execute, Types
<1>5. Types'
  BY <1>1, <1>2, <1>4 DEF Types
<1>6. Told' /\ Waits'
  BY <1>1, <1>2, <1>3 DEF IInv, Told, Waits
<1>7. \A s \in Session : Counted(s)' /\ Staged(s)'
  BY <1>1, ReturnedKept
<1>8. (\A o : Final(o) => Final(o)') /\ \A s : Watches(s) => Watches(s)'
  BY <1>1, <1>2, Executed
<1>9. /\ TimeBased' = TimeBased /\ DistanceBased' = DistanceBased
      /\ (\A o : serves(o)' <=> serves(o)) /\ (Up' <=> Up)
  BY <1>1, <1>2 DEF TimeBased, DistanceBased, serves, interval, Up
<1>10. Served' /\ Rests'
  BY <1>1, <1>8, <1>9 DEF IInv, Served, Rests
<1>11. Watched'
  <2>1. \A s : Follows(s) => Follows(s)'
    BY <1>3 DEF Follows
  <2>. QED
    BY <1>1, <1>8, <1>9, <2>1 DEF IInv, Watched, Follows
<1>. QED
  BY <1>5, <1>6, <1>7, <1>10, <1>11 DEF IInv

LEMMA Fails ==
  ASSUME IInv, EngineFails
  PROVE  IInv'
<1>1. /\ EngineCall("FAILURE") /\ failed' = failed \cup {Head(calls).session} /\ Types
      /\ UNCHANGED <<timeBased, distanceBased, known, pending, modem, client, owed, hasty,
                     engine, engineDistance>>
  BY DEF EngineFails, EngineCall, sessionVars, IInv
<1>2. /\ queue' \in Seq(Message) /\ calls' \in Seq(FitCall) /\ (Comes' <=> Comes)
      /\ Head(calls) \in FitCall
      /\ \A m \in Elems(queue') : m \in Elems(queue) \/ (m[1] = "response" /\ m[2] = Head(calls))
  BY <1>1, Returned
<1>3. Head(calls).session \in Session \cup {None}
  BY <1>2 DEF FitCall, Call
<1>4. Types'
  BY <1>1, <1>2, <1>3 DEF Types
<1>5. Told' /\ Waits'
  BY <1>1, <1>2 DEF IInv, Told, Waits
<1>6. \A s \in Session : Counted(s)' /\ Staged(s)'
  BY <1>1, ReturnedKept
<1>7. failed' # {}
  BY <1>1
<1>. QED
  BY <1>4, <1>5, <1>6, <1>7 DEF IInv, Served, Rests, Watched, Up

\* A restart of the modem.
LEMMA Down ==
  ASSUME IInv, ModemDown
  PROVE  IInv'
<1>1. /\ modem' = "down" /\ engine' = None /\ engineDistance' = {} /\ Types
      /\ UNCHANGED <<timeBased, distanceBased, known, pending, queue, calls, client, owed, hasty, failed>>
  BY DEF ModemDown, sessionVars, IInv
<1>2. Types' /\ Told' /\ Waits'
  <2>1. Types'
    BY <1>1 DEF Types
  <2>2. Told' /\ Waits'
    BY <1>1 DEF IInv, Told, Waits, Comes
  <2>. QED
    BY <2>1, <2>2
<1>3. ASSUME NEW s \in Session  PROVE Counted(s)' /\ Staged(s)'
  <2>1. under(s)' = under(s) /\ \A k : Underway(k, s)' <=> Underway(k, s)
    BY <1>1 DEF under, Underway
  <2>. QED
    BY <1>1, <2>1, Kept DEF IInv
<1>4. Rests'
  <2>1. Final(None) => Final(None)'
    BY <1>1 DEF Final
  <2>2. TimeBased' = TimeBased
    BY <1>1 DEF TimeBased
  <2>. QED
    BY <1>1, <2>1, <2>2 DEF IInv, Rests
<1>5. Served' /\ Watched'
  BY <1>1 DEF Served, Watched, Up
<1>. QED
  BY <1>2, <1>3, <1>4, <1>5 DEF IInv

LEMMA Rises ==
  ASSUME IInv, handleEngineUpEvent
  PROVE  IInv'
<1>. DEFINE m == <<"engineUp">>
<1>1. /\ modem' = "up" /\ queue' = Append(queue, m) /\ Types
      /\ UNCHANGED <<timeBased, distanceBased, known, pending, calls, engine, engineDistance,
                     client, owed, hasty, failed>>
  BY DEF handleEngineUpEvent, sessionVars, IInv
<1>2. m \in Message /\ m[1] = "engineUp"
  BY DEF Message
<1>. HIDE DEF m
<1>3. /\ queue' \in Seq(Message) /\ Elems(queue') = Elems(queue) \cup {m}
      /\ \A E : Count(queue', E) = Count(queue, E) + (IF m \in E THEN 1 ELSE 0)
  BY <1>1, <1>2, Posted
<1>4. Comes'
  BY <1>3 DEF Comes, m
<1>5. Types'
  BY <1>1, <1>3 DEF Types
<1>6. Told' /\ Waits'
  BY <1>1, <1>2, <1>3, <1>4 DEF IInv, Told, Waits
<1>7. \A k, s : (Underway(k, s)' <=> Underway(k, s)) /\ ~Of(m, k, s)
  <2>1. \A k, s : ~Of(m, k, s)
    BY <1>2 DEF Of, Named
  <2>. QED
    BY <1>1, <1>3, <2>1 DEF Underway
<1>8. ASSUME NEW s \in Session  PROVE Counted(s)' /\ Staged(s)'
  <2>1. m \notin Owed(s)
    BY <1>2, <1>7, Due
  <2>2. under(s)' = under(s)
    <3>1. Count(queue, Owed(s)) \in Nat
      BY <1>1, Under
    <3>. QED
      BY <1>1, <1>3, <2>1, <3>1 DEF under
  <2>. QED
    BY <1>1, <1>7, <2>2, Kept DEF IInv
<1>9. Rests'
  <2>1. Final(None) => Final(None)'
    BY <1>1 DEF Final
  <2>2. TimeBased' = TimeBased
    BY <1>1 DEF TimeBased
  <2>. QED
    BY <1>1, <2>1, <2>2 DEF IInv, Rests
<1>10. Served' /\ Watched'
  BY <1>4 DEF Served, Watched, Up
<1>. QED
  BY <1>5, <1>6, <1>8, <1>9, <1>10 DEF IInv
------------------------------------------------------------------------------
(* The theorems.                                                           *)

LEMMA InitHolds == Init => IInv
<1>. SUFFICES ASSUME Init  PROVE IInv
  OBVIOUS
<1>1. /\ timeBased = NoSessions /\ distanceBased = NoSessions
      /\ known = "no" /\ pending = <<>> /\ queue = <<>> /\ calls = <<>>
      /\ modem = "down" /\ engine = None /\ engineDistance = {}
      /\ client = [s \in Session |-> "new"] /\ owed = [s \in Session |-> 0]
      /\ hasty = {} /\ failed = {}
  BY DEF Init
<1>2. Elems(<<>>) = {} /\ \A E : Count(<<>>, E) = 0
  BY Nothing
<1>3. Types
  BY <1>1 DEF Types, NoSessions
<1>4. TimeBased = {} /\ DistanceBased = {}
  BY <1>1 DEF TimeBased, DistanceBased, NoSessions
<1>5. Told /\ Waits
  BY <1>1, <1>2 DEF Told, Waits
<1>6. ASSUME NEW s \in Session  PROVE Counted(s) /\ Staged(s)
  <2>1. under(s) = 0
    BY <1>1, <1>2 DEF under
  <2>2. \A k : ~Underway(k, s)
    BY <1>1, <1>2 DEF Underway
  <2>3. client[s] = "new" /\ owed[s] = 0
    BY <1>1
  <2>. QED
    BY <1>4, <2>1, <2>2, <2>3 DEF Counted, Staged, InNone
<1>7. Served /\ Rests /\ Watched
  BY <1>1, <1>2, <1>4 DEF Served, Rests, Watched, Final
<1>. QED
  BY <1>3, <1>5, <1>6, <1>7 DEF IInv

LEMMA Stutter == ASSUME IInv, UNCHANGED vars PROVE IInv'
<1>1. UNCHANGED <<timeBased, distanceBased, known, pending, queue, calls, modem,
                  engine, engineDistance, client, owed, hasty, failed>> /\ Types
  BY DEF vars, IInv
<1>2. Types' /\ Told' /\ Waits' /\ (Up' <=> Up)
  <2>1. Types'
    BY <1>1 DEF Types
  <2>2. Told' /\ Waits' /\ (Up' <=> Up)
    BY <1>1 DEF IInv, Told, Waits, Comes, Up
  <2>. QED
    BY <2>1, <2>2
<1>3. \A k, s : Underway(k, s)' <=> Underway(k, s)
  BY <1>1 DEF Underway
<1>4. ASSUME NEW s \in Session  PROVE Counted(s)' /\ Staged(s)'
  <2>1. under(s)' = under(s)
    BY <1>1 DEF under
  <2>. QED
    BY <1>1, <1>3, <2>1, Kept DEF IInv
<1>5. Served' /\ Rests' /\ Watched'
  BY <1>1, <1>2, <1>3, Steady DEF IInv
<1>. QED
  BY <1>2, <1>4, <1>5 DEF IInv

LEMMA NextHolds == IInv /\ [Next]_vars => IInv'
BY TaskStep, Client, Executes, Fails, Down, Rises, Stutter DEF Next

\* The inductive invariant holds throughout: what is under way for each session
\* is counted, and fits the maps; the engine will run what the sessions need.
THEOREM Invariant == Spec => []IInv
BY InitHolds, NextHolds, PTL DEF Spec

LEMMA Wider ==
  ASSUME NEW S, NEW T, S \subseteq T, NEW q \in Seq(S)
  PROVE  q \in Seq(T)
OBVIOUS

\* The maps, queues and calls keep their types, and a call or a message is one
\* that the adapter makes or receives, whatever fails or restarts.
THEOREM TypeCorrect == Spec => []TypeOK
<1>1. IInv => TypeOK
  <2>. SUFFICES ASSUME Types  PROVE TypeOK
    BY DEF IInv
  <2>1. Parked \subseteq Command /\ FitCall \subseteq Call
    BY DEF Parked, Command, FitCall
  <2>2. Message \subseteq Command \cup Response \cup {<<"engineUp">>}
    BY <2>1 DEF Message, Answer, Response
  <2>3. pending \in Seq(Command)
    BY <2>1, Wider DEF Types
  <2>4. calls \in Seq(Call)
    BY <2>1, Wider DEF Types
  <2>5. queue \in Seq(Command \cup Response \cup {<<"engineUp">>})
    BY <2>2, Wider DEF Types
  <2>. QED
    BY <2>3, <2>4, <2>5 DEF Types, TypeOK
<1>. QED
  BY <1>1, Invariant, PTL

\* With nothing in a queue and the modem up, no command waits either.
LEMMA AtRest ==
  ASSUME IInv, Idle
  PROVE  /\ ~Comes /\ Elems(queue) = {} /\ Elems(calls) = {} /\ pending = <<>>
         /\ \A s : under(s) = 0
         /\ \A k, s : ~Underway(k, s)
<1>1. queue = <<>> /\ calls = <<>> /\ modem = "up" /\ Waits /\ Types
  BY DEF Idle, IInv
<1>2. Elems(<<>>) = {} /\ \A E : Count(<<>>, E) = 0
  BY Nothing
<1>3. ~Comes
  BY <1>1, <1>2 DEF Comes
<1>4. pending = <<>>
  BY <1>1, <1>3 DEF Waits, Types
<1>. QED
  BY <1>1, <1>2, <1>3, <1>4 DEF under, Underway

\* When all calls are executed and none failed, the engine runs a fix that is
\* fast enough for each time-based session, the distance-based sessions of
\* patient clients, and no fix when there is no session: restarts of the modem,
\* multiplexing and the order of answers lose no session.
THEOREM EngineIsServed == Spec => []EngineServes
<1>1. IInv => EngineServes
  <2>. SUFFICES ASSUME IInv, Idle, failed = {}
       PROVE  /\ \A s \in TimeBased : engine # None /\ engine.interval <= interval(s)
              /\ DistanceBased \ hasty \subseteq engineDistance
              /\ hasty = {} /\ TimeBased = {} => engine = None
    BY DEF EngineServes
  <2>1. /\ ~Comes /\ Elems(calls) = {} /\ calls = <<>> /\ modem = "up"
        /\ \A k, s : ~Underway(k, s)
    BY AtRest DEF Idle
  <2>2. Up
    BY <2>1 DEF Up
  <2>3. Len(calls) = 0 /\ \A E, c : ~LastOf(calls, E, c)
    BY <2>1 DEF LastOf
  <2>4. (\A o : Final(o) => o = engine) /\ \A s : Watches(s) => s \in engineDistance
    BY <2>3 DEF Final, Watches
  <2>5. TimeBased # {} => serves(engine)
    BY <2>2, <2>4 DEF IInv, Served
  <2>6. \A s \in TimeBased : engine # None /\ engine.interval <= interval(s)
    BY <2>5, TrackingAssumption DEF serves
  <2>7. DistanceBased \ hasty \subseteq engineDistance
    BY <2>1, <2>2, <2>4 DEF IInv, Watched
  <2>8. hasty = {} /\ TimeBased = {} => engine = None
    BY <2>4 DEF IInv, Rests
  <2>. QED
    BY <2>6, <2>7, <2>8
<1>. QED
  BY <1>1, Invariant, PTL

\* Every command of a client that stays is answered exactly once, unless a call
\* of its session failed, and the answer to a patient client is true of the maps.
THEOREM CommandsAreAnswered == Spec => []CommandsAnswered
<1>1. IInv => CommandsAnswered
  <2>. SUFFICES ASSUME IInv  PROVE CommandsAnswered
    OBVIOUS
  <2>1. ASSUME NEW s \in Session
        PROVE  /\ owed[s] \in Int /\ under(s) \in Nat /\ Counted(s) /\ Staged(s)
               /\ client[s] \in {"new", "on", "off", "leaving", "gone"}
    BY Under DEF IInv, Types
  <2>2. AnsweredOnce
    BY <2>1 DEF AnsweredOnce, Counted
  <2>3. AllAnswered
    BY <2>1, AtRest DEF AllAnswered, Counted
  <2>4. AnswersAreTrue
    <3>. SUFFICES ASSUME NEW s \in Session \ (hasty \cup failed), Answered(s)
         PROVE  /\ s \in TimeBased \cup DistanceBased <=> client[s] = "on"
                /\ s \notin TimeBased \cap DistanceBased
      BY DEF AnswersAreTrue
    <3>1. Settled(s) /\ client[s] \in {"on", "off"}
      BY <2>1 DEF Staged, Answered
    <3>. QED
      BY <3>1 DEF Settled, InOne, InNone
  <2>. QED
    BY <2>2, <2>3, <2>4 DEF CommandsAnswered
<1>. QED
  BY <1>1, Invariant, PTL

LEMMA NoneLeft == IInv => NoOrphans
<1>. SUFFICES ASSUME IInv, Idle, NEW s \in Session \ (hasty \cup failed), client[s] = "gone"
     PROVE  s \notin TimeBased \cup DistanceBased
  BY DEF NoOrphans
<1>1. Staged(s) /\ ~Underway("clientStopped", s)
  BY AtRest DEF IInv
<1>. QED
  BY <1>1 DEF Staged

\* A patient client that was removed leaves no session behind once its calls
\* are executed: the maps hold nothing that nobody can stop.
THEOREM NothingIsOrphaned == Spec => []NoOrphans
BY Invariant, NoneLeft, PTL
-----------------------------------------------------------------------------
(* The callbacks of the framework.                                         *)

\* What is left of a registration, of the version and of the slot that is cleared second,
\* or of requestCapabilities(); and of nothing.
Clear7(a, b) == <<a, b, "forget", "remember", "api", "update", "request">>
Clear6(b) == <<b, "forget", "remember", "api", "update", "request">>
Forget5 == <<"forget", "remember", "api", "update", "request">>
Remember4 == <<"remember", "api", "update", "request">>
Api3 == <<"api", "update", "request">>
Update2 == <<"update", "request">>
Request1 == <<"request">>
Write2 == <<"write", "tell">>
Tell1 == <<"tell">>
Done0 == <<>>
first(v) == H!clears(v)[1]
second(v) == H!clears(v)[2]
Uncleared(v) == {Clear7(first(v), second(v)), Clear6(second(v))}
Unforgotten(v) == Uncleared(v) \cup {Forget5}
Apiless(v) == Uncleared(v) \cup {Forget5, Remember4, Api3}
Unset(v) == Apiless(v) \cup {Update2}
Registered == {Request1, Write2, Tell1, Done0}
Known(v) == Registered \cup {Api3, Update2}
Requested == {Write2, Tell1}
Leftover(v) == Unset(v) \cup Registered

Heard(mask) == [data |-> H!dataOf(mask), year |-> H!yearOfHw(mask)]
Kinds == {"caps", "position", "svs", "nmea", "status"}
HalTask ==
  {H!idle} \cup [at : {"copy"}, kind : Kinds, mask : Masks \cup {None}]
  \cup [at : {"tell"}, kind : Kinds, mask : Masks \cup {None}, to : Nat, charge : Nat, wanted : BOOLEAN]
  \cup [at : {"use"}, v : Versions]
carries == task.at \in {"copy", "tell"} /\ task.kind = "caps"

HalTypes ==
  /\ version \in Seq(Versions) /\ Len(version) <= MaxRegistrations
  /\ user \in [H!Slot -> Nat] /\ mGnssCbIface \in [Versions -> Nat]
  /\ DOMAIN heard = 1 .. MaxRegistrations
  /\ task \in HalTask /\ reported \in Masks \cup {None}
  /\ stale \in Masks \cup {None} /\ (mLocationCapabilitiesCached => mLocationCapabilitiesMask \in Masks)
  /\ wants \in BOOLEAN /\ odcpi \in BOOLEAN
\* Nobody has registered yet.
Unregistered ==
  version = <<>> =>
    call = Done0 /\ ~mApi /\ \A v \in Versions : mGnssCbIface[v] = 0
NoClient == ~mApi => \A s \in H!Slot : user[s] = 0
\* For registration l, of version m: the callbacks that are set, and those still to be cleared.
Going(m) == call \in Leftover(m) /\ (mApi \/ call \in Apiless(m))
OthersCleared(m) ==
  \A s \in H!Slot : s # H!slotOf(m) /\ user[s] # 0 =>
    call \in Uncleared(m) /\ (call = Clear6(second(m)) => s = second(m))
OthersForgotten(m) ==
  \A v \in Versions : v # m /\ mGnssCbIface[v] # 0 => call \in Unforgotten(m)
CallbackSet(m, l) == call \in Registered => user[H!slotOf(m)] = l
Remembered(m, l) ==
  call \in Known(m) => mGnssCbIface[m] = l /\ (m # "1.0" => odcpi)
Callbacks(m, l) ==
  Going(m) /\ OthersCleared(m) /\ OthersForgotten(m) /\ CallbackSet(m, l) /\ Remembered(m, l)
\* Both threads write the capabilities; those of the engine are lost only by a crossing.
Written ==
  /\ mLocationCapabilitiesCached <=> reported # None
  /\ ~crossed /\ reported # None => mLocationCapabilitiesMask = reported
  /\ call \in Requested <=> stale # None
  /\ ~crossed /\ stale # None => stale = reported
  /\ carries => task.mask = reported
\* It has heard the capabilities, or they are on their way to it.
Hears(l) ==
  call = Done0 /\ reported # None /\ ~crossed =>
    \/ heard[l] = Heard(reported)
    \/ task.at = "copy" /\ task.kind = "caps"
    \/ task.at = "tell" /\ task.kind = "caps" /\ task.to = l
HalInv ==
  /\ HalTypes /\ Unregistered /\ NoClient /\ Written
  /\ version # <<>> => Callbacks(H!mine, H!latest) /\ Hears(H!latest)
  /\ positioning = wants /\ H!InCharge

LEMMA Leftovers ==
  ASSUME NEW v \in Versions
  PROVE  /\ first(v) # second(v) /\ H!Slot = {H!slotOf(v), first(v), second(v)}
         /\ {first(v), second(v)} \subseteq {"1.0", "2.0", "2.1"}
         /\ H!slotOf(v) \notin {first(v), second(v)}
  BY DEF first, second, H!clears, H!slotOf, H!Slot, Versions

\* What the next step of a call is, and what it leaves.
LEMMA NextStep ==
  ASSUME NEW v \in Versions, NEW p \in Leftover(v), p # Done0
  PROVE  \/ p = Clear7(first(v), second(v)) /\ Head(p) = first(v) /\ Tail(p) = Clear6(second(v))
         \/ p = Clear6(second(v)) /\ Head(p) = second(v) /\ Tail(p) = Forget5
         \/ p = Forget5 /\ Head(p) = "forget" /\ Tail(p) = Remember4
         \/ p = Remember4 /\ Head(p) = "remember" /\ Tail(p) = Api3
         \/ p = Api3 /\ Head(p) = "api" /\ Tail(p) = Update2
         \/ p = Update2 /\ Head(p) = "update" /\ Tail(p) = Request1
         \/ p = Request1 /\ Head(p) = "request" /\ Tail(p) = Done0
         \/ p = Write2 /\ Head(p) = "write" /\ Tail(p) = Tell1
         \/ p = Tell1 /\ Head(p) = "tell" /\ Tail(p) = Done0
<1>1. ASSUME NEW a, NEW b
      PROVE  /\ Head(Clear7(a, b)) = a /\ Tail(Clear7(a, b)) = Clear6(b)
             /\ Head(Clear6(b)) = b /\ Tail(Clear6(b)) = Forget5
  BY DEF Clear7, Clear6, Forget5
<1>2. CASE p = Clear7(first(v), second(v))
  BY ONLY <1>1, <1>2
<1>3. CASE p = Clear6(second(v))
  BY ONLY <1>1, <1>3
<1>5. /\ Head(Forget5) = "forget" /\ Tail(Forget5) = Remember4
      /\ Head(Remember4) = "remember" /\ Tail(Remember4) = Api3
      /\ Head(Api3) = "api" /\ Tail(Api3) = Update2
  BY DEF Forget5, Remember4, Api3, Update2
<1>6. /\ Head(Update2) = "update" /\ Tail(Update2) = Request1
      /\ Head(Request1) = "request" /\ Tail(Request1) = Done0
      /\ Head(Write2) = "write" /\ Tail(Write2) = Tell1
      /\ Head(Tell1) = "tell" /\ Tail(Tell1) = Done0
  BY DEF Update2, Request1, Write2, Tell1, Done0
<1>7. \/ p = Clear7(first(v), second(v)) \/ p = Clear6(second(v))
      \/ p = Forget5 \/ p = Remember4 \/ p = Api3 \/ p = Update2
      \/ p = Request1 \/ p = Write2 \/ p = Tell1
  BY DEF Leftover, Unset, Apiless, Registered, Uncleared
<1>. QED
  BY ONLY <1>2, <1>3, <1>5, <1>6, <1>7

\* Which calls are how far; none of them is as far as another.
LEMMA Calls ==
  ASSUME NEW m \in Versions
  PROVE  /\ Clear7(first(m), second(m)) # Clear6(second(m))
         /\ \A p \in {Clear7(first(m), second(m)), Clear6(second(m))} :
              /\ p \in Uncleared(m) \cap Unforgotten(m) \cap Apiless(m) \cap Leftover(m)
              /\ p \notin Registered \cup Known(m) \cup Requested /\ p # Done0
         /\ Forget5 \in Unforgotten(m) \cap Apiless(m) \cap Leftover(m)
         /\ Forget5 \notin Uncleared(m) \cup Registered \cup Known(m) \cup Requested /\ Forget5 # Done0
         /\ Remember4 \in Apiless(m) \cap Leftover(m)
         /\ Remember4 \notin Unforgotten(m) \cup Uncleared(m) \cup Registered \cup Known(m) \cup Requested
         /\ Remember4 # Done0
         /\ Api3 \in Apiless(m) /\ Update2 \notin Apiless(m)
         /\ \A p \in {Api3, Update2} :
              /\ p \in Leftover(m) \cap Known(m)
              /\ p \notin Unforgotten(m) \cup Uncleared(m) \cup Registered \cup Requested /\ p # Done0
         /\ \A p \in {Request1, Write2, Tell1, Done0} :
              /\ p \in Registered \cap Known(m) \cap Leftover(m)
              /\ p \notin Unforgotten(m) \cup Uncleared(m) \cup Apiless(m)
         /\ Write2 \in Requested /\ Tell1 \in Requested
         /\ Request1 \notin Requested /\ Done0 \notin Requested
         /\ Write2 # Done0 /\ Tell1 # Done0 /\ Request1 # Done0
<1>2. \A p : /\ p \in Uncleared(m) <=> p = Clear7(first(m), second(m)) \/ p = Clear6(second(m))
             /\ p \in Registered <=> p = Request1 \/ p = Write2 \/ p = Tell1 \/ p = Done0
             /\ p \in Requested <=> p = Write2 \/ p = Tell1
  BY DEF Uncleared, Registered, Requested
<1>3. \A p : /\ p \in Unforgotten(m) <=> p \in Uncleared(m) \/ p = Forget5
             /\ p \in Apiless(m) <=> p \in Unforgotten(m) \/ p = Remember4 \/ p = Api3
             /\ p \in Known(m) <=> p \in Registered \/ p = Api3 \/ p = Update2
             /\ p \in Leftover(m) <=> p \in Apiless(m) \/ p \in Known(m)
  BY DEF Unforgotten, Apiless, Known, Leftover, Unset
<1>20. \A p \in {Clear6(second(m)), Forget5, Remember4, Api3, Update2, Request1, Write2, Tell1, Done0} : Clear7(first(m), second(m)) # p
  BY DEF Clear7, Clear6, Forget5, Remember4, Api3, Update2, Request1, Write2, Tell1, Done0
<1>21. \A p \in {Forget5, Remember4, Api3, Update2, Request1, Write2, Tell1, Done0} : Clear6(second(m)) # p
  BY DEF Clear7, Clear6, Forget5, Remember4, Api3, Update2, Request1, Write2, Tell1, Done0
<1>22. \A p \in {Remember4, Api3, Update2, Request1, Write2, Tell1, Done0} : Forget5 # p
  BY DEF Clear7, Clear6, Forget5, Remember4, Api3, Update2, Request1, Write2, Tell1, Done0
<1>23. \A p \in {Api3, Update2, Request1, Write2, Tell1, Done0} : Remember4 # p
  BY DEF Clear7, Clear6, Forget5, Remember4, Api3, Update2, Request1, Write2, Tell1, Done0
<1>24. \A p \in {Update2, Request1, Write2, Tell1, Done0} : Api3 # p
  BY DEF Clear7, Clear6, Forget5, Remember4, Api3, Update2, Request1, Write2, Tell1, Done0
<1>25. \A p \in {Request1, Write2, Tell1, Done0} : Update2 # p
  BY DEF Clear7, Clear6, Forget5, Remember4, Api3, Update2, Request1, Write2, Tell1, Done0
<1>26. \A p \in {Write2, Tell1, Done0} : Request1 # p
  BY DEF Clear7, Clear6, Forget5, Remember4, Api3, Update2, Request1, Write2, Tell1, Done0
<1>27. \A p \in {Tell1, Done0} : Write2 # p
  BY DEF Clear7, Clear6, Forget5, Remember4, Api3, Update2, Request1, Write2, Tell1, Done0
<1>28. \A p \in {Done0} : Tell1 # p
  BY DEF Clear7, Clear6, Forget5, Remember4, Api3, Update2, Request1, Write2, Tell1, Done0
<1>15. /\ \A p \in {Clear6(second(m)), Forget5, Remember4, Api3, Update2, Request1, Write2, Tell1, Done0} : Clear7(first(m), second(m)) # p
       /\ \A p \in {Forget5, Remember4, Api3, Update2, Request1, Write2, Tell1, Done0} : Clear6(second(m)) # p
       /\ \A p \in {Remember4, Api3, Update2, Request1, Write2, Tell1, Done0} : Forget5 # p
       /\ \A p \in {Api3, Update2, Request1, Write2, Tell1, Done0} : Remember4 # p
       /\ \A p \in {Update2, Request1, Write2, Tell1, Done0} : Api3 # p
       /\ \A p \in {Request1, Write2, Tell1, Done0} : Update2 # p
       /\ \A p \in {Write2, Tell1, Done0} : Request1 # p
       /\ \A p \in {Tell1, Done0} : Write2 # p
       /\ \A p \in {Done0} : Tell1 # p
  BY ONLY <1>20, <1>21, <1>22, <1>23, <1>24, <1>25, <1>26, <1>27, <1>28
<1>4. /\ Clear7(first(m), second(m)) \in Uncleared(m) \cap Unforgotten(m) \cap Apiless(m) \cap Leftover(m)
      /\ Clear7(first(m), second(m)) \notin Registered \cup Known(m) \cup Requested
  BY ONLY <1>2, <1>3, <1>15
<1>5. /\ Clear6(second(m)) \in Uncleared(m) \cap Unforgotten(m) \cap Apiless(m) \cap Leftover(m)
      /\ Clear6(second(m)) \notin Registered \cup Known(m) \cup Requested
  BY ONLY <1>2, <1>3, <1>15
<1>6. /\ Forget5 \in Unforgotten(m) \cap Apiless(m) \cap Leftover(m)
      /\ Forget5 \notin Uncleared(m) \cup Registered \cup Known(m) \cup Requested
  BY ONLY <1>2, <1>3, <1>15
<1>7. /\ Remember4 \in Apiless(m) \cap Leftover(m)
      /\ Remember4 \notin Unforgotten(m) \cup Uncleared(m) \cup Registered \cup Known(m) \cup Requested
  BY ONLY <1>2, <1>3, <1>15
<1>8. /\ Api3 \in Apiless(m) \cap Leftover(m) \cap Known(m)
      /\ Api3 \notin Unforgotten(m) \cup Uncleared(m) \cup Registered \cup Requested
  BY ONLY <1>2, <1>3, <1>15
<1>9. /\ Update2 \in Leftover(m) \cap Known(m)
      /\ Update2 \notin Apiless(m) \cup Unforgotten(m) \cup Uncleared(m) \cup Registered \cup Requested
  BY ONLY <1>2, <1>3, <1>15
<1>10. /\ Request1 \in Leftover(m) \cap Known(m) \cap Registered
      /\ Request1 \notin Apiless(m) \cup Unforgotten(m) \cup Uncleared(m) \cup Requested
  BY ONLY <1>2, <1>3, <1>15
<1>11. /\ Write2 \in Leftover(m) \cap Known(m) \cap Registered \cap Requested
      /\ Write2 \notin Apiless(m) \cup Unforgotten(m) \cup Uncleared(m)
  BY ONLY <1>2, <1>3, <1>15
<1>12. /\ Tell1 \in Leftover(m) \cap Known(m) \cap Registered \cap Requested
      /\ Tell1 \notin Apiless(m) \cup Unforgotten(m) \cup Uncleared(m)
  BY ONLY <1>2, <1>3, <1>15
<1>13. /\ Done0 \in Leftover(m) \cap Known(m) \cap Registered
      /\ Done0 \notin Apiless(m) \cup Unforgotten(m) \cup Uncleared(m) \cup Requested
  BY ONLY <1>2, <1>3, <1>15
<1>. QED
  BY ONLY <1>4, <1>5, <1>6, <1>7, <1>8, <1>9, <1>10, <1>11, <1>12, <1>13, <1>15

\* The last registration, and its version.
LastOne(m, l) == version # <<>> /\ m = H!mine /\ l = H!latest

LEMMA Mine ==
  ASSUME HalInv, NEW m, NEW l, LastOne(m, l)
  PROVE  /\ m \in Versions /\ l \in Nat \ {0} /\ l <= MaxRegistrations
         /\ H!slotOf(m) \in H!Slot
         /\ Callbacks(m, l) /\ Hears(l)
<1>1. version \in Seq(Versions) /\ Len(version) <= MaxRegistrations /\ Len(version) \in Nat \ {0}
  BY DEF HalInv, HalTypes, LastOne
<1>2. version[Len(version)] \in Versions
  BY <1>1
<1>. QED
  BY <1>1, <1>2, Leftovers DEF HalInv, H!mine, H!latest, LastOne

LEMMA Stepping ==
  ASSUME HalInv, NEW s, H!step(s)
  PROVE  version # <<>> /\ call # Done0 /\ Head(call) = s
<1>1. call # Done0 /\ Head(call) = s
  BY DEF H!step, Done0
<1>. QED
  BY <1>1 DEF HalInv, Unregistered

\* A step that leaves the registration the last one.
LEMMA LastStays ==
  ASSUME NEW m, NEW l, LastOne(m, l), UNCHANGED version,
         HalTypes', NoClient', Written', Callbacks(m, l)', Hears(l)', (positioning = wants)', H!InCharge'
  PROVE  HalInv'
  BY DEF LastOne, HalInv, Unregistered, H!mine, H!latest

LEMMA HalForget ==
  ASSUME HalInv, H!forget
  PROVE  HalInv'
<1>1. /\ version # <<>> /\ call # Done0 /\ Head(call) = "forget"
      /\ version' = version /\ call' = Tail(call)
  BY Stepping DEF H!forget, H!done
<1>2. PICK m, l : LastOne(m, l)
  BY <1>1 DEF LastOne
<1>3. /\ m \in Versions /\ l \in Nat \ {0} /\ l <= MaxRegistrations /\ H!slotOf(m) \in H!Slot
      /\ Going(m) /\ OthersCleared(m) /\ OthersForgotten(m) /\ CallbackSet(m, l) /\ Remembered(m, l)
      /\ Hears(l) /\ HalTypes /\ NoClient /\ m = H!mine /\ l = H!latest
  BY <1>2, Mine DEF HalInv, Callbacks, LastOne
<1>4. call = Forget5 /\ call' = Remember4
  BY ONLY <1>1, <1>3, NextStep, Leftovers DEF Going
<1>5. HalTypes'
  BY <1>1, <1>3 DEF HalTypes, H!forget, H!clientVars
<1>6. Going(m)'
  BY <1>3, <1>4, Calls DEF Going, H!forget, H!clientVars
<1>7. OthersCleared(m)'
  BY <1>3, <1>4, Calls DEF OthersCleared, H!forget, H!clientVars, HalTypes
<1>8. OthersForgotten(m)'
  BY <1>3, <1>4, Calls DEF OthersForgotten, H!forget, H!clientVars, HalTypes
<1>9. CallbackSet(m, l)'
  BY <1>3, <1>4, Calls DEF CallbackSet, H!forget, H!clientVars, HalTypes
<1>10. Remembered(m, l)'
  BY <1>3, <1>4, Calls DEF Remembered, H!forget, H!clientVars, HalTypes
<1>11. Written'
  BY <1>3, <1>4, Calls DEF HalInv, Written, carries, H!forget, H!clientVars
<1>12. Hears(l)'
  BY <1>3, <1>4, Calls DEF Hears, H!forget, H!clientVars
<1>13. (positioning = wants /\ H!InCharge)'
  BY DEF HalInv, H!InCharge, H!forget, H!clientVars
<1>14. NoClient'
  BY <1>3, <1>4, Calls DEF NoClient, Going, H!forget, H!clientVars, HalTypes
<1>. QED
  BY <1>1, <1>2, <1>14, <1>5, <1>6, <1>7, <1>8, <1>9, <1>10, <1>11, <1>12, <1>13, LastStays DEF Callbacks

LEMMA HalRemember ==
  ASSUME HalInv, H!remember
  PROVE  HalInv'
<1>1. /\ version # <<>> /\ call # Done0 /\ Head(call) = "remember"
      /\ version' = version /\ call' = Tail(call)
  BY Stepping DEF H!remember, H!done
<1>2. PICK m, l : LastOne(m, l)
  BY <1>1 DEF LastOne
<1>3. /\ m \in Versions /\ l \in Nat \ {0} /\ l <= MaxRegistrations /\ H!slotOf(m) \in H!Slot
      /\ Going(m) /\ OthersCleared(m) /\ OthersForgotten(m) /\ CallbackSet(m, l) /\ Remembered(m, l)
      /\ Hears(l) /\ HalTypes /\ NoClient /\ m = H!mine /\ l = H!latest
  BY <1>2, Mine DEF HalInv, Callbacks, LastOne
<1>4. call = Remember4 /\ call' = Api3
  BY ONLY <1>1, <1>3, NextStep, Leftovers DEF Going
<1>5. HalTypes'
  BY <1>1, <1>3 DEF HalTypes, H!remember, H!clientVars
<1>6. Going(m)'
  BY <1>3, <1>4, Calls DEF Going, H!remember, H!clientVars
<1>7. OthersCleared(m)'
  BY <1>3, <1>4, Calls DEF OthersCleared, H!remember, H!clientVars, HalTypes
<1>8. OthersForgotten(m)'
  BY <1>3, <1>4, Calls DEF OthersForgotten, H!remember, H!clientVars, HalTypes
<1>9. CallbackSet(m, l)'
  BY <1>3, <1>4, Calls DEF CallbackSet, H!remember, H!clientVars, HalTypes
<1>10. Remembered(m, l)'
  BY <1>3, <1>4, Calls DEF Remembered, H!remember, H!clientVars, HalTypes
<1>11. Written'
  BY <1>3, <1>4, Calls DEF HalInv, Written, carries, H!remember, H!clientVars
<1>12. Hears(l)'
  BY <1>3, <1>4, Calls DEF Hears, H!remember, H!clientVars
<1>13. (positioning = wants /\ H!InCharge)'
  BY DEF HalInv, H!InCharge, H!remember, H!clientVars
<1>14. NoClient'
  BY <1>3, <1>4, Calls DEF NoClient, Going, H!remember, H!clientVars, HalTypes
<1>. QED
  BY <1>1, <1>2, <1>14, <1>5, <1>6, <1>7, <1>8, <1>9, <1>10, <1>11, <1>12, <1>13, LastStays DEF Callbacks

LEMMA HalGetApi ==
  ASSUME HalInv, H!getApi
  PROVE  HalInv'
<1>1. /\ version # <<>> /\ call # Done0 /\ Head(call) = "api"
      /\ version' = version /\ call' = Tail(call)
  BY Stepping DEF H!getApi, H!done
<1>2. PICK m, l : LastOne(m, l)
  BY <1>1 DEF LastOne
<1>3. /\ m \in Versions /\ l \in Nat \ {0} /\ l <= MaxRegistrations /\ H!slotOf(m) \in H!Slot
      /\ Going(m) /\ OthersCleared(m) /\ OthersForgotten(m) /\ CallbackSet(m, l) /\ Remembered(m, l)
      /\ Hears(l) /\ HalTypes /\ NoClient /\ m = H!mine /\ l = H!latest
  BY <1>2, Mine DEF HalInv, Callbacks, LastOne
<1>4. call = Api3 /\ call' = Update2
  BY ONLY <1>1, <1>3, NextStep, Leftovers DEF Going
<1>5. HalTypes'
  BY <1>1, <1>3 DEF HalTypes, H!getApi, H!clientVars
<1>6. Going(m)'
  BY <1>3, <1>4, Calls DEF Going, H!getApi, H!clientVars
<1>7. OthersCleared(m)'
  BY <1>3, <1>4, Calls DEF OthersCleared, H!getApi, H!clientVars, HalTypes
<1>8. OthersForgotten(m)'
  BY <1>3, <1>4, Calls DEF OthersForgotten, H!getApi, H!clientVars, HalTypes
<1>9. CallbackSet(m, l)'
  BY <1>3, <1>4, Calls DEF CallbackSet, H!getApi, H!clientVars, HalTypes
<1>10. Remembered(m, l)'
  BY <1>3, <1>4, Calls DEF Remembered, H!getApi, H!clientVars, HalTypes
<1>11. Written'
  BY <1>3, <1>4, Calls DEF HalInv, Written, carries, H!getApi, H!clientVars
<1>12. Hears(l)'
  BY <1>3, <1>4, Calls DEF Hears, H!getApi, H!clientVars
<1>13. (positioning = wants /\ H!InCharge)'
  BY DEF HalInv, H!InCharge, H!getApi, H!clientVars
<1>14. NoClient'
  BY <1>3, <1>4, Calls DEF NoClient, Going, H!getApi, H!clientVars, HalTypes
<1>. QED
  BY <1>1, <1>2, <1>14, <1>5, <1>6, <1>7, <1>8, <1>9, <1>10, <1>11, <1>12, <1>13, LastStays DEF Callbacks

LEMMA HalUpdate ==
  ASSUME HalInv, H!gnssUpdateCallbacks
  PROVE  HalInv'
<1>1. /\ version # <<>> /\ call # Done0 /\ Head(call) = "update"
      /\ version' = version /\ call' = Tail(call)
  BY Stepping DEF H!gnssUpdateCallbacks, H!done
<1>2. PICK m, l : LastOne(m, l)
  BY <1>1 DEF LastOne
<1>3. /\ m \in Versions /\ l \in Nat \ {0} /\ l <= MaxRegistrations /\ H!slotOf(m) \in H!Slot
      /\ Going(m) /\ OthersCleared(m) /\ OthersForgotten(m) /\ CallbackSet(m, l) /\ Remembered(m, l)
      /\ Hears(l) /\ HalTypes /\ NoClient /\ m = H!mine /\ l = H!latest
  BY <1>2, Mine DEF HalInv, Callbacks, LastOne
<1>4. call = Update2 /\ call' = Request1
  BY ONLY <1>1, <1>3, NextStep, Leftovers DEF Going
<1>5. HalTypes'
  BY <1>1, <1>3 DEF HalTypes, H!gnssUpdateCallbacks, H!clientVars
<1>6. Going(m)'
  BY <1>3, <1>4, Calls DEF Going, H!gnssUpdateCallbacks, H!clientVars
<1>7. OthersCleared(m)'
  BY <1>3, <1>4, Calls DEF OthersCleared, H!gnssUpdateCallbacks, H!clientVars, HalTypes
<1>8. OthersForgotten(m)'
  BY <1>3, <1>4, Calls DEF OthersForgotten, H!gnssUpdateCallbacks, H!clientVars, HalTypes
<1>9. CallbackSet(m, l)'
  BY <1>3, <1>4, Calls DEF CallbackSet, H!gnssUpdateCallbacks, H!clientVars, HalTypes
<1>10. Remembered(m, l)'
  BY <1>3, <1>4, Calls DEF Remembered, H!gnssUpdateCallbacks, H!clientVars, HalTypes
<1>11. Written'
  BY <1>3, <1>4, Calls DEF HalInv, Written, carries, H!gnssUpdateCallbacks, H!clientVars
<1>12. Hears(l)'
  BY <1>3, <1>4, Calls DEF Hears, H!gnssUpdateCallbacks, H!clientVars
<1>13. (positioning = wants /\ H!InCharge)'
  BY DEF HalInv, H!InCharge, H!gnssUpdateCallbacks, H!clientVars
<1>14. NoClient'
  BY <1>3, <1>4, Calls DEF NoClient, Going, H!gnssUpdateCallbacks, H!clientVars, HalTypes
<1>. QED
  BY <1>1, <1>2, <1>14, <1>5, <1>6, <1>7, <1>8, <1>9, <1>10, <1>11, <1>12, <1>13, LastStays DEF Callbacks

LEMMA HalClear ==
  ASSUME HalInv, NEW s \in {"1.0", "2.0", "2.1"}, H!clear(s)
  PROVE  HalInv'
<1>1. /\ version # <<>> /\ call # Done0 /\ Head(call) = s
      /\ version' = version /\ call' = Tail(call)
  BY Stepping DEF H!clear, H!done
<1>2. PICK m, l : LastOne(m, l)
  BY <1>1 DEF LastOne
<1>3. /\ m \in Versions /\ l \in Nat \ {0} /\ l <= MaxRegistrations /\ H!slotOf(m) \in H!Slot
      /\ Going(m) /\ OthersCleared(m) /\ OthersForgotten(m) /\ CallbackSet(m, l) /\ Remembered(m, l)
      /\ Hears(l) /\ HalTypes /\ NoClient /\ m = H!mine /\ l = H!latest
  BY <1>2, Mine DEF HalInv, Callbacks, LastOne
<1>4. \/ call = Clear7(first(m), second(m)) /\ s = first(m) /\ call' = Clear6(second(m))
      \/ call = Clear6(second(m)) /\ s = second(m) /\ call' = Forget5
  BY ONLY <1>1, <1>3, NextStep, Leftovers, s \in {"1.0", "2.0", "2.1"} DEF Going
<1>5. /\ s \in H!Slot /\ H!Slot = {H!slotOf(m), first(m), second(m)} /\ first(m) # second(m)
      /\ user' = [user EXCEPT ![s] = IF mApi THEN 0 ELSE @] /\ user'[s] = 0
  BY <1>3, <1>4, Leftovers DEF H!clear, HalTypes, NoClient
<1>6. HalTypes'
  BY <1>1, <1>3, <1>5 DEF HalTypes, H!clear
<1>7. Going(m)'
  BY <1>3, <1>4, Calls DEF Going, H!clear
<1>8. OthersCleared(m)'
  BY <1>3, <1>4, <1>5, Calls DEF OthersCleared, HalTypes
<1>9. OthersForgotten(m)' /\ CallbackSet(m, l)' /\ Remembered(m, l)'
  BY <1>3, <1>4, Calls DEF OthersForgotten, CallbackSet, Remembered, H!clear
<1>10. Written' /\ Hears(l)'
  BY <1>3, <1>4, Calls DEF HalInv, Written, carries, Hears, H!clear
<1>11. (positioning = wants /\ H!InCharge)'
  BY DEF HalInv, H!InCharge, H!clear
<1>12. NoClient'
  BY <1>3, <1>5 DEF NoClient, H!clear, HalTypes
<1>. QED
  BY <1>1, <1>2, <1>6, <1>7, <1>8, <1>9, <1>10, <1>11, <1>12, LastStays DEF Callbacks

LEMMA HalSetCallback ==
  ASSUME HalInv, NEW v \in Versions, H!setCallback(v)
  PROVE  HalInv'
<1>1. version \in Seq(Versions) /\ Len(version) \in Nat /\ call = Done0
  BY DEF HalInv, HalTypes, H!setCallback, Done0
<1>2. /\ version' \in Seq(Versions) /\ Len(version') = Len(version) + 1 /\ version' # <<>>
      /\ version'[Len(version')] = v /\ Len(version') <= MaxRegistrations
  BY <1>1, MasksAssumption, AppendProperties DEF H!setCallback, H!latest
<1>3. PICK l : l = Len(version')
  OBVIOUS
<1>4. H!mine' = v /\ H!latest' = l /\ (version # <<>>)'
  BY <1>2, <1>3 DEF H!mine, H!latest
<1>5. call' = Clear7(first(v), second(v))
  BY DEF H!setCallback, Clear7, first, second
<1>6. HalTypes'
  BY <1>2 DEF HalInv, HalTypes, H!setCallback, H!clientVars
<1>7. NoClient' /\ Unregistered'
  BY <1>4 DEF HalInv, NoClient, Unregistered, H!setCallback, H!clientVars
<1>8. Going(v)' /\ OthersForgotten(v)' /\ CallbackSet(v, l)' /\ Remembered(v, l)'
  BY <1>5, Calls DEF Going, OthersForgotten, CallbackSet, Remembered
<1>9. OthersCleared(v)'
  BY <1>5, Calls DEF OthersCleared
<1>10. Written' /\ Hears(l)'
  BY <1>1, <1>5, Calls DEF HalInv, Written, carries, Hears, H!setCallback, H!clientVars
<1>11. (positioning = wants /\ H!InCharge)'
  BY DEF HalInv, H!InCharge, H!setCallback, H!clientVars
<1>. QED
  BY <1>4, <1>6, <1>7, <1>8, <1>9, <1>10, <1>11 DEF HalInv, Callbacks

LEMMA HalRequest ==
  ASSUME HalInv, H!requestCapabilities
  PROVE  HalInv'
<1>1. /\ version # <<>> /\ call # Done0 /\ Head(call) = "request" /\ version' = version
  BY Stepping DEF H!requestCapabilities
<1>2. PICK m, l : LastOne(m, l)
  BY <1>1 DEF LastOne
<1>3. /\ m \in Versions /\ l \in Nat \ {0} /\ l <= MaxRegistrations /\ H!slotOf(m) \in H!Slot
      /\ Going(m) /\ OthersCleared(m) /\ OthersForgotten(m) /\ CallbackSet(m, l) /\ Remembered(m, l)
      /\ Hears(l) /\ HalTypes /\ NoClient /\ m = H!mine /\ l = H!latest
  BY <1>2, Mine DEF HalInv, Callbacks, LastOne
<1>4. /\ call = Request1 /\ call' = IF mLocationCapabilitiesCached THEN Write2 ELSE Done0
  <2>1. call = Request1 /\ Tail(call) = Done0
    BY ONLY <1>1, <1>3, NextStep, Leftovers DEF Going
  <2>. QED
    BY <2>1 DEF H!requestCapabilities, H!done, Write2
<1>9. Written'
  BY <1>3, <1>4, Calls, MasksAssumption DEF HalInv, Written, carries, HalTypes, H!requestCapabilities, H!clientVars
<1>10. Hears(l)'
  BY <1>3, <1>4, Calls DEF HalInv, Written, Hears, H!requestCapabilities
<1>6. HalTypes' /\ NoClient'
  BY <1>1, <1>3, <1>4, Calls, MasksAssumption DEF HalInv, Written, HalTypes, NoClient, H!requestCapabilities, H!clientVars
<1>7. Going(m)' /\ OthersCleared(m)' /\ OthersForgotten(m)'
  BY <1>3, <1>4, Calls DEF Going, OthersCleared, OthersForgotten, H!requestCapabilities, H!clientVars
<1>8. CallbackSet(m, l)' /\ Remembered(m, l)'
  BY <1>3, <1>4, Calls DEF CallbackSet, Remembered, H!requestCapabilities, H!clientVars
<1>11. (positioning = wants /\ H!InCharge)'
  BY DEF HalInv, H!InCharge, H!requestCapabilities, H!clientVars
<1>. QED
  BY <1>1, <1>2, <1>6, <1>7, <1>8, <1>9, <1>10, <1>11, LastStays DEF Callbacks

LEMMA HalWrite ==
  ASSUME HalInv, H!requestedWrite
  PROVE  HalInv'
<1>1. /\ version # <<>> /\ call # Done0 /\ Head(call) = "write" /\ version' = version
  BY Stepping DEF H!requestedWrite
<1>2. PICK m, l : LastOne(m, l)
  BY <1>1 DEF LastOne
<1>3. /\ m \in Versions /\ l \in Nat \ {0} /\ l <= MaxRegistrations /\ H!slotOf(m) \in H!Slot
      /\ Going(m) /\ OthersCleared(m) /\ OthersForgotten(m) /\ CallbackSet(m, l) /\ Remembered(m, l)
      /\ Hears(l) /\ HalTypes /\ NoClient /\ m = H!mine /\ l = H!latest
  BY <1>2, Mine DEF HalInv, Callbacks, LastOne
<1>4. /\ call = Write2 /\ call' = Tell1
  <2>1. call = Write2 /\ Tail(call) = Tell1
    BY ONLY <1>1, <1>3, NextStep, Leftovers DEF Going
  <2>. QED
    BY <2>1 DEF H!requestedWrite, H!done
<1>9. Written'
  BY <1>3, <1>4, Calls DEF HalInv, Written, carries, H!requestedWrite
<1>10. Hears(l)'
  BY <1>3, <1>4, Calls DEF Hears, H!requestedWrite
<1>6. HalTypes' /\ NoClient'
  BY <1>1, <1>3, <1>4, Calls, MasksAssumption DEF HalInv, Written, HalTypes, NoClient, H!requestedWrite, H!clientVars
<1>7. Going(m)' /\ OthersCleared(m)' /\ OthersForgotten(m)'
  BY <1>3, <1>4, Calls DEF Going, OthersCleared, OthersForgotten, H!requestedWrite, H!clientVars
<1>8. CallbackSet(m, l)' /\ Remembered(m, l)'
  BY <1>3, <1>4, Calls DEF CallbackSet, Remembered, H!requestedWrite, H!clientVars
<1>11. (positioning = wants /\ H!InCharge)'
  BY DEF HalInv, H!InCharge, H!requestedWrite, H!clientVars
<1>. QED
  BY <1>1, <1>2, <1>6, <1>7, <1>8, <1>9, <1>10, <1>11, LastStays DEF Callbacks

\* What a callback of the client leads to.
LEMMA TargetIs ==
  ASSUME NEW m \in Versions, NEW l \in Nat \ {0}, OthersCleared(m), CallbackSet(m, l),
         call \in Registered
  PROVE  H!target(user) = l
<1>1. user[H!slotOf(m)] = l /\ \A s \in H!Slot : s # H!slotOf(m) => user[s] = 0
  BY Calls DEF OthersCleared, CallbackSet, Registered
<1>2. H!Slot = {"1.0", "2.0", "2.1"} /\ H!slotOf(m) \in H!Slot
  BY DEF H!Slot, H!slotOf, Versions
<1>. QED
  BY <1>1, <1>2 DEF H!target

LEMMA TargetType ==
  ASSUME HalTypes
  PROVE  H!target(user) \in Nat
<1>1. H!Slot = {"1.0", "2.0", "2.1"}
  BY DEF H!Slot, H!slotOf, Versions
<1>. QED
  BY <1>1 DEF HalTypes, H!target

\* Telling changes what is heard by the one that is told.
LEMMA ToldOne ==
  ASSUME HalTypes, NEW to, NEW mask
  PROVE  /\ DOMAIN H!hear(to, mask) = 1 .. MaxRegistrations
         /\ \A r \in 1 .. MaxRegistrations :
              H!hear(to, mask)[r] = IF r = to /\ to # 0 THEN Heard(mask) ELSE heard[r]
  BY DEF HalTypes, H!hear, Heard

LEMMA HalTell ==
  ASSUME HalInv, H!requestedTell
  PROVE  HalInv'
<1>1. /\ version # <<>> /\ call # Done0 /\ Head(call) = "tell" /\ version' = version
  BY Stepping DEF H!requestedTell
<1>2. PICK m, l : LastOne(m, l)
  BY <1>1 DEF LastOne
<1>3. /\ m \in Versions /\ l \in Nat \ {0} /\ l <= MaxRegistrations /\ H!slotOf(m) \in H!Slot
      /\ Going(m) /\ OthersCleared(m) /\ OthersForgotten(m) /\ CallbackSet(m, l) /\ Remembered(m, l)
      /\ Hears(l) /\ HalTypes /\ NoClient /\ m = H!mine /\ l = H!latest
  BY <1>2, Mine DEF HalInv, Callbacks, LastOne
<1>4. /\ call = Tell1 /\ call' = Done0
  <2>1. call = Tell1 /\ Tail(call) = Done0
    BY ONLY <1>1, <1>3, NextStep, Leftovers DEF Going
  <2>. QED
    BY <2>1 DEF H!requestedTell, H!done
<1>5. heard' = H!hear(l, stale) /\ l \in 1 .. MaxRegistrations /\ l # 0
  BY <1>3, <1>4, TargetIs, Calls, MasksAssumption DEF H!requestedTell
<1>9. Written'
  BY <1>3, <1>4, Calls DEF HalInv, Written, carries, H!requestedTell, H!clientVars
<1>10. Hears(l)'
  <2>1. heard'[l] = Heard(stale)
    <3>1. HalTypes /\ l \in 1 .. MaxRegistrations /\ l # 0 /\ heard' = H!hear(l, stale)
      BY <1>3, <1>5
    <3>2. H!hear(l, stale)[l] = Heard(stale)
      BY ONLY <3>1 DEF H!hear, Heard, HalTypes
    <3>. QED
      BY <3>1, <3>2
  <2>2. ~crossed => stale = reported
    BY <1>3, <1>4, Calls DEF HalInv, Written
  <2>. QED
    BY <2>1, <2>2 DEF Hears, H!requestedTell
<1>6. HalTypes' /\ NoClient'
  BY <1>1, <1>3, <1>4, <1>5, Calls, ToldOne DEF HalInv, Written, HalTypes, NoClient, H!requestedTell, H!clientVars
<1>7. Going(m)' /\ OthersCleared(m)' /\ OthersForgotten(m)'
  BY <1>3, <1>4, Calls DEF Going, OthersCleared, OthersForgotten, H!requestedTell, H!clientVars
<1>8. CallbackSet(m, l)' /\ Remembered(m, l)'
  BY <1>3, <1>4, Calls DEF CallbackSet, Remembered, H!requestedTell, H!clientVars
<1>11. (positioning = wants /\ H!InCharge)'
  BY DEF HalInv, H!InCharge, H!requestedTell, H!clientVars
<1>. QED
  BY <1>1, <1>2, <1>6, <1>7, <1>8, <1>9, <1>10, <1>11, LastStays DEF Callbacks

\* Sessions change nothing else.
LEMMA Rest ==
  ASSUME HalInv, positioning' = wants', wants' \in BOOLEAN,
         UNCHANGED <<version, call, mGnssCbIface, odcpi, mApi, user, mLocationCapabilitiesMask,
                     mLocationCapabilitiesCached, stale, task, heard, made, reported, crossed>>
  PROVE  HalInv'
<1>1. HalTypes' /\ Unregistered' /\ NoClient' /\ Written'
  BY DEF HalInv, HalTypes, Unregistered, NoClient, Written, carries
<1>2. ASSUME (version # <<>>)'
      PROVE  Callbacks(H!mine, H!latest)' /\ Hears(H!latest)'
  <2>1. PICK m, l : LastOne(m, l)
    BY <1>2 DEF LastOne
  <2>2. Callbacks(m, l) /\ Hears(l) /\ H!mine' = m /\ H!latest' = l
    BY <2>1 DEF HalInv, LastOne, H!mine, H!latest
  <2>3. Callbacks(m, l)'
    BY <2>2 DEF Callbacks, Going, OthersCleared, OthersForgotten, CallbackSet, Remembered
  <2>4. Hears(l)'
    BY <2>2 DEF Hears
  <2>. QED
    BY <2>2, <2>3, <2>4
<1>3. H!InCharge'
  BY DEF HalInv, H!InCharge
<1>. QED
  BY <1>1, <1>2, <1>3 DEF HalInv

LEMMA HalStart ==
  ASSUME HalInv, H!gnssStart
  PROVE  HalInv'
<1>1. UNCHANGED <<version, call, mGnssCbIface, odcpi, mApi, user, mLocationCapabilitiesMask,
                  mLocationCapabilitiesCached, stale, task, heard, made, reported, crossed>>
  BY DEF H!gnssStart
<1>2. positioning' = wants' /\ wants' \in BOOLEAN
  BY DEF H!gnssStart
<1>. QED
  BY <1>1, <1>2, Rest

LEMMA HalStop ==
  ASSUME HalInv, H!gnssStop
  PROVE  HalInv'
<1>1. UNCHANGED <<version, call, mGnssCbIface, odcpi, mApi, user, mLocationCapabilitiesMask,
                  mLocationCapabilitiesCached, stale, task, heard, made, reported, crossed>>
  BY DEF H!gnssStop
<1>2. positioning' = wants' /\ wants' \in BOOLEAN
  BY DEF H!gnssStop
<1>. QED
  BY <1>1, <1>2, Rest

LEMMA HalDied ==
  ASSUME HalInv, H!serviceDied
  PROVE  HalInv'
<1>1. UNCHANGED <<version, call, mGnssCbIface, odcpi, mApi, user, mLocationCapabilitiesMask,
                  mLocationCapabilitiesCached, stale, task, heard, made, reported, crossed>>
  BY DEF H!serviceDied
<1>2. positioning' = wants' /\ wants' \in BOOLEAN
  BY DEF H!serviceDied
<1>. QED
  BY <1>1, <1>2, Rest

\* Reports leave the callbacks as they are.
LEMMA Reporting ==
  ASSUME HalInv, UNCHANGED <<version, call, mGnssCbIface, odcpi, mApi, user, wants, positioning>>,
         HalTypes', Written', \A l : version # <<>> /\ l = H!latest => Hears(l)', H!InCharge'
  PROVE  HalInv'
<1>1. Unregistered' /\ NoClient'
  BY DEF HalInv, Unregistered, NoClient
<1>2. ASSUME (version # <<>>)'
      PROVE  Callbacks(H!mine, H!latest)' /\ Hears(H!latest)'
  <2>1. PICK m, l : LastOne(m, l)
    BY <1>2 DEF LastOne
  <2>2. Callbacks(m, l) /\ H!mine' = m /\ H!latest' = l
    BY <2>1 DEF HalInv, LastOne, H!mine, H!latest
  <2>3. Callbacks(m, l)'
    BY <2>2 DEF Callbacks, Going, OthersCleared, OthersForgotten, CallbackSet, Remembered
  <2>4. Hears(l)'
    BY <2>1 DEF LastOne
  <2>. QED
    BY <2>2, <2>3, <2>4
<1>. QED
  BY <1>1, <1>2 DEF HalInv

LEMMA HalCapabilities ==
  ASSUME HalInv, NEW mask \in Masks, H!onCapabilitiesCb(mask)
  PROVE  HalInv'
<1>1. task' = [at |-> "copy", kind |-> "caps", mask |-> mask]
  BY DEF H!onCapabilitiesCb, H!report
<1>2. HalTypes'
  BY <1>1 DEF HalInv, HalTypes, HalTask, Kinds, H!onCapabilitiesCb
<1>3. Written'
  BY <1>1, MasksAssumption DEF HalInv, Written, carries, H!onCapabilitiesCb
<1>4. \A l : version # <<>> /\ l = H!latest => Hears(l)'
  BY <1>1 DEF Hears
<1>5. H!InCharge'
  BY <1>1 DEF H!InCharge
<1>. QED
  BY <1>2, <1>3, <1>4, <1>5, Reporting DEF HalInv, H!onCapabilitiesCb

LEMMA HalOther ==
  ASSUME HalInv, NEW kind \in Kinds \ {"caps"}, H!other(kind)
  PROVE  HalInv'
<1>1. task' = [at |-> "copy", kind |-> kind, mask |-> None] /\ task = H!idle
  BY DEF H!other, H!report
<1>2. HalTypes'
  BY <1>1 DEF HalInv, HalTypes, HalTask, Kinds, H!other, H!clientVars
<1>3. Written'
  BY <1>1 DEF HalInv, Written, carries, H!other, H!clientVars
<1>4. \A l : version # <<>> /\ l = H!latest => Hears(l)'
  BY <1>1 DEF HalInv, Hears, H!idle, H!other
<1>5. H!InCharge'
  BY <1>1 DEF H!InCharge
<1>. QED
  BY <1>2, <1>3, <1>4, <1>5, Reporting DEF HalInv, H!other, H!clientVars

LEMMA HalCopy ==
  ASSUME HalInv, H!copyCallbacks
  PROVE  HalInv'
<1>1. /\ task \in [at : {"copy"}, kind : Kinds, mask : Masks \cup {None}]
      /\ task' = [at |-> "tell", kind |-> task.kind, mask |-> task.mask,
                  to |-> IF task.kind = "position" /\ ~positioning THEN 0 ELSE H!target(user),
                  charge |-> IF call = <<>> THEN H!latest ELSE 0, wanted |-> wants]
  BY DEF HalInv, HalTypes, HalTask, H!copyCallbacks, H!idle
<1>2. H!target(user) \in Nat /\ H!latest \in Nat
  BY TargetType DEF HalInv, HalTypes, H!latest
<1>3. \A l : version # <<>> /\ l = H!latest /\ call = Done0 => H!target(user) = l
  <2>. SUFFICES ASSUME NEW m, NEW l, LastOne(m, l), call = Done0  PROVE H!target(user) = l
    BY DEF LastOne
  <2>. QED
    BY Mine, TargetIs, Calls DEF Callbacks
<1>4. /\ task'.at = "tell" /\ task'.kind = task.kind /\ task'.mask = task.mask
      /\ task'.to = (IF task.kind = "position" /\ ~positioning THEN 0 ELSE H!target(user))
      /\ task'.charge = (IF call = Done0 THEN H!latest ELSE 0) /\ task'.wanted = wants
  BY <1>1 DEF Done0
<1>5. HalTypes'
  <2>1. task' \in [at : {"tell"}, kind : Kinds, mask : Masks \cup {None}, to : Nat, charge : Nat,
                   wanted : BOOLEAN]
    BY <1>1, <1>2 DEF HalInv, HalTypes
  <2>. QED
    BY <2>1 DEF HalInv, HalTypes, HalTask, H!copyCallbacks, H!clientVars
<1>6. Written'
  BY <1>1, <1>4 DEF HalInv, Written, carries, H!copyCallbacks, H!clientVars
<1>7. \A l : version # <<>> /\ l = H!latest => Hears(l)'
  BY <1>1, <1>3, <1>4 DEF HalInv, Hears, H!copyCallbacks
<1>8. H!InCharge'
  <2>1. positioning = wants /\ (version = <<>> => H!latest = 0)
    BY DEF HalInv, H!latest
  <2>. QED
    BY <1>3, <1>4, <2>1 DEF H!InCharge
<1>. QED
  BY <1>5, <1>6, <1>7, <1>8, Reporting DEF HalInv, H!copyCallbacks, H!clientVars

LEMMA HalTellFramework ==
  ASSUME HalInv, H!tellFramework
  PROVE  HalInv'
<1>1. task' = H!idle /\ task.at = "tell" /\ task'.at = "idle"
  BY DEF H!tellFramework, H!idle
<1>2. heard' = IF task.kind = "caps" THEN H!hear(task.to, task.mask) ELSE heard
  BY DEF H!tellFramework
<1>3. HalTypes'
  BY <1>1, <1>2, ToldOne DEF HalInv, HalTypes, HalTask, H!tellFramework, H!clientVars
<1>4. Written'
  BY <1>1 DEF HalInv, Written, carries, H!tellFramework, H!clientVars
<1>5. ASSUME NEW l, version # <<>>, l = H!latest
      PROVE  Hears(l)'
  <2>. SUFFICES ASSUME call = Done0, reported # None, ~crossed  PROVE heard'[l] = Heard(reported)
    BY DEF Hears, H!tellFramework
  <2>1. l \in 1 .. MaxRegistrations /\ l # 0 /\ Hears(l)
    <3>1. PICK m : LastOne(m, l)
      BY <1>5 DEF LastOne
    <3>. QED
      BY <3>1, Mine, MasksAssumption
  <2>2. heard[l] = Heard(reported) \/ (task.kind = "caps" /\ task.to = l)
    BY <1>1, <2>1 DEF Hears
  <2>3. task.kind = "caps" => task.mask = reported
    BY <1>1 DEF HalInv, Written, carries
  <2>4. CASE task.kind = "caps"
    <3>1. HalTypes /\ heard' = H!hear(task.to, reported)
      BY <1>2, <2>3, <2>4 DEF HalInv
    <3>2. H!hear(task.to, reported)[l] = IF l = task.to /\ task.to # 0 THEN Heard(reported) ELSE heard[l]
      BY ONLY <2>1, <3>1, ToldOne
    <3>. QED
      BY <2>1, <2>2, <3>1, <3>2
  <2>. QED
    BY <1>2, <2>2, <2>4
<1>6. H!InCharge'
  BY <1>1 DEF H!InCharge
<1>. QED
  BY <1>3, <1>4, <1>5, <1>6, Reporting DEF HalInv, H!tellFramework, H!clientVars

LEMMA HalOdcpi ==
  ASSUME HalInv, H!odcpiRequestCb \/ H!odcpiRequest
  PROVE  HalInv'
<1>1. /\ task' \in {H!idle} \cup [at : {"use"}, v : Versions]
      /\ task = H!idle \/ task.at = "use"
      /\ task'.at \in {"idle", "use"}
  BY DEF H!odcpiRequestCb, H!odcpiRequest, H!idle, Versions
<1>2. HalTypes'
  BY <1>1 DEF HalInv, HalTypes, HalTask, H!odcpiRequestCb, H!odcpiRequest, H!clientVars
<1>3. Written'
  BY <1>1 DEF HalInv, Written, carries, H!odcpiRequestCb, H!odcpiRequest, H!clientVars
<1>4. \A l : version # <<>> /\ l = H!latest => Hears(l)'
  BY <1>1 DEF HalInv, Hears, H!idle, H!odcpiRequestCb, H!odcpiRequest
<1>5. H!InCharge'
  BY <1>1 DEF H!InCharge
<1>. QED
  BY <1>2, <1>3, <1>4, <1>5, Reporting DEF HalInv, H!odcpiRequestCb, H!odcpiRequest, H!clientVars

LEMMA HalInit == H!Init => HalInv
<1>. SUFFICES ASSUME H!Init  PROVE HalInv
  OBVIOUS
<1>1. version = <<>> /\ call = Done0 /\ task = H!idle
  BY DEF H!Init, Done0
<1>2. HalTypes
  <2>1. version \in Seq(Versions) /\ Len(version) <= MaxRegistrations
    BY <1>1, MasksAssumption
  <2>2. user \in [H!Slot -> Nat] /\ mGnssCbIface \in [Versions -> Nat]
    BY DEF H!Init
  <2>3. DOMAIN heard = 1 .. MaxRegistrations
    BY DEF H!Init, H!Registration
  <2>4. task \in HalTask
    BY <1>1 DEF HalTask
  <2>5. /\ reported = None /\ stale = None /\ wants = FALSE /\ odcpi = FALSE
        /\ mLocationCapabilitiesCached = FALSE
    BY DEF H!Init
  <2>. QED
    BY <2>1, <2>2, <2>3, <2>4, <2>5 DEF HalTypes
<1>3. Unregistered /\ NoClient
  BY <1>1 DEF H!Init, Unregistered, NoClient
<1>4. Done0 \notin Requested
  BY DEF Done0, Requested, Write2, Tell1
<1>5. Written
  BY <1>1, <1>4 DEF H!Init, Written, carries, H!idle
<1>6. H!InCharge
  BY <1>1 DEF H!InCharge, H!idle
<1>7. positioning = wants
  BY DEF H!Init
<1>. QED
  BY <1>1, <1>2, <1>3, <1>5, <1>6, <1>7 DEF HalInv

LEMMA HalNext == HalInv /\ H!Next => HalInv'
<1>. SUFFICES ASSUME HalInv, H!Next  PROVE HalInv'
  OBVIOUS
<1>1. CASE H!Binder
  BY <1>1, HalSetCallback, HalClear, HalForget, HalRemember, HalGetApi, HalUpdate, HalRequest,
     HalWrite, HalTell, HalStart, HalStop, HalDied DEF H!Binder
<1>2. CASE H!Task
  BY <1>2, HalCapabilities, HalOther, HalCopy, HalTellFramework, HalOdcpi
     DEF H!Task, H!onTrackingCb, H!onGnssSvCb, H!onGnssNmeaCb, H!onStartTrackingCb, Kinds
<1>. QED
  BY <1>1, <1>2 DEF H!Next

LEMMA HalStutter == HalInv /\ UNCHANGED hal => HalInv'
<1>. SUFFICES ASSUME HalInv, UNCHANGED hal  PROVE HalInv'
  OBVIOUS
<1>1. UNCHANGED <<version, call, mGnssCbIface, odcpi, mApi, user, positioning, wants,
                  mLocationCapabilitiesMask, mLocationCapabilitiesCached, stale, task, heard, made,
                  reported, crossed>>
  BY DEF hal
<1>. QED
  BY <1>1, Rest DEF HalInv, HalTypes

LEMMA HalFollowed == HalInv => H!CallbacksFollow
<1>. SUFFICES ASSUME HalInv  PROVE H!CallbacksFollow
  OBVIOUS
<1>1. ASSUME NEW m, NEW l, LastOne(m, l), call = Done0
      PROVE  /\ m \in Versions /\ l \in Nat \ {0} /\ OthersForgotten(m) /\ Remembered(m, l) /\ Hears(l)
             /\ m = H!mine /\ l = H!latest /\ Done0 \in Known(m) /\ Done0 \notin Unforgotten(m)
  BY <1>1, Mine, Calls DEF Callbacks, LastOne
<1>2. H!latest > 0 => version # <<>>
  BY DEF H!latest
<1>3. H!CapabilitiesTold
  <2>. SUFFICES ASSUME call = <<>>, task = H!idle, H!latest > 0, reported # None, ~crossed
       PROVE  mLocationCapabilitiesMask = reported /\ heard[H!latest] = Heard(reported)
    BY DEF H!CapabilitiesTold, Heard
  <2>1. PICK m, l : LastOne(m, l)
    BY <1>2 DEF LastOne
  <2>2. Hears(l) /\ l = H!latest
    BY <1>1, <2>1 DEF Done0
  <2>. QED
    BY <2>2 DEF HalInv, Written, Hears, Done0, H!idle
<1>4. H!RequestsReach
  <2>. SUFFICES ASSUME call = <<>>, H!latest > 0
       PROVE  /\ H!newest = {H!mine} \ {"1.0"}
              /\ H!mine # "1.0" => odcpi /\ mGnssCbIface[H!mine] = H!latest
    BY DEF H!RequestsReach
  <2>1. PICK m, l : LastOne(m, l)
    BY <1>2 DEF LastOne
  <2>2. /\ m \in Versions /\ l \in Nat \ {0} /\ OthersForgotten(m) /\ Remembered(m, l)
        /\ m = H!mine /\ l = H!latest /\ Done0 \in Known(m) /\ Done0 \notin Unforgotten(m)
    BY <1>1, <2>1 DEF Done0
  <2>3. mGnssCbIface[m] = l /\ \A v \in Versions : v # m => mGnssCbIface[v] = 0
    BY <2>2 DEF OthersForgotten, Remembered, Done0
  <2>4. H!newest = {m} \ {"1.0"}
    BY <2>2, <2>3 DEF H!newest, Versions
  <2>. QED
    BY <2>2, <2>4 DEF Remembered, Done0
<1>. QED
  BY <1>3, <1>4 DEF H!CallbacksFollow, HalInv
-----------------------------------------------------------------------------
(* The measurements of the framework.                                      *)

Modes == {"none", "M1", "M2"}
Registration == [version : Versions, mode : Modes]
Queued == [fn : {"start", "stop"}, session : Nat, mode : Modes]
RawTask ==
  {M!idle} \cup [at : {"copy"}, n : Notification]
  \cup [at : {"tell"}, n : Notification, to : Versions \cup {None}, registration : Nat, charge : Nat]

\* What is left of the calls of the framework.
Set3 == <<"set", "track", "start">>
Track2 == <<"track", "start">>
Start1 == <<"start">>
Untrack2 == <<"untrack", "stop">>
Stop1 == <<"stop">>
None0 == <<>>
Opening == {Set3, Track2, Start1}
Closing == {Untrack2, Stop1}

RawTypes ==
  /\ registered \in Seq(Registration) /\ open \in Nat /\ number \in Nat
  /\ listener \in [Versions -> Nat] /\ starts \in Seq(Queued) /\ tracked \in BOOLEAN
  /\ atWork = [s \in DOMAIN atWork |-> atWork[s]] /\ DOMAIN atWork \subseteq 1 .. number
  /\ report \in RawTask /\ steps \in Opening \cup Closing \cup {None0}
\* A registration is open between its call and its close; a session belongs to it.
Opened ==
  /\ open # 0 => open = Len(registered) /\ steps \notin Closing
  /\ steps \in Opening => open # 0
  /\ steps = None0 => (tracked <=> open # 0)
\* The callback is the one that is open, and any is of the version it is kept under.
Listens ==
  /\ open # 0 /\ steps \in {Track2, Start1, None0} =>
       \A v \in Versions : listener[v] = IF v = registered[open].version THEN open ELSE 0
  /\ \A v \in Versions : listener[v] # 0 =>
       listener[v] \in 1 .. Len(registered) /\ registered[listener[v]].version = v
\* Of the calls under way, the last is the start of the session, and a stop comes behind
\* every other.
StopOf(q, i, s) == \E j \in 1 .. Len(q) : j > i /\ q[j].fn = "stop" /\ q[j].session = s
current(s) == tracked /\ s = number
StopsComing ==
  /\ \A s \in DOMAIN atWork : current(s) \/ StopOf(starts, 0, s)
  /\ \A i \in 1 .. Len(starts) :
       /\ starts[i].session \in 1 .. number
       /\ starts[i].fn = "start" => current(starts[i].session) \/ StopOf(starts, i, starts[i].session)
SessionStarts ==
  tracked =>
    /\ number > 0
    /\ starts # <<>> => starts[Len(starts)].fn = "start" /\ starts[Len(starts)].session = number
    /\ starts = <<>> => number \in DOMAIN atWork \/ failedStart
\* It runs at the power mode of the registration, unless it is an earlier one's.
Powered ==
  open # 0 /\ steps = None0 /\ ~keptMode =>
    /\ \A i \in 1 .. Len(starts) :
         starts[i].fn = "start" /\ starts[i].session = number => starts[i].mode = registered[open].mode
    /\ number \in DOMAIN atWork => atWork[number] = registered[open].mode
\* What is about to be told goes to the version it was made for.
Telling ==
  report.at = "tell" =>
    /\ report.charge # 0 => report.registration = report.charge
    /\ report.to # None => /\ report.registration \in 1 .. Len(registered)
                           /\ registered[report.registration].version = report.to
RawInv == RawTypes /\ Opened /\ Listens /\ StopsComing /\ SessionStarts /\ Powered /\ Telling

\* Which step is next, and what it leaves.
LEMMA RawSteps ==
  /\ Head(Set3) = "set" /\ Tail(Set3) = Track2 /\ Head(Track2) = "track" /\ Tail(Track2) = Start1
  /\ Head(Start1) = "start" /\ Tail(Start1) = None0
  /\ Head(Untrack2) = "untrack" /\ Tail(Untrack2) = Stop1
  /\ Head(Stop1) = "stop" /\ Tail(Stop1) = None0
<1>1. /\ Head(Set3) = "set" /\ Tail(Set3) = Track2 /\ Head(Track2) = "track" /\ Tail(Track2) = Start1
  BY DEF Set3, Track2, Start1
<1>2. Head(Start1) = "start" /\ Tail(Start1) = None0
  BY DEF Start1, None0
<1>3. /\ Head(Untrack2) = "untrack" /\ Tail(Untrack2) = Stop1
      /\ Head(Stop1) = "stop" /\ Tail(Stop1) = None0
  BY DEF Untrack2, Stop1, None0
<1>. QED
  BY <1>1, <1>2, <1>3

LEMMA RawDistinct ==
  /\ Set3 \notin {Track2, Start1, Untrack2, Stop1, None0} /\ Track2 \notin {Start1, Untrack2, Stop1, None0}
  /\ Start1 \notin {Untrack2, Stop1, None0} /\ Untrack2 \notin {Stop1, None0} /\ Stop1 # None0
<1>1. Set3 \notin {Track2, Start1, Untrack2, Stop1, None0}
  BY DEF Set3, Track2, Start1, Untrack2, Stop1, None0
<1>2. Track2 \notin {Start1, Stop1, None0} /\ Start1 \notin {Untrack2, None0}
  BY DEF Track2, Start1, Untrack2, Stop1, None0
<1>3. Untrack2 \notin {Stop1, None0} /\ Stop1 # None0
  BY DEF Untrack2, Stop1, None0
<1>4. Track2 # Untrack2 /\ Start1 # Stop1
  BY RawSteps
<1>. QED
  BY <1>1, <1>2, <1>3, <1>4

\* A step of a call: which one it is, and what is left.
LEMMA RawStep ==
  ASSUME RawInv, NEW s, M!step(s)
  PROVE  \/ s = "set" /\ steps = Set3 /\ steps' = Track2
         \/ s = "track" /\ steps = Track2 /\ steps' = Start1
         \/ s = "start" /\ steps = Start1 /\ steps' = None0
         \/ s = "untrack" /\ steps = Untrack2 /\ steps' = Stop1
         \/ s = "stop" /\ steps = Stop1 /\ steps' = None0
<1>1. steps # None0 /\ Head(steps) = s /\ steps' = Tail(steps) /\ steps \in Opening \cup Closing \cup {None0}
  BY DEF M!step, None0, RawInv, RawTypes
<1>. QED
  BY ONLY <1>1, RawSteps DEF Opening, Closing

\* Two names for what the adapter has been asked.
LEMMA Appended ==
  ASSUME NEW q \in Seq(Queued), NEW c \in Queued
  PROVE  /\ Append(q, c) \in Seq(Queued) /\ Append(q, c) # <<>> /\ Len(Append(q, c)) = Len(q) + 1
         /\ Append(q, c)[Len(q) + 1] = c /\ Len(q) \in Nat
         /\ \A i \in 1 .. Len(q) : Append(q, c)[i] = q[i]
         /\ \A i, s : StopOf(q, i, s) => StopOf(Append(q, c), i, s)
         /\ c.fn = "stop" => \A i \in 0 .. Len(q) : StopOf(Append(q, c), i, c.session)
<1>1. /\ Append(q, c) \in Seq(Queued) /\ Append(q, c) # <<>> /\ Len(Append(q, c)) = Len(q) + 1
      /\ Append(q, c)[Len(q) + 1] = c /\ Len(q) \in Nat
      /\ \A i \in 1 .. Len(q) : Append(q, c)[i] = q[i]
  BY AppendProperties
<1>2. \A i, s : StopOf(q, i, s) => StopOf(Append(q, c), i, s)
  BY <1>1 DEF StopOf
<1>3. ASSUME c.fn = "stop", NEW i \in 0 .. Len(q)  PROVE StopOf(Append(q, c), i, c.session)
  BY <1>1, <1>3 DEF StopOf
<1>. QED
  BY <1>1, <1>2, <1>3

LEMMA Popped ==
  ASSUME NEW q \in Seq(Queued), q # <<>>
  PROVE  /\ Tail(q) \in Seq(Queued) /\ Len(Tail(q)) = Len(q) - 1 /\ Len(q) \in Nat \ {0}
         /\ \A i \in 1 .. Len(Tail(q)) : Tail(q)[i] = q[i + 1] /\ i + 1 \in 1 .. Len(q)
         /\ Head(q) = q[1] /\ 1 \in 1 .. Len(q) /\ Head(q) \in Queued
         /\ Tail(q) # <<>> => Tail(q)[Len(Tail(q))] = q[Len(q)] /\ Len(q) > 1
         /\ Tail(q) = <<>> => Len(q) = 1
         /\ \A i \in Nat \ {0} : \A s : StopOf(q, i, s) => StopOf(Tail(q), i - 1, s)
         /\ \A s : StopOf(q, 0, s) /\ ~(Head(q).fn = "stop" /\ Head(q).session = s) => StopOf(Tail(q), 0, s)
<1>1. /\ Tail(q) \in Seq(Queued) /\ Len(Tail(q)) = Len(q) - 1 /\ Len(q) \in Nat \ {0}
      /\ \A i \in 1 .. Len(Tail(q)) : Tail(q)[i] = q[i + 1] /\ i + 1 \in 1 .. Len(q)
      /\ Head(q) = q[1] /\ 1 \in 1 .. Len(q) /\ Head(q) \in Queued
  BY HeadTailProperties
<1>2. /\ Tail(q) # <<>> => Tail(q)[Len(Tail(q))] = q[Len(q)] /\ Len(q) > 1
      /\ Tail(q) = <<>> => Len(q) = 1
  <2>1. Tail(q) = <<>> => Len(Tail(q)) = 0
    BY <1>1, EmptySeq
  <2>2. Tail(q) # <<>> => Len(Tail(q)) \in Nat \ {0}
    BY <1>1, EmptySeq
  <2>3. ASSUME Tail(q) # <<>>  PROVE Tail(q)[Len(Tail(q))] = q[Len(q)]
    <3>1. Len(Tail(q)) \in 1 .. Len(Tail(q)) /\ Len(Tail(q)) + 1 = Len(q)
      BY <1>1, <2>2, <2>3
    <3>. QED
      BY ONLY <1>1, <3>1
  <2>. QED
    BY <1>1, <2>1, <2>2, <2>3
<1>3. ASSUME NEW i \in Nat, NEW s, NEW j \in 1 .. Len(q), j > i, j > 1, q[j].fn = "stop", q[j].session = s,
             NEW k \in Nat, k < j - 1
      PROVE  StopOf(Tail(q), k, s)
  <2>1. j - 1 \in 1 .. Len(Tail(q)) /\ Tail(q)[j - 1] = q[j]
    BY <1>1, <1>3
  <2>. QED
    BY <1>3, <2>1 DEF StopOf
<1>4. ASSUME NEW i \in Nat \ {0}, NEW s, StopOf(q, i, s)  PROVE StopOf(Tail(q), i - 1, s)
  <2>1. PICK j \in 1 .. Len(q) : j > i /\ q[j].fn = "stop" /\ q[j].session = s
    BY <1>4 DEF StopOf
  <2>2. j > 1 /\ i - 1 \in Nat /\ i - 1 < j - 1
    BY <1>1, <2>1
  <2>. QED
    BY <1>3, <2>1, <2>2
<1>5. ASSUME NEW s, StopOf(q, 0, s), ~(Head(q).fn = "stop" /\ Head(q).session = s)
      PROVE  StopOf(Tail(q), 0, s)
  <2>1. PICK j \in 1 .. Len(q) : j > 0 /\ q[j].fn = "stop" /\ q[j].session = s
    BY <1>5 DEF StopOf
  <2>2. j > 1 /\ 0 < j - 1
    BY <1>1, <1>5, <2>1
  <2>. QED
    BY <1>3, <2>1, <2>2
<1>. QED
  BY <1>1, <1>2, <1>4, <1>5

\* What does not touch the session leaves its calls as they are.
LEMMA SameSession ==
  ASSUME StopsComing, SessionStarts, UNCHANGED <<number, tracked, starts, atWork, failedStart>>
  PROVE  StopsComing' /\ SessionStarts'
  BY DEF StopsComing, SessionStarts, current, StopOf

LEMMA RawSetCallback ==
  ASSUME RawInv, NEW v \in Versions, NEW mode \in M!modesOf(v), M!setCallback(v, mode)
  PROVE  RawInv'
<1>1. CASE UNCHANGED <<registered, open, deathOpen, mGnssMeasurementCbIface, steps>>
  <2>1. UNCHANGED <<listener, number, tracked, starts, atWork, report, failedStart, keptMode>>
    BY DEF M!setCallback, M!baseVars
  <2>. QED
    BY <1>1, <2>1, SameSession DEF RawInv, RawTypes, Opened, Listens, Powered, Telling
<1>2. CASE ~UNCHANGED <<registered, open, deathOpen, mGnssMeasurementCbIface, steps>>
  <2>1. /\ registered' = Append(registered, [version |-> v, mode |-> mode])
        /\ open' = Len(registered) + 1 /\ steps' = Set3
        /\ UNCHANGED <<listener, number, tracked, starts, atWork, report, failedStart, keptMode>>
    BY <1>2 DEF M!setCallback, M!baseVars, Set3
  <2>2. registered \in Seq(Registration) /\ [version |-> v, mode |-> mode] \in Registration
    BY DEF RawInv, RawTypes, M!modesOf, Registration, Modes
  <2>3. /\ registered' \in Seq(Registration) /\ Len(registered') = Len(registered) + 1
        /\ \A i \in 1 .. Len(registered) : registered'[i] = registered[i] /\ i \in 1 .. Len(registered')
        /\ Len(registered) \in Nat
    BY <2>1, <2>2, AppendProperties
  <2>4. RawTypes'
    BY <2>1, <2>3 DEF RawInv, RawTypes, Opening
  <2>5. Opened'
    BY <2>1, <2>3, RawDistinct DEF Opened, Opening, Closing
  <2>6. Listens'
    BY <2>1, <2>3, RawDistinct DEF RawInv, Listens
  <2>7. Powered'
    BY <2>1, RawDistinct DEF Powered
  <2>8. Telling'
    BY <2>1, <2>3 DEF RawInv, Telling
  <2>. QED
    BY <2>1, <2>4, <2>5, <2>6, <2>7, <2>8, SameSession DEF RawInv
<1>. QED
  BY <1>1, <1>2

LEMMA RawClose ==
  ASSUME RawInv, M!close \/ M!serviceDied
  PROVE  RawInv'
<1>1. /\ open' = 0 /\ steps' = Untrack2
      /\ UNCHANGED <<registered, listener, number, tracked, starts, atWork, report, failedStart, keptMode>>
  BY DEF M!close, M!serviceDied, M!closed, M!baseVars, Untrack2
<1>2. RawTypes'
  BY <1>1 DEF RawInv, RawTypes, Closing
<1>3. Opened'
  BY <1>1, RawDistinct DEF Opened, Opening, Closing
<1>4. Listens' /\ Powered' /\ Telling'
  BY <1>1 DEF RawInv, Listens, Powered, Telling
<1>. QED
  BY <1>1, <1>2, <1>3, <1>4, SameSession DEF RawInv

LEMMA RawDies ==
  ASSUME RawInv, M!frameworkDies
  PROVE  RawInv'
<1>1. UNCHANGED <<registered, open, steps, listener, number, tracked, starts, atWork, report,
                  failedStart, keptMode>>
  BY DEF M!frameworkDies, M!baseVars
<1>. QED
  BY <1>1, SameSession DEF RawInv, RawTypes, Opened, Listens, Powered, Telling

LEMMA RawSet ==
  ASSUME RawInv, M!clearAndSet
  PROVE  RawInv'
<1>1. /\ steps = Set3 /\ steps' = Track2
  BY RawStep DEF M!clearAndSet
<1>2. UNCHANGED <<registered, open, number, tracked, starts, atWork, report, failedStart, keptMode>>
  BY DEF M!clearAndSet, M!halVars, M!baseVars
<1>3. open = Len(registered) /\ open \in 1 .. Len(registered) /\ registered[open] \in Registration
  BY <1>1 DEF RawInv, RawTypes, Opened, Opening
<1>4. listener' = [v \in Versions |-> IF v = registered[open].version THEN open ELSE 0]
  BY <1>3 DEF M!clearAndSet, M!nobody, M!Last, Registration
<1>5. RawTypes'
  BY <1>1, <1>2, <1>3, <1>4 DEF RawInv, RawTypes, Opening
<1>6. Opened'
  BY <1>1, <1>2, <1>3, RawDistinct DEF RawInv, Opened, Opening, Closing
<1>7. Listens'
  BY <1>2, <1>3, <1>4 DEF Listens
<1>8. Powered' /\ Telling'
  BY <1>1, <1>2, RawDistinct DEF RawInv, Powered, Telling
<1>. QED
  BY <1>2, <1>5, <1>6, <1>7, <1>8, SameSession DEF RawInv

LEMMA RawTrack ==
  ASSUME RawInv, M!setTracking
  PROVE  RawInv'
<1>1. \/ steps = Track2 /\ steps' = Start1
      \/ steps = Untrack2 /\ steps' = Stop1
  BY RawStep DEF M!setTracking
<1>2. UNCHANGED <<registered, open, listener, number, tracked, starts, atWork, report, failedStart,
                  keptMode>>
  BY DEF M!setTracking, M!halVars, M!baseVars
<1>3. RawTypes'
  BY <1>1, <1>2 DEF RawInv, RawTypes, Opening, Closing
<1>4. Opened'
  BY <1>1, <1>2, RawDistinct DEF RawInv, Opened, Opening, Closing
<1>5. Listens' /\ Powered' /\ Telling'
  BY <1>1, <1>2, RawDistinct DEF RawInv, Listens, Powered, Telling, Opened, Closing
<1>. QED
  BY <1>2, <1>3, <1>4, <1>5, SameSession DEF RawInv

LEMMA RawStart ==
  ASSUME RawInv, M!locAPIStartTracking
  PROVE  RawInv'
<1>1. /\ steps = Start1 /\ steps' = None0
  BY RawStep DEF M!locAPIStartTracking
<1>2. UNCHANGED <<registered, open, listener, atWork, report, failedStart>>
  BY DEF M!locAPIStartTracking, M!halVars
<1>3. open = Len(registered) /\ open \in 1 .. Len(registered) /\ registered[open] \in Registration
  BY <1>1 DEF RawInv, RawTypes, Opened, Opening
<1>4. Listens' /\ Telling'
  BY <1>1, <1>2, RawDistinct DEF RawInv, Listens, Telling
<1>5. CASE tracked
  <2>1. keptMode' = TRUE /\ UNCHANGED <<number, tracked, starts>>
    BY <1>5 DEF M!locAPIStartTracking, M!baseVars
  <2>2. RawTypes' /\ Opened' /\ Powered'
    BY <1>1, <1>2, <1>3, <1>5, <2>1, RawDistinct DEF RawInv, RawTypes, Opened, Opening, Closing, Powered
  <2>. QED
    BY <1>2, <1>4, <2>1, <2>2, SameSession DEF RawInv
<1>6. CASE ~tracked
  <2>. DEFINE c == [fn |-> "start", session |-> number + 1, mode |-> registered[open].mode]
  <2>1. /\ starts' = Append(starts, c) /\ number' = number + 1 /\ tracked' = TRUE
        /\ UNCHANGED keptMode
    BY <1>3, <1>6 DEF M!locAPIStartTracking, M!Last
  <2>2. c \in Queued /\ starts \in Seq(Queued) /\ c.session = number + 1 /\ c.fn = "start"
        /\ c.mode = registered[open].mode /\ number \in Nat
    BY <1>3 DEF RawInv, RawTypes, Queued, Registration
  <2>. HIDE DEF c
  <2>3. /\ starts' \in Seq(Queued) /\ starts' # <<>> /\ Len(starts') = Len(starts) + 1 /\ Len(starts) \in Nat
        /\ starts'[Len(starts')] = c
        /\ \A i \in 1 .. Len(starts') : i \notin 1 .. Len(starts) => starts'[i] = c
        /\ \A i \in 1 .. Len(starts) : starts'[i] = starts[i]
        /\ \A i, s : StopOf(starts, i, s) => StopOf(starts', i, s)
    BY <2>1, <2>2, Appended
  <2>4. RawTypes'
    BY <1>1, <1>2, <2>1, <2>3 DEF RawInv, RawTypes
  <2>5. Opened'
    BY <1>1, <1>2, <1>3, <2>1, RawDistinct DEF RawInv, Opened, Opening, Closing
  <2>6. StopsComing'
    <3>1. ASSUME NEW s \in DOMAIN atWork'  PROVE StopOf(starts', 0, s)
      BY <1>2, <1>6, <2>3 DEF RawInv, StopsComing, current
    <3>2. ASSUME NEW i \in 1 .. Len(starts')
          PROVE  /\ starts'[i].session \in 1 .. number'
                 /\ starts'[i].fn = "start" =>
                      \/ tracked' /\ starts'[i].session = number'
                      \/ StopOf(starts', i, starts'[i].session)
      <4>1. CASE i \in 1 .. Len(starts)
        <5>1. starts'[i] = starts[i] /\ starts[i].session \in 1 .. number
          BY <2>3, <4>1 DEF RawInv, StopsComing
        <5>2. starts[i].fn = "start" => StopOf(starts', i, starts[i].session)
          BY <1>6, <2>3, <4>1 DEF RawInv, StopsComing, current
        <5>. QED
          BY <2>1, <2>2, <5>1, <5>2
      <4>2. CASE i \notin 1 .. Len(starts)
        BY <2>1, <2>2, <2>3, <4>2
      <4>. QED
        BY <4>1, <4>2
    <3>. QED
      BY <3>1, <3>2 DEF StopsComing, current
  <2>7. SessionStarts'
    BY <2>1, <2>2, <2>3 DEF SessionStarts
  <2>8. Powered'
    <3>1. number' \notin DOMAIN atWork'
      BY <1>2, <2>1, <2>2 DEF RawInv, RawTypes
    <3>2. \A i \in 1 .. Len(starts) : starts'[i].session # number'
      BY <2>1, <2>2, <2>3 DEF RawInv, StopsComing
    <3>. QED
      BY <1>2, <2>2, <2>3, <3>1, <3>2 DEF Powered
  <2>. QED
    BY <1>4, <2>4, <2>5, <2>6, <2>7, <2>8 DEF RawInv
<1>. QED
  BY <1>5, <1>6

LEMMA RawStop ==
  ASSUME RawInv, M!locAPIStopTracking
  PROVE  RawInv'
<1>1. /\ steps = Stop1 /\ steps' = None0 /\ open = 0
  BY RawStep, RawDistinct DEF M!locAPIStopTracking, RawInv, Opened, Closing
<1>2. UNCHANGED <<registered, open, listener, atWork, report, failedStart, number>>
  BY DEF M!locAPIStopTracking, M!halVars
<1>3. Listens' /\ Telling' /\ Powered'
  BY <1>1, <1>2 DEF RawInv, Listens, Telling, Powered
<1>4. CASE number = 0
  <2>1. UNCHANGED <<starts, tracked, keptMode>> /\ ~tracked
    BY <1>4 DEF M!locAPIStopTracking, RawInv, RawTypes, SessionStarts
  <2>2. RawTypes' /\ Opened'
    BY <1>1, <1>2, <2>1, RawDistinct DEF RawInv, RawTypes, Opened, Opening, Closing
  <2>. QED
    BY <1>2, <1>3, <2>1, <2>2, SameSession DEF RawInv
<1>5. CASE number # 0
  <2>. DEFINE c == [fn |-> "stop", session |-> number, mode |-> "none"]
  <2>1. starts' = Append(starts, c) /\ tracked' = FALSE /\ number > 0
    BY <1>5 DEF M!locAPIStopTracking, RawInv, RawTypes
  <2>2. c \in Queued /\ starts \in Seq(Queued) /\ c.session = number /\ c.fn = "stop" /\ number \in Nat
    BY DEF RawInv, RawTypes, Queued, Modes
  <2>. HIDE DEF c
  <2>3. /\ starts' \in Seq(Queued) /\ Len(starts') = Len(starts) + 1 /\ Len(starts) \in Nat
        /\ \A i \in 1 .. Len(starts') : i \notin 1 .. Len(starts) => starts'[i] = c
        /\ \A i \in 1 .. Len(starts) : starts'[i] = starts[i]
        /\ \A i, s : StopOf(starts, i, s) => StopOf(starts', i, s)
        /\ \A i \in 0 .. Len(starts) : StopOf(starts', i, number)
    BY <2>1, <2>2, Appended
  <2>4. RawTypes'
    BY <1>1, <1>2, <2>1, <2>3 DEF RawInv, RawTypes
  <2>5. Opened'
    BY <1>1, <1>2, <2>1, RawDistinct DEF Opened, Opening, Closing
  <2>6. StopsComing'
    <3>1. ASSUME NEW s \in DOMAIN atWork'  PROVE StopOf(starts', 0, s)
      BY <1>2, <2>3 DEF RawInv, StopsComing, current
    <3>2. ASSUME NEW i \in 1 .. Len(starts')
          PROVE  /\ starts'[i].session \in 1 .. number'
                 /\ starts'[i].fn = "start" => StopOf(starts', i, starts'[i].session)
      <4>1. CASE i \in 1 .. Len(starts)
        <5>1. starts'[i] = starts[i] /\ starts[i].session \in 1 .. number
          BY <2>3, <4>1 DEF RawInv, StopsComing
        <5>2. starts[i].fn = "start" => StopOf(starts', i, starts[i].session)
          BY <2>3, <4>1 DEF RawInv, StopsComing, current
        <5>. QED
          BY <1>2, <5>1, <5>2
      <4>2. CASE i \notin 1 .. Len(starts)
        BY <1>2, <2>1, <2>2, <2>3, <4>2
      <4>. QED
        BY <4>1, <4>2
    <3>. QED
      BY <3>1, <3>2 DEF StopsComing
  <2>7. SessionStarts'
    BY <2>1 DEF SessionStarts
  <2>. QED
    BY <1>3, <2>4, <2>5, <2>6, <2>7 DEF RawInv
<1>. QED
  BY <1>4, <1>5

LEMMA RawServes ==
  ASSUME RawInv, M!adapterServes
  PROVE  RawInv'
<1>. DEFINE c == Head(starts)
<1>1. starts # <<>> /\ starts' = Tail(starts) /\ starts \in Seq(Queued)
  BY DEF M!adapterServes, RawInv, RawTypes
<1>2. UNCHANGED <<registered, open, listener, report, steps, number, tracked, keptMode>>
  BY DEF M!adapterServes, M!halVars
<1>3. \/ /\ c.fn = "stop" /\ atWork' = [s \in DOMAIN atWork \ {c.session} |-> atWork[s]]
      \/ /\ c.fn = "start"
         /\ atWork' = [s \in DOMAIN atWork \cup {c.session} |-> IF s = c.session THEN c.mode ELSE atWork[s]]
         /\ failedStart' = failedStart
      \/ /\ c.fn = "start" /\ atWork' = atWork /\ failedStart' = TRUE
  <2>1. c \in Queued
    BY <1>1, Popped
  <2>. QED
    BY <2>1 DEF M!adapterServes, Queued
<1>. HIDE DEF c
<1>4. /\ starts' \in Seq(Queued) /\ Len(starts') = Len(starts) - 1 /\ Len(starts) \in Nat \ {0}
      /\ \A i \in 1 .. Len(starts') : starts'[i] = starts[i + 1] /\ i + 1 \in 1 .. Len(starts)
      /\ c = starts[1] /\ 1 \in 1 .. Len(starts) /\ c \in Queued
      /\ starts' # <<>> => starts'[Len(starts')] = starts[Len(starts)] /\ Len(starts) > 1
      /\ starts' = <<>> => Len(starts) = 1
      /\ \A i \in Nat \ {0} : \A s : StopOf(starts, i, s) => StopOf(starts', i - 1, s)
      /\ \A s : StopOf(starts, 0, s) /\ ~(c.fn = "stop" /\ c.session = s) => StopOf(starts', 0, s)
  BY <1>1, Popped DEF c
<1>5. /\ c.session \in 1 .. number
      /\ c.fn = "start" => current(c.session) \/ StopOf(starts', 0, c.session)
  <2>1. c.session \in 1 .. number /\ (c.fn = "start" => current(c.session) \/ StopOf(starts, 1, c.session))
    BY <1>4 DEF RawInv, StopsComing
  <2>. QED
    BY <1>4, <2>1
<1>6. RawTypes'
  BY <1>2, <1>3, <1>4, <1>5 DEF RawInv, RawTypes
<1>7. StopsComing'
  <2>1. ASSUME NEW s \in DOMAIN atWork'  PROVE (tracked' /\ s = number') \/ StopOf(starts', 0, s)
    <3>1. (s \in DOMAIN atWork /\ ~(c.fn = "stop" /\ s = c.session)) \/ (c.fn = "start" /\ s = c.session)
      BY <1>3, <2>1
    <3>. QED
      BY <1>2, <1>4, <1>5, <3>1 DEF RawInv, StopsComing, current
  <2>2. ASSUME NEW i \in 1 .. Len(starts')
        PROVE  /\ starts'[i].session \in 1 .. number'
               /\ starts'[i].fn = "start" =>
                    \/ tracked' /\ starts'[i].session = number'
                    \/ StopOf(starts', i, starts'[i].session)
    <3>1. starts'[i] = starts[i + 1] /\ i + 1 \in 1 .. Len(starts) /\ i + 1 \in Nat \ {0} /\ (i + 1) - 1 = i
      BY <1>4
    <3>2. /\ starts[i + 1].session \in 1 .. number
          /\ starts[i + 1].fn = "start" =>
               current(starts[i + 1].session) \/ StopOf(starts, i + 1, starts[i + 1].session)
      BY <3>1 DEF RawInv, StopsComing
    <3>3. StopOf(starts, i + 1, starts[i + 1].session) => StopOf(starts', i, starts[i + 1].session)
      BY <1>4, <3>1
    <3>. QED
      BY <1>2, <3>1, <3>2, <3>3 DEF current
  <2>. QED
    BY <2>1, <2>2 DEF StopsComing, current
<1>8. SessionStarts'
  <2>. SUFFICES ASSUME tracked
       PROVE  /\ starts' # <<>> => starts'[Len(starts')].fn = "start" /\ starts'[Len(starts')].session = number
              /\ starts' = <<>> => number \in DOMAIN atWork' \/ failedStart'
    BY <1>2 DEF RawInv, SessionStarts
  <2>1. starts[Len(starts)].fn = "start" /\ starts[Len(starts)].session = number
    BY <1>1 DEF RawInv, SessionStarts
  <2>2. ASSUME starts' = <<>>  PROVE number \in DOMAIN atWork' \/ failedStart'
    <3>1. c.fn = "start" /\ c.session = number
      BY <1>4, <2>1, <2>2
    <3>. QED
      BY <1>3, <3>1
  <2>. QED
    BY <1>4, <2>1, <2>2
<1>9. Powered'
  <2>. SUFFICES ASSUME open # 0, steps = None0, ~keptMode
       PROVE  /\ \A i \in 1 .. Len(starts') :
                   starts'[i].fn = "start" /\ starts'[i].session = number =>
                     starts'[i].mode = registered[open].mode
              /\ number \in DOMAIN atWork' => atWork'[number] = registered[open].mode
    BY <1>2 DEF Powered
  <2>1. /\ \A i \in 1 .. Len(starts) :
             starts[i].fn = "start" /\ starts[i].session = number => starts[i].mode = registered[open].mode
        /\ number \in DOMAIN atWork => atWork[number] = registered[open].mode
    BY DEF RawInv, Powered
  <2>2. c.fn = "start" /\ c.session = number => c.mode = registered[open].mode
    BY <1>4, <2>1
  <2>. QED
    BY <1>3, <1>4, <2>1, <2>2
<1>10. Opened' /\ Listens' /\ Telling'
  BY <1>2 DEF RawInv, Opened, Listens, Telling
<1>. QED
  BY <1>6, <1>7, <1>8, <1>9, <1>10 DEF RawInv

LEMMA RawReport ==
  ASSUME RawInv,
         (\E n \in Notification : M!reportGnssMeasurementsEvent(n)) \/ M!onGnssMeasurementsCb
  PROVE  RawInv'
<1>1. UNCHANGED <<registered, open, steps, listener, number, tracked, starts, atWork, failedStart,
                  keptMode>>
  BY DEF M!reportGnssMeasurementsEvent, M!onGnssMeasurementsCb, M!halVars, M!baseVars
<1>2. report' \in {M!idle} \cup [at : {"copy"}, n : Notification] /\ report'.at # "tell"
  BY DEF M!reportGnssMeasurementsEvent, M!onGnssMeasurementsCb, M!idle
<1>3. RawTypes' /\ Telling'
  BY <1>1, <1>2 DEF RawInv, RawTypes, RawTask, Telling
<1>. QED
  BY <1>1, <1>3, SameSession DEF RawInv, Opened, Listens, Powered

LEMMA RawCopy ==
  ASSUME RawInv, M!copyCallback
  PROVE  RawInv'
<1>1. UNCHANGED <<registered, open, steps, listener, number, tracked, starts, atWork, failedStart,
                  keptMode>>
  BY DEF M!copyCallback, M!halVars, M!baseVars
<1>2. /\ report.n \in Notification
      /\ report' = [at |-> "tell", n |-> report.n, to |-> M!newest,
                    registration |-> IF M!newest = None THEN 0 ELSE listener[M!newest],
                    charge |-> IF steps = <<>> THEN open ELSE 0]
  BY DEF M!copyCallback, RawInv, RawTypes, RawTask, M!idle
<1>3. /\ M!newest \in Versions \cup {None}
      /\ M!newest # None => M!newest \in Versions /\ listener[M!newest] # 0
      /\ (\E v \in Versions : listener[v] # 0) => M!newest # None
  BY MeasuredAssumption DEF M!newest, Versions
<1>4. /\ report'.to = M!newest /\ report'.at = "tell"
      /\ report'.registration = (IF M!newest = None THEN 0 ELSE listener[M!newest])
      /\ report'.charge = (IF steps = None0 THEN open ELSE 0)
  BY <1>2 DEF None0
<1>5. RawTypes'
  <2>1. listener[M!newest] \in Nat \/ M!newest = None
    BY <1>3 DEF RawInv, RawTypes
  <2>2. open \in Nat
    BY DEF RawInv, RawTypes
  <2>3. report' \in [at : {"tell"}, n : Notification, to : Versions \cup {None}, registration : Nat,
                     charge : Nat]
    BY <1>2, <1>3, <2>1, <2>2
  <2>. QED
    BY <1>1, <2>3 DEF RawInv, RawTypes, RawTask
<1>6. Telling'
  <2>1. ASSUME M!newest # None
        PROVE  /\ listener[M!newest] \in 1 .. Len(registered)
               /\ registered[listener[M!newest]].version = M!newest
    BY <1>3, <2>1 DEF RawInv, Listens
  <2>2. ASSUME steps = None0, open # 0  PROVE M!newest # None /\ listener[M!newest] = open
    <3>1. registered[open].version \in Versions
      <4>1. open \in 1 .. Len(registered) /\ registered \in Seq(Registration)
        BY <2>2 DEF RawInv, RawTypes, Opened
      <4>2. registered[open] \in Registration
        BY ONLY <4>1
      <4>. QED
        BY <4>2 DEF Registration
    <3>2. \A v \in Versions : listener[v] = IF v = registered[open].version THEN open ELSE 0
      BY <2>2 DEF RawInv, Listens
    <3>. QED
      BY <1>3, <2>2, <3>1, <3>2
  <2>. QED
    BY <1>1, <1>4, <2>1, <2>2 DEF Telling
<1>. QED
  BY <1>1, <1>5, <1>6, SameSession DEF RawInv, Opened, Listens, Powered

LEMMA RawInit == M!Init => RawInv
<1>. SUFFICES ASSUME M!Init  PROVE RawInv
  OBVIOUS
<1>1. /\ registered = <<>> /\ open = 0 /\ number = 0 /\ starts = <<>> /\ tracked = FALSE
      /\ steps = None0 /\ atWork = [s \in {} |-> None] /\ report = M!idle
      /\ listener = [v \in Versions |-> 0]
  BY DEF M!Init, M!nobody, None0
<1>2. RawTypes
  <2>1. registered \in Seq(Registration) /\ starts \in Seq(Queued)
    BY <1>1
  <2>2. listener \in [Versions -> Nat]
    BY <1>1
  <2>3. atWork = [s \in DOMAIN atWork |-> atWork[s]] /\ DOMAIN atWork = {}
    BY <1>1
  <2>4. report \in RawTask /\ steps \in Opening \cup Closing \cup {None0}
    BY <1>1 DEF RawTask
  <2>. QED
    BY <1>1, <2>1, <2>2, <2>3, <2>4 DEF RawTypes
<1>3. Opened
  BY <1>1, RawDistinct DEF Opened, Opening, Closing
<1>4. Listens /\ StopsComing /\ SessionStarts /\ Powered
  BY <1>1 DEF Listens, StopsComing, SessionStarts, Powered
<1>5. Telling
  BY <1>1 DEF Telling, M!idle
<1>. QED
  BY <1>2, <1>3, <1>4, <1>5 DEF RawInv

LEMMA RawNext == RawInv /\ M!Next => RawInv'
BY RawSetCallback, RawClose, RawDies, RawSet, RawTrack, RawStart, RawStop, RawServes, RawReport,
   RawCopy DEF M!Next

LEMMA RawStutter == RawInv /\ UNCHANGED raw => RawInv'
<1>. SUFFICES ASSUME RawInv, UNCHANGED raw  PROVE RawInv'
  OBVIOUS
<1>1. UNCHANGED <<registered, open, steps, listener, number, tracked, starts, atWork, report,
                  failedStart, keptMode>>
  BY DEF raw
<1>. QED
  BY <1>1, SameSession DEF RawInv, RawTypes, Opened, Listens, Powered, Telling

\* Each version hears the satellites it is told of: two of them are not one.
LEMMA Satellites ==
  ASSUME NEW s \in Satellite, NEW t \in Satellite, NEW v \in Versions,
         s.type = t.type /\ s.id = t.id /\ numbered(s) => s.fcn = t.fcn,
         M!convertGnssConstellationType(s.type, v) = M!convertGnssConstellationType(t.type, v),
         M!convertGnssSvid(s) = M!convertGnssSvid(t)
  PROVE  s = t
<1>1. /\ s.type \in {"GPS", "SBAS", "GLONASS", "QZSS", "BEIDOU", "GALILEO", "NAVIC"}
      /\ t.type \in {"GPS", "SBAS", "GLONASS", "QZSS", "BEIDOU", "GALILEO", "NAVIC"}
      /\ s.id \in 1 .. 414 /\ t.id \in 1 .. 414 /\ s.fcn \in 0 .. 14 /\ t.fcn \in 0 .. 14
      /\ s = [type |-> s.type, id |-> s.id, fcn |-> s.fcn]
      /\ t = [type |-> t.type, id |-> t.id, fcn |-> t.fcn]
      /\ s.type = "GLONASS" => s.id \in 65 .. 96 \/ (s.id = 255 /\ s.fcn > 0)
      /\ t.type = "GLONASS" => t.id \in 65 .. 96 \/ (t.id = 255 /\ t.fcn > 0)
  BY DEF Satellite
<1>2. s.type = t.type
  BY <1>1 DEF M!convertGnssConstellationType
<1>3. CASE s.type = "GLONASS"
  <2>1. \A sat \in {s, t} :
          M!convertGnssSvid(sat) = IF sat.id = 255 THEN sat.fcn + 92 ELSE sat.id - 64
    BY <1>1, <1>2, <1>3 DEF M!convertGnssSvid, M!firstOf, M!GLO_SV_PRN_SLOT_UNKNOWN
  <2>2. /\ s.id \in 65 .. 96 \/ (s.id = 255 /\ s.fcn \in 1 .. 14)
        /\ t.id \in 65 .. 96 \/ (t.id = 255 /\ t.fcn \in 1 .. 14)
    BY <1>1, <1>2, <1>3
  <2>3. s.id = t.id /\ (s.id = 255 => s.fcn = t.fcn)
    BY <2>1, <2>2
  <2>. QED
    BY <1>1, <1>2, <2>3 DEF numbered
<1>4. CASE s.type # "GLONASS"
  <2>1. M!firstOf(s.type) \in Int /\ M!firstOf(t.type) = M!firstOf(s.type)
    BY <1>2 DEF M!firstOf
  <2>2. /\ M!convertGnssSvid(s) = s.id - M!firstOf(s.type) + 1
        /\ M!convertGnssSvid(t) = t.id - M!firstOf(t.type) + 1
    BY <1>2, <1>4 DEF M!convertGnssSvid
  <2>3. s.id = t.id
    <3>1. PICK f \in Int : f = M!firstOf(s.type) /\ f = M!firstOf(t.type)
      BY <2>1
    <3>2. s.id - f + 1 = t.id - f + 1
      BY <2>2, <3>1
    <3>3. s.id \in Int /\ t.id \in Int
      BY <1>1
    <3>. QED
      BY ONLY <3>1, <3>2, <3>3
  <2>. QED
    BY <1>1, <1>2, <1>4, <2>3 DEF numbered
<1>. QED
  BY <1>3, <1>4

\* What is heard of a report is true of it.
Truly(n, v, out) ==
  /\ Len(out) = Len(n.sats) \/ (v = "1.0" /\ Len(out) = SVS_COUNT)
  /\ \A i, j \in DOMAIN out :
       out[i].constellation = out[j].constellation /\ out[i].svid = out[j].svid =>
         n.sats[i].sat = n.sats[j].sat
  /\ \A i \in DOMAIN out :
       /\ out[i].constellation = "UNKNOWN" => M!nameless(n.sats[i], v)
       /\ out[i].flags \subseteq n.sats[i].flags /\ out[i].biases \subseteq out[i].flags
       /\ n.sats[i].sat.type = "GLONASS" => out[i].svid \in 1 .. 32 \cup 93 .. 106
       /\ v = "2.1" => out[i].flags = n.sats[i].flags /\ out[i].state = n.sats[i].state
       /\ v # "1.0" => out[i].adr = n.sats[i].adr
       /\ v \in {"2.0", "2.1"} => out[i].code # "OTHER"
LEMMA HeardTruly ==
  ASSUME NEW n \in Notification, NEW v \in Versions,
         NEW out, out = M!convertGnssData(n, v).measurements
  PROVE  Truly(n, v, out)
<1>. DEFINE size == Len(n.sats)
            count == IF v = "1.0" /\ size > SVS_COUNT THEN SVS_COUNT ELSE size
<1>1. n.sats \in Seq(Observed) /\ size \in Nat /\ DOMAIN n.sats = 1 .. size /\ SVS_COUNT \in Nat
  BY MeasuredAssumption
<1>2. count \in Nat /\ count <= size /\ (count = size \/ (v = "1.0" /\ count = SVS_COUNT))
  BY <1>1
<1>3. out = [i \in 1 .. count |-> M!convertGnssMeasurement(n.sats[i], v)]
  BY DEF M!convertGnssData
<1>. HIDE DEF count, size
<1>4. DOMAIN out = 1 .. count /\ Len(out) = count
  BY <1>2, <1>3
<1>5. ASSUME NEW i \in DOMAIN out
      PROVE  /\ out[i] = M!convertGnssMeasurement(n.sats[i], v) /\ n.sats[i] \in Observed
             /\ i \in DOMAIN n.sats
  BY <1>1, <1>2, <1>3, <1>4
<1>6. ASSUME NEW i \in DOMAIN out, NEW j \in DOMAIN out,
             out[i].constellation = out[j].constellation, out[i].svid = out[j].svid
      PROVE  n.sats[i].sat = n.sats[j].sat
  <2>. DEFINE s == n.sats[i].sat
              t == n.sats[j].sat
  <2>1. s \in Satellite /\ t \in Satellite
    BY <1>5 DEF Observed
  <2>2. s.type = t.type /\ s.id = t.id /\ numbered(s) => s.fcn = t.fcn
    BY <1>5, MeasuredAssumption
  <2>3. /\ M!convertGnssConstellationType(s.type, v) = M!convertGnssConstellationType(t.type, v)
        /\ M!convertGnssSvid(s) = M!convertGnssSvid(t)
    <3>1. ASSUME NEW m
          PROVE  /\ M!convertGnssMeasurement(m, v).constellation =
                      M!convertGnssConstellationType(m.sat.type, v)
                 /\ M!convertGnssMeasurement(m, v).svid = M!convertGnssSvid(m.sat)
      BY DEF M!convertGnssMeasurement
    <3>2. /\ out[i] = M!convertGnssMeasurement(n.sats[i], v)
          /\ out[j] = M!convertGnssMeasurement(n.sats[j], v)
      BY <1>5
    <3>. QED
      BY ONLY <1>6, <3>1, <3>2
  <2>. HIDE DEF s, t
  <2>4. s = t
    BY <2>1, <2>2, <2>3, Satellites
  <2>. QED
    BY <2>4 DEF s, t
<1>7. ASSUME NEW i \in DOMAIN out
      PROVE  /\ out[i].constellation = "UNKNOWN" => M!nameless(n.sats[i], v)
             /\ out[i].flags \subseteq n.sats[i].flags /\ out[i].biases \subseteq out[i].flags
             /\ n.sats[i].sat.type = "GLONASS" => out[i].svid \in 1 .. 32 \cup 93 .. 106
             /\ v = "2.1" => out[i].flags = n.sats[i].flags /\ out[i].state = n.sats[i].state
             /\ v # "1.0" => out[i].adr = n.sats[i].adr
             /\ v \in {"2.0", "2.1"} => out[i].code # "OTHER"
  <2>. DEFINE m == n.sats[i]
  <2>1. m \in Observed /\ out[i] = M!convertGnssMeasurement(m, v)
    BY <1>5
  <2>. HIDE DEF m
  <2>2. out[i].constellation = "UNKNOWN" => M!nameless(m, v)
    BY <2>1 DEF M!convertGnssMeasurement, M!convertGnssConstellationType, M!nameless, Observed, Satellite
  <2>3. out[i].flags \subseteq m.flags /\ out[i].biases \subseteq out[i].flags
    BY <2>1 DEF M!convertGnssMeasurement, M!convertFlags, M!isbFlags, Versions
  <2>4. m.sat.type = "GLONASS" => out[i].svid \in 1 .. 32 \cup 93 .. 106
    <3>1. m.sat \in Satellite /\ out[i].svid = M!convertGnssSvid(m.sat)
      BY <2>1 DEF M!convertGnssMeasurement, Observed
    <3>. QED
      BY <3>1 DEF M!convertGnssSvid, M!firstOf, M!GLO_SV_PRN_SLOT_UNKNOWN, Satellite
  <2>5. v = "2.1" => out[i].flags = m.flags
    BY <2>1 DEF M!convertGnssMeasurement, M!convertFlags, M!isbFlags, Observed
  <2>6. v = "2.1" => out[i].state = m.state
    BY <2>1 DEF M!convertGnssMeasurement, M!convertGnssMeasurementsState, Observed
  <2>7. v # "1.0" => out[i].adr = m.adr
    BY <2>1 DEF M!convertGnssMeasurement, M!convertGnssMeasurementsAccumulatedDeltaRangeState, Observed
  <2>8. v \in {"2.0", "2.1"} => out[i].code # "OTHER"
    BY <2>1 DEF M!convertGnssMeasurement, M!convertGnssMeasurementsCodeType, Observed
  <2>. QED
    BY <2>2, <2>3, <2>4, <2>5, <2>6, <2>7, <2>8 DEF m
<1>. QED
  BY <1>2, <1>4, <1>6, <1>7 DEF size, Truly

LEMMA RawFollowed == RawInv => M!MeasurementsFollow
<1>. SUFFICES ASSUME RawInv  PROVE M!MeasurementsFollow
  OBVIOUS
<1>1. M!SessionFollows
  <2>. SUFFICES ASSUME steps = None0, starts = <<>>, ~failedStart
       PROVE  /\ open = 0 => atWork = [s \in {} |-> None]
              /\ open # 0 => /\ DOMAIN atWork = {number}
                             /\ keptMode \/ atWork[number] = registered[open].mode
    BY DEF M!SessionFollows, M!AtRest, None0
  <2>1. \A s \in DOMAIN atWork : tracked /\ s = number
    BY DEF RawInv, StopsComing, StopOf, current
  <2>2. tracked <=> open # 0
    BY DEF RawInv, Opened
  <2>3. open = 0 => atWork = [s \in {} |-> None]
    BY <2>1, <2>2 DEF RawInv, RawTypes
  <2>4. open # 0 => number \in DOMAIN atWork
    BY <2>2 DEF RawInv, SessionStarts
  <2>. QED
    BY <2>1, <2>3, <2>4 DEF RawInv, Powered
<1>2. M!HeardInCharge
  BY DEF M!HeardInCharge, RawInv, Telling
<1>3. M!HeardIsTrue
  <2>. SUFFICES ASSUME report.at = "tell", report.to # None
       PROVE  /\ Truly(report.n, registered[report.registration].version, M!told.measurements)
              /\ M!told.elapsed => "ELAPSED_REAL_TIME" \in report.n.clock.flags
    BY DEF M!HeardIsTrue, Truly
  <2>1. /\ report.n \in Notification /\ report.to \in Versions
        /\ registered[report.registration].version = report.to
    BY DEF RawInv, RawTypes, RawTask, M!idle, Telling
  <2>2. M!told.elapsed => "ELAPSED_REAL_TIME" \in report.n.clock.flags
    BY DEF M!told, M!convertGnssData, M!convertElapsedRealtimeNanos
  <2>3. M!told.measurements = M!convertGnssData(report.n, report.to).measurements
    BY DEF M!told
  <2>4. Truly(report.n, report.to, M!told.measurements)
    BY ONLY <2>1, <2>3, HeardTruly
  <2>. QED
    BY <2>1, <2>2, <2>4
<1>. QED
  BY <1>1, <1>2, <1>3 DEF M!MeasurementsFollow
-----------------------------------------------------------------------------
(* The parts side by side.                                                 *)

MCInv == IInv /\ HalInv /\ RawInv

LEMMA MCInvariant == MCSpec => []MCInv
<1>1. MCInit => MCInv
  BY InitHolds, HalInit, RawInit DEF MCInit, MCInv
<1>2. ASSUME MCInv, [Sessions \/ Hal \/ Raw]_<<part, sessions, hal, raw>>
      PROVE  MCInv'
  <2>1. UNCHANGED sessions => UNCHANGED vars
    BY DEF sessions, vars
  <2>2. IInv'
    BY <1>2, <2>1, NextHolds DEF MCInv, Sessions, Hal, Raw
  <2>3. HalInv'
    BY <1>2, HalNext, HalStutter DEF MCInv, Sessions, Hal, Raw
  <2>4. RawInv'
    BY <1>2, RawNext, RawStutter DEF MCInv, Sessions, Hal, Raw
  <2>. QED
    BY <2>2, <2>3, <2>4 DEF MCInv
<1>. QED
  BY <1>1, <1>2, PTL DEF MCSpec

\* A patient client that is gone leaves no session behind. The framework that registered
\* last has heard the capabilities of the engine unless they crossed its asking for them,
\* and reports and requests go to its callback and version; the engine measures for the
\* registration that is open, at its power mode, and what it is told is true of what was
\* measured. For any engine, any reports that fit, and any number of registrations.
THEOREM PartsFollowed == MCSpec => []ClientsFollowed
<1>1. MCInv => ClientsFollowed
  BY HalFollowed, RawFollowed, NoneLeft DEF MCInv, ClientsFollowed
<1>. QED
  BY <1>1, MCInvariant, PTL
=============================================================================
