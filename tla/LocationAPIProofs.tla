-------------------------- MODULE LocationAPIProofs --------------------------
(***************************************************************************)
(* Nothing of a client outlives it, and the modem reports what clients and *)
(* adapters ask for, for any number of clients, interfaces, sessions,      *)
(* commands and restarts.  The invariant of clients follows the life of an *)
(* object: before it is created and once it is deleted nothing names it;   *)
(* while it is in the map of clients no removal is under way; and while it *)
(* is taken apart, the interfaces awaited are those a removal is on its    *)
(* way to, of which there is one each, behind all additions.               *)
(***************************************************************************)
EXTENDS LocationAPI_MC, FiniteSetTheorems, SequenceTheorems, TLAPS

Session == [client : Client, id : Nat, kind : {"time", "distance", "routine", "trip"}]
Request == [op : {"start", "stop", "remove"}, interface : Interface, session : Session]
OfSession == [type : {"start", "stop"}, interface : Interface, session : Session]
Answer == [type : {"answer"}, interface : Interface, session : Session,
           op : {"start", "stop", "remove"}, ok : BOOLEAN]
OfClient ==
  [type : {"add", "remove", "capabilities"}, interface : Interface, client : Client]
  \cup [type : {"up"}, interface : Interface, client : {None}]
Message == OfClient \cup OfSession \cup Answer
Postponed ==
  [type : {"capabilities"}, interface : Interface, client : Client] \cup OfSession
ApiMessage == [type : {"open", "ssr"}, interface : Interface \cup {None}, client : {None}]
ClientMap == UNION {[D -> SUBSET Interface] : D \in SUBSET Client}

Adapter == [known : BOOLEAN, clients : SUBSET Client, sessions : SUBSET Session,
            pending : Seq(Postponed)]

TypeOK ==
  /\ gData \in [clientData : ClientMap,
                destroyClientData : ClientMap,
                loaded : SUBSET Interface, osFrameworkRefCount : Int]
  /\ object \in [Client -> {"none", "live", "deleted", "aborted"}]
  /\ adapter \in [Interface -> Adapter]
  /\ queue \in Seq(Message) /\ apiQueue \in Seq(ApiMessage)
  /\ modem \in [up : BOOLEAN, known : BOOLEAN, mask : SUBSET Interface]

\* Of a queue: a message is in it, one addition is behind no removal, and
\* there are not two removals.
is(m, type, i, c) == m.type = type /\ m.interface = i /\ m.client = c
Has(q, type, i, c) == \E n \in 1..Len(q) : is(q[n], type, i, c)
AddsFirst(q, i, c) == \A n \in 1..Len(q) : is(q[n], "add", i, c) =>
  \E m \in 1..Len(q) : m > n /\ is(q[m], "remove", i, c)
RemovedOnce(q, i, c) == \A m, n \in 1..Len(q) :
  is(q[m], "remove", i, c) /\ is(q[n], "remove", i, c) => m = n

Untouched == \A c \in Client : object[c] # "live" =>
  /\ c \notin DOMAIN gData.clientData /\ c \notin DOMAIN gData.destroyClientData
  /\ \A i \in Interface : /\ c \notin adapter[i].clients
                          /\ ~Has(queue, "add", i, c) /\ ~Has(queue, "remove", i, c)
Present == \A c \in DOMAIN gData.clientData :
  /\ c \notin DOMAIN gData.destroyClientData
  /\ \A i \in Interface :
       /\ ~Has(queue, "remove", i, c)
       /\ c \in adapter[i].clients \/ Has(queue, "add", i, c) => i \in gData.loaded
TakenApart == \A c \in DOMAIN gData.destroyClientData : \A i \in Interface :
  /\ i \in gData.destroyClientData[c] <=> Has(queue, "remove", i, c)
  /\ c \in adapter[i].clients => i \in gData.destroyClientData[c]
  /\ AddsFirst(queue, i, c) /\ RemovedOnce(queue, i, c)

IInv == TypeOK /\ Untouched /\ Present /\ TakenApart

\* What clients may stop, and what the modem is asked.
SessionTypes ==
  /\ calls \in Nat /\ asked \in SUBSET Request
  /\ issued \in SUBSET [interface : Interface, session : Session]
------------------------------------------------------------------------------
(* Messages for a set of interfaces: one for each.                         *)

LEMMA InOrder ==
  ASSUME NEW I \in SUBSET Interface
  PROVE  /\ Cardinality(I) \in Nat
         /\ inOrder(I) \in [1..Cardinality(I) -> I]
         /\ \A m, n \in 1..Cardinality(I) : inOrder(I)[m] = inOrder(I)[n] => m = n
         /\ \A i \in I : \E n \in 1..Cardinality(I) : inOrder(I)[n] = i
<1>. DEFINE n == Cardinality(I)
<1>1. IsFiniteSet(I)
  BY LocationAPIAssumption, FS_Subset
<1>2. n \in Nat /\ ExistsBijection(1..n, I)
  BY <1>1, FS_CardinalityType
<1>3. \E f \in [1..n -> I] : IsInjective(f)
  BY <1>2 DEF ExistsBijection, Bijection, Injection
<1>4. inOrder(I) \in [1..n -> I] /\ IsInjective(inOrder(I))
  BY <1>3 DEF inOrder, SetToSeq
<1>5. inOrder(I) \in Injection(1..n, I)
  BY <1>4 DEF Injection
<1>6. IsFiniteSet(1..n) /\ Cardinality(1..n) = n
  BY <1>2, FS_Interval
<1>7. inOrder(I) \in Surjection(1..n, I)
  BY <1>1, <1>5, <1>6, FS_Injection
<1>. QED
  BY <1>2, <1>4, <1>7 DEF IsInjective, Surjection

LEMMA FunctionIsSeq ==
  ASSUME NEW T, NEW n \in Nat, NEW s \in [1..n -> T]
  PROVE  s \in Seq(T) /\ Len(s) = n
OBVIOUS

LEMMA Messages ==
  ASSUME NEW I \in SUBSET Interface, NEW type, NEW c
  PROVE  /\ messages(type, I, c) \in Seq([type : {type}, interface : I, client : {c}])
         /\ \A i : Has(messages(type, I, c), type, i, c) <=> i \in I
         /\ \A t, i, d : t # type \/ d # c => ~Has(messages(type, I, c), t, i, d)
         /\ \A i : RemovedOnce(messages(type, I, c), i, c)
<1>. DEFINE n == Cardinality(I)
            s == messages(type, I, c)
            M == [type : {type}, interface : I, client : {c}]
<1>1. /\ n \in Nat /\ inOrder(I) \in [1..n -> I]
      /\ \A l, m \in 1..n : inOrder(I)[l] = inOrder(I)[m] => l = m
      /\ \A i \in I : \E m \in 1..n : inOrder(I)[m] = i
  BY InOrder
<1>2. s \in [1..n -> M]
  BY <1>1 DEF messages, msg
<1>3. \A m \in 1..n : s[m].type = type /\ s[m].interface = inOrder(I)[m] /\ s[m].client = c
  BY <1>1 DEF messages, msg
<1>. HIDE DEF n, s, M
<1>4. s \in Seq(M) /\ Len(s) = n
  BY <1>1, <1>2, FunctionIsSeq
<1>5. \A i : Has(s, type, i, c) <=> i \in I
  <2>1. ASSUME NEW i, Has(s, type, i, c)  PROVE i \in I
    BY <1>1, <1>3, <1>4, <2>1 DEF Has, is
  <2>2. ASSUME NEW i \in I  PROVE Has(s, type, i, c)
    BY <1>1, <1>3, <1>4 DEF Has, is
  <2>. QED
    BY <2>1, <2>2
<1>6. ASSUME NEW t, NEW i, NEW d, t # type \/ d # c  PROVE ~Has(s, t, i, d)
  BY <1>3, <1>4, <1>6 DEF Has, is
<1>7. ASSUME NEW i  PROVE RemovedOnce(s, i, c)
  BY <1>1, <1>3, <1>4 DEF RemovedOnce, is
<1>. QED
  BY <1>4, <1>5, <1>6, <1>7 DEF s, M
------------------------------------------------------------------------------
(* The queue of the adapters' task.                                        *)

LEMMA Posted ==
  ASSUME NEW q \in Seq(Message), NEW s \in Seq(Message)
  PROVE  /\ q \o s \in Seq(Message)
         /\ \A t, i, c : Has(q \o s, t, i, c) <=> Has(q, t, i, c) \/ Has(s, t, i, c)
         /\ \A i, c : AddsFirst(q, i, c) /\ ~Has(s, "add", i, c) => AddsFirst(q \o s, i, c)
         /\ \A i, c : Has(s, "remove", i, c) /\ ~Has(s, "add", i, c) => AddsFirst(q \o s, i, c)
         /\ \A i, c : RemovedOnce(q, i, c) /\ ~Has(s, "remove", i, c) => RemovedOnce(q \o s, i, c)
         /\ \A i, c : ~Has(q, "remove", i, c) /\ RemovedOnce(s, i, c) => RemovedOnce(q \o s, i, c)
<1>. DEFINE r == q \o s
            k == Len(q)
<1>1. /\ r \in Seq(Message) /\ k \in Nat /\ Len(s) \in Nat /\ Len(r) = k + Len(s)
      /\ \A n \in 1..k : n \in 1..Len(r) /\ r[n] = q[n]
      /\ \A n \in 1..Len(s) : k + n \in 1..Len(r) /\ r[k + n] = s[n]
      /\ \A n \in 1..Len(r) : n \in 1..k \/ n - k \in 1..Len(s)
  <2>. HIDE DEF Message
  <2>. QED
    BY ConcatProperties, LenProperties
<1>. HIDE DEF r, k
<1>2. \A t, i, c : Has(r, t, i, c) <=> Has(q, t, i, c) \/ Has(s, t, i, c)
  <2>1. ASSUME NEW t, NEW i, NEW c, Has(q, t, i, c)  PROVE Has(r, t, i, c)
    BY <1>1, <2>1 DEF Has, k
  <2>2. ASSUME NEW t, NEW i, NEW c, Has(s, t, i, c)  PROVE Has(r, t, i, c)
    <3>1. PICK n \in 1..Len(s) : is(s[n], t, i, c)
      BY <2>2 DEF Has
    <3>. QED
      BY <1>1, <3>1 DEF Has
  <2>3. ASSUME NEW t, NEW i, NEW c, Has(r, t, i, c)  PROVE Has(q, t, i, c) \/ Has(s, t, i, c)
    <3>1. PICK n \in 1..Len(r) : is(r[n], t, i, c)
      BY <2>3 DEF Has
    <3>2. n \in 1..k => is(q[n], t, i, c)
      BY <1>1, <3>1
    <3>3. n - k \in 1..Len(s) => is(s[n - k], t, i, c)
      <4>1. n = k + (n - k)
        BY <1>1
      <4>. QED
        BY <1>1, <3>1, <4>1
    <3>. QED
      BY <1>1, <3>2, <3>3 DEF Has, k
  <2>. QED
    BY <2>1, <2>2, <2>3
\* an element of r that neither s nor q has is in the other
<1>3. \A t, i, c : ~Has(s, t, i, c) => \A n \in 1..Len(r) : is(r[n], t, i, c) =>
        n \in 1..k /\ is(q[n], t, i, c)
  <2> SUFFICES ASSUME NEW t, NEW i, NEW c, ~Has(s, t, i, c), NEW n \in 1..Len(r),
                      is(r[n], t, i, c)
               PROVE  n \in 1..k /\ is(q[n], t, i, c)
    OBVIOUS
  <2>1. n - k \notin 1..Len(s)
    <3>1. n = k + (n - k)
      BY <1>1
    <3>. QED
      BY <1>1, <3>1 DEF Has
  <2>. QED
    BY <1>1, <2>1
<1>4. \A t, i, c : ~Has(q, t, i, c) => \A n \in 1..Len(r) : is(r[n], t, i, c) =>
        n - k \in 1..Len(s) /\ is(s[n - k], t, i, c)
  <2> SUFFICES ASSUME NEW t, NEW i, NEW c, ~Has(q, t, i, c), NEW n \in 1..Len(r),
                      is(r[n], t, i, c)
               PROVE  n - k \in 1..Len(s) /\ is(s[n - k], t, i, c)
    OBVIOUS
  <2>1. n \notin 1..k
    BY <1>1 DEF Has, k
  <2>2. n = k + (n - k)
    BY <1>1
  <2>. QED
    BY <1>1, <2>1, <2>2
<1>5. ASSUME NEW i, NEW c, AddsFirst(q, i, c), ~Has(s, "add", i, c)
      PROVE  AddsFirst(r, i, c)
  <2> SUFFICES ASSUME NEW n \in 1..Len(r), is(r[n], "add", i, c)
               PROVE  \E m \in 1..Len(r) : m > n /\ is(r[m], "remove", i, c)
    BY DEF AddsFirst
  <2>1. n \in 1..k /\ is(q[n], "add", i, c)
    BY <1>3, <1>5
  <2>2. PICK m \in 1..k : m > n /\ is(q[m], "remove", i, c)
    BY <1>5, <2>1 DEF AddsFirst, k
  <2>. QED
    BY <1>1, <2>2
<1>6. ASSUME NEW i, NEW c, Has(s, "remove", i, c), ~Has(s, "add", i, c)
      PROVE  AddsFirst(r, i, c)
  <2> SUFFICES ASSUME NEW n \in 1..Len(r), is(r[n], "add", i, c)
               PROVE  \E m \in 1..Len(r) : m > n /\ is(r[m], "remove", i, c)
    BY DEF AddsFirst
  <2>1. n \in 1..k
    BY <1>3, <1>6
  <2>2. PICK m \in 1..Len(s) : is(s[m], "remove", i, c)
    BY <1>6 DEF Has
  <2>3. k + m > n /\ k + m \in 1..Len(r) /\ is(r[k + m], "remove", i, c)
    BY <1>1, <2>1, <2>2
  <2>. QED
    BY <2>3
<1>7. ASSUME NEW i, NEW c, RemovedOnce(q, i, c), ~Has(s, "remove", i, c)
      PROVE  RemovedOnce(r, i, c)
  <2> SUFFICES ASSUME NEW m \in 1..Len(r), NEW n \in 1..Len(r),
                      is(r[m], "remove", i, c), is(r[n], "remove", i, c)
               PROVE  m = n
    BY DEF RemovedOnce
  <2>1. m \in 1..k /\ n \in 1..k /\ is(q[m], "remove", i, c) /\ is(q[n], "remove", i, c)
    BY <1>3, <1>7
  <2>. QED
    BY <1>7, <2>1 DEF RemovedOnce, k
<1>8. ASSUME NEW i, NEW c, ~Has(q, "remove", i, c), RemovedOnce(s, i, c)
      PROVE  RemovedOnce(r, i, c)
  <2> SUFFICES ASSUME NEW m \in 1..Len(r), NEW n \in 1..Len(r),
                      is(r[m], "remove", i, c), is(r[n], "remove", i, c)
               PROVE  m = n
    BY DEF RemovedOnce
  <2>1. /\ m - k \in 1..Len(s) /\ n - k \in 1..Len(s)
        /\ is(s[m - k], "remove", i, c) /\ is(s[n - k], "remove", i, c)
    BY <1>4, <1>8
  <2>2. m - k = n - k
    BY <1>8, <2>1 DEF RemovedOnce
  <2>. QED
    BY <1>1, <2>2
<1>. QED
  BY <1>1, <1>2, <1>5, <1>6, <1>7, <1>8 DEF r

LEMMA Taken ==
  ASSUME NEW q \in Seq(Message), q # <<>>
  PROVE  /\ Tail(q) \in Seq(Message) /\ Head(q) \in Message
         /\ \A t, i, c : Has(q, t, i, c) <=> Has(Tail(q), t, i, c) \/ is(Head(q), t, i, c)
         /\ \A i, c : AddsFirst(q, i, c) => AddsFirst(Tail(q), i, c)
         /\ \A i, c : RemovedOnce(q, i, c) => RemovedOnce(Tail(q), i, c)
         /\ \A i, c : RemovedOnce(q, i, c) /\ is(Head(q), "remove", i, c) =>
              ~Has(Tail(q), "remove", i, c)
<1>. DEFINE r == Tail(q)
<1>1. /\ r \in Seq(Message) /\ Head(q) \in Message /\ Head(q) = q[1]
      /\ Len(q) \in Nat \ {0} /\ Len(r) = Len(q) - 1
      /\ \A n \in 1..Len(r) : n + 1 \in 1..Len(q) /\ r[n] = q[n + 1]
      /\ \A n \in 1..Len(q) : n = 1 \/ (n - 1 \in 1..Len(r) /\ r[n - 1] = q[n])
  <2>. HIDE DEF Message
  <2>1. /\ r \in Seq(Message) /\ Head(q) \in Message
        /\ Len(r) = Len(q) - 1 /\ \A n \in 1..Len(r) : r[n] = q[n + 1]
    BY HeadTailProperties
  <2>2. Len(q) \in Nat \ {0} /\ Head(q) = q[1]
    BY EmptySeq
  <2>. QED
    BY <2>1, <2>2
<1>. HIDE DEF r
<1>2. \A t, i, c : Has(q, t, i, c) <=> Has(r, t, i, c) \/ is(Head(q), t, i, c)
  <2>1. ASSUME NEW t, NEW i, NEW c, Has(q, t, i, c)
        PROVE  Has(r, t, i, c) \/ is(Head(q), t, i, c)
    <3>1. PICK n \in 1..Len(q) : is(q[n], t, i, c)
      BY <2>1 DEF Has
    <3>. QED
      BY <1>1, <3>1 DEF Has
  <2>2. ASSUME NEW t, NEW i, NEW c, Has(r, t, i, c)  PROVE Has(q, t, i, c)
    <3>1. PICK n \in 1..Len(r) : is(r[n], t, i, c)
      BY <2>2 DEF Has
    <3>. QED
      BY <1>1, <3>1 DEF Has
  <2>3. ASSUME NEW t, NEW i, NEW c, is(Head(q), t, i, c)  PROVE Has(q, t, i, c)
    <3>1. 1 \in 1..Len(q)
      BY <1>1
    <3>. QED
      BY <1>1, <2>3, <3>1 DEF Has
  <2>. QED
    BY <2>1, <2>2, <2>3
<1>3. ASSUME NEW i, NEW c, AddsFirst(q, i, c)  PROVE AddsFirst(r, i, c)
  <2> SUFFICES ASSUME NEW n \in 1..Len(r), is(r[n], "add", i, c)
               PROVE  \E m \in 1..Len(r) : m > n /\ is(r[m], "remove", i, c)
    BY DEF AddsFirst
  <2>1. PICK m \in 1..Len(q) : m > n + 1 /\ is(q[m], "remove", i, c)
    BY <1>1, <1>3 DEF AddsFirst
  <2>2. m - 1 \in 1..Len(r) /\ m - 1 > n /\ is(r[m - 1], "remove", i, c)
    BY <1>1, <2>1
  <2>. QED
    BY <2>2
<1>4. ASSUME NEW i, NEW c, RemovedOnce(q, i, c)  PROVE RemovedOnce(r, i, c)
  <2> SUFFICES ASSUME NEW m \in 1..Len(r), NEW n \in 1..Len(r),
                      is(r[m], "remove", i, c), is(r[n], "remove", i, c)
               PROVE  m = n
    BY DEF RemovedOnce
  <2>1. m + 1 = n + 1
    BY <1>1, <1>4 DEF RemovedOnce
  <2>. QED
    BY <1>1, <2>1
<1>5. ASSUME NEW i, NEW c, RemovedOnce(q, i, c), is(Head(q), "remove", i, c),
             Has(r, "remove", i, c)
      PROVE  FALSE
  <2>1. PICK n \in 1..Len(r) : is(r[n], "remove", i, c)
    BY <1>5 DEF Has
  <2>2. 1 \in 1..Len(q) /\ is(q[1], "remove", i, c)
    BY <1>1, <1>5
  <2>3. n + 1 = 1
    BY <1>1, <1>5, <2>1, <2>2 DEF RemovedOnce
  <2>. QED
    BY <2>3
<1>. QED
  BY <1>1, <1>2, <1>3, <1>4, <1>5 DEF r

\* Where no removal is left, no addition is.
LEMMA NoneLeft ==
  ASSUME NEW q, NEW i, NEW c, AddsFirst(q, i, c), ~Has(q, "remove", i, c)
  PROVE  ~Has(q, "add", i, c)
BY DEF AddsFirst, Has
------------------------------------------------------------------------------
(* Steps that create, give up and delete no client.                        *)

LEMMA Maps ==
  ASSUME NEW f \in ClientMap, NEW c \in Client, NEW v \in SUBSET Interface
  PROVE  /\ With(f, c, v) \in ClientMap /\ Without(f, c) \in ClientMap
         /\ DOMAIN With(f, c, v) = DOMAIN f \cup {c} /\ With(f, c, v)[c] = v
         /\ DOMAIN Without(f, c) = DOMAIN f \ {c}
         /\ \A d \in DOMAIN f \ {c} : With(f, c, v)[d] = f[d] /\ Without(f, c)[d] = f[d]
         /\ DOMAIN f \subseteq Client
<1>1. PICK D \in SUBSET Client : f \in [D -> SUBSET Interface]
  BY DEF ClientMap
<1>2. With(f, c, v) \in [D \cup {c} -> SUBSET Interface] /\ Without(f, c) \in [D \ {c} -> SUBSET Interface]
  BY <1>1 DEF With, Without
<1>3. With(f, c, v) \in ClientMap /\ Without(f, c) \in ClientMap
  BY <1>2 DEF ClientMap
<1>. QED
  BY <1>1, <1>3 DEF With, Without

\* The part of the state that says who is a client, and what is awaited.
LEMMA DataFields ==
  ASSUME NEW M, NEW L, NEW d \in [clientData : M, destroyClientData : M, loaded : L,
                                 osFrameworkRefCount : Int],
         NEW e, NEW a \in M, NEW b \in M, NEW l \in L, NEW k \in Int,
         e = [d EXCEPT !.clientData = a, !.destroyClientData = b, !.loaded = l,
                       !.osFrameworkRefCount = k]
  PROVE  /\ e.clientData = a /\ e.destroyClientData = b /\ e.loaded = l
         /\ e \in [clientData : M, destroyClientData : M, loaded : L,
                   osFrameworkRefCount : Int]
OBVIOUS

\* What the rest of the invariant says depends on these alone.
LEMMA Rests ==
  ASSUME IInv, gData' = gData, object' = object,
         \A i \in Interface : adapter'[i].clients = adapter[i].clients,
         \A i, c : /\ Has(queue', "add", i, c) <=> Has(queue, "add", i, c)
                   /\ Has(queue', "remove", i, c) <=> Has(queue, "remove", i, c)
                   /\ AddsFirst(queue, i, c) => AddsFirst(queue', i, c)
                   /\ RemovedOnce(queue, i, c) => RemovedOnce(queue', i, c)
  PROVE  Untouched' /\ Present' /\ TakenApart'
<1>1. Untouched'
  BY DEF IInv, Untouched
<1>2. Present'
  BY DEF IInv, Present
<1>3. TakenApart'
  BY DEF IInv, TakenApart
<1>. QED
  BY <1>1, <1>2, <1>3

\* A message of another kind posted, or taken from the queue.
LEMMA OthersPosted ==
  ASSUME TypeOK, NEW s \in Seq(Message), queue' = queue \o s,
         \A i, c : ~Has(s, "add", i, c) /\ ~Has(s, "remove", i, c)
  PROVE  /\ queue' \in Seq(Message)
         /\ \A i, c : /\ Has(queue', "add", i, c) <=> Has(queue, "add", i, c)
                      /\ Has(queue', "remove", i, c) <=> Has(queue, "remove", i, c)
                      /\ AddsFirst(queue, i, c) => AddsFirst(queue', i, c)
                      /\ RemovedOnce(queue, i, c) => RemovedOnce(queue', i, c)
<1>1. queue \in Seq(Message)
  BY DEF TypeOK
<1>. QED
  BY <1>1, Posted

LEMMA OthersTaken ==
  ASSUME TypeOK, queue # <<>>, Head(queue).type \notin {"add", "remove"}
  PROVE  /\ Tail(queue) \in Seq(Message)
         /\ \A i, c : /\ Has(Tail(queue), "add", i, c) <=> Has(queue, "add", i, c)
                      /\ Has(Tail(queue), "remove", i, c) <=> Has(queue, "remove", i, c)
                      /\ AddsFirst(queue, i, c) => AddsFirst(Tail(queue), i, c)
                      /\ RemovedOnce(queue, i, c) => RemovedOnce(Tail(queue), i, c)
<1>1. queue \in Seq(Message)
  BY DEF TypeOK
<1>2. \A i, c : ~is(Head(queue), "add", i, c) /\ ~is(Head(queue), "remove", i, c)
  BY DEF is
<1>. QED
  BY <1>1, <1>2, Taken

\* A start and a stop of a session are messages of their own kind.
LEMMA SessionMessages ==
  ASSUME SessionTypes,
         \/ \E c \in Client, i \in Interface : \E kind \in Kinds[i] : startSession(c, i, kind)
         \/ \E x \in issued : stopSession(x)
         \/ returnToSender
  PROVE  \E m \in OfSession \cup Answer : queue' = Append(queue, m)
<1>1. ASSUME NEW c \in Client, NEW i \in Interface, NEW kind \in Kinds[i], startSession(c, i, kind)
      PROVE  \E m \in OfSession : queue' = Append(queue, m)
  <2>. DEFINE s == [client |-> c, id |-> calls, kind |-> kind]
  <2>1. s \in Session
    BY LocationAPIAssumption DEF SessionTypes, Session
  <2>2. queue' = Append(queue, about("start", i, s))
    BY <1>1 DEF startSession
  <2>. HIDE DEF s
  <2>. QED
    BY <2>1, <2>2 DEF about, OfSession
<1>2. ASSUME NEW x \in issued, stopSession(x)
      PROVE  \E m \in OfSession : queue' = Append(queue, m)
  <2>1. about("stop", x.interface, x.session) \in OfSession
    BY DEF SessionTypes, about, OfSession
  <2>. QED
    BY <1>2, <2>1 DEF stopSession
<1>3. ASSUME returnToSender  PROVE \E m \in Answer : queue' = Append(queue, m)
  <2>1. PICK r \in asked, ok \in BOOLEAN :
          queue' = Append(queue, [type |-> "answer", interface |-> r.interface,
                                  session |-> r.session, op |-> r.op, ok |-> ok])
    BY <1>3 DEF returnToSender
  <2>2. r \in Request
    BY DEF SessionTypes
  <2>3. [type |-> "answer", interface |-> r.interface, session |-> r.session, op |-> r.op,
         ok |-> ok] \in Answer
    BY <2>2 DEF Request, Answer
  <2>. QED
    BY <2>1, <2>3
<1>. QED
  BY <1>1, <1>2, <1>3

LEMMA SessionSaid ==
  ASSUME NEW m \in OfSession \cup Answer
  PROVE  /\ <<m>> \in Seq(Message) /\ Len(<<m>>) = 1 /\ <<m>>[1] = m
         /\ m.type \notin {"add", "remove"}
         /\ \A i, c : ~Has(<<m>>, "add", i, c) /\ ~Has(<<m>>, "remove", i, c)
<1>1. m \in Message /\ m.type \notin {"add", "remove"}
  BY DEF Message, OfSession, Answer
<1>2. <<m>> \in Seq(Message) /\ Len(<<m>>) = 1 /\ <<m>>[1] = m
  BY <1>1
<1>. QED
  BY <1>1, <1>2 DEF Has, is

LEMMA Starts ==
  ASSUME IInv, SessionTypes,
         \/ \E c \in Client, i \in Interface : \E kind \in Kinds[i] : startSession(c, i, kind)
         \/ \E x \in issued : stopSession(x)
         \/ returnToSender
  PROVE  IInv'
<1>1. UNCHANGED <<gData, object, adapter, apiQueue, modem>>
  BY DEF startSession, stopSession, returnToSender
<1>2. PICK m \in OfSession \cup Answer : queue' = Append(queue, m)
  BY SessionMessages
<1>3. /\ <<m>> \in Seq(Message)
      /\ \A i, c : ~Has(<<m>>, "add", i, c) /\ ~Has(<<m>>, "remove", i, c)
  BY SessionSaid
<1>4. queue' = queue \o <<m>>
  <2>1. queue \in Seq(Message)
    BY DEF IInv, TypeOK
  <2>. HIDE DEF Message
  <2>. QED
    BY <1>2, <2>1
<1>5. Untouched' /\ Present' /\ TakenApart' /\ queue' \in Seq(Message)
  BY <1>1, <1>3, <1>4, OthersPosted, Rests DEF IInv
<1>. QED
  BY <1>1, <1>5 DEF IInv, TypeOK

\* A message of the adapters: of an interface, to its adapter.
LEMMA Received ==
  ASSUME TypeOK, queue # <<>>
  PROVE  /\ Head(queue) \in Message /\ Head(queue).interface \in Interface
         /\ this \in Adapter /\ this = adapter[Head(queue).interface]
         /\ client = Head(queue).client
         /\ Head(queue).type \in {"add", "remove", "capabilities"} => client \in Client
         /\ Head(queue).type \in {"start", "stop"} => Head(queue) \in OfSession
         /\ Head(queue).type = "answer" => Head(queue) \in Answer
         /\ Head(queue).type \in {"start", "stop", "answer"} => subject \in Session
<1>1. queue \in Seq(Message)
  BY DEF TypeOK
<1>2. Head(queue) \in Message
  BY <1>1, Taken
<1>3. Head(queue).interface \in Interface
  BY <1>2 DEF Message, OfClient, OfSession, Answer
<1>4. Head(queue).type \in {"add", "remove", "capabilities"} => Head(queue).client \in Client
  BY <1>2 DEF Message, OfClient, OfSession, Answer
<1>5. Head(queue).type \in {"start", "stop"} => Head(queue) \in OfSession
  BY <1>2 DEF Message, OfClient, OfSession, Answer
<1>6. Head(queue).type = "answer" => Head(queue) \in Answer
  BY <1>2 DEF Message, OfClient, OfSession, Answer
<1>7. Head(queue).type \in {"start", "stop", "answer"} => subject \in Session
  BY <1>5, <1>6 DEF OfSession, Answer, subject
<1>. QED
  BY <1>2, <1>3, <1>4, <1>5, <1>6, <1>7 DEF TypeOK, this, client

LEMMA Becomes ==
  ASSUME TypeOK, queue # <<>>, NEW a \in Adapter, becomes(a)
  PROVE  /\ adapter' \in [Interface -> Adapter]
         /\ adapter'[Head(queue).interface] = a
         /\ \A i \in Interface : i # Head(queue).interface => adapter'[i] = adapter[i]
  BY Received DEF becomes, TypeOK

\* What is asked of the capabilities and of sessions leaves the clients alone.
LEMMA Asks ==
  ASSUME TypeOK, MsgRequestCapabilities \/ MsgStartSession \/ MsgStopSession \/ MsgResponse
  PROVE  /\ queue # <<>> /\ queue' = Tail(queue) /\ UNCHANGED <<gData, object, apiQueue, modem>>
         /\ Head(queue).type \in {"capabilities", "start", "stop", "answer"}
         /\ adapter' \in [Interface -> Adapter]
         /\ \A i \in Interface : adapter'[i].clients = adapter[i].clients
<1>1. /\ queue # <<>> /\ Head(queue).type \in {"capabilities", "start", "stop", "answer"}
      /\ queue' = Tail(queue)
      /\ UNCHANGED <<gData, object, apiQueue, modem>>
  BY DEF MsgRequestCapabilities, MsgStartSession, startUnless, MsgStopSession, MsgResponse, begin
<1>2. /\ this \in Adapter /\ Head(queue) \in Message /\ Head(queue).interface \in Interface
      /\ this = adapter[Head(queue).interface] /\ client = Head(queue).client
      /\ Head(queue).type # "capabilities" => subject \in Session
  BY <1>1, Received
<1>3. Head(queue).type # "answer" => Head(queue) \in Postponed
  <2>1. CASE Head(queue).type = "capabilities"
    BY <1>2, <2>1 DEF Message, OfClient, OfSession, Answer, Postponed
  <2>2. CASE Head(queue).type \in {"start", "stop"}
    BY <1>1, <2>2, Received DEF Postponed
  <2>. QED
    BY <1>1, <2>1, <2>2
<1>4. PICK a \in Adapter :
        (becomes(a) \/ (adapter' = adapter /\ a = this)) /\ a.clients = this.clients
  <2>1. CASE adapter' = adapter
    BY <1>2, <2>1
  <2>2. CASE postpone /\ Head(queue).type # "answer"
    <3>. DEFINE b == [this EXCEPT !.pending = Append(@, Head(queue))]
    <3>1. Append(this.pending, Head(queue)) \in Seq(Postponed)
      <4>. HIDE DEF Postponed
      <4>. QED
        BY <1>2, <1>3, <2>2 DEF Adapter
    <3>2. b \in Adapter /\ b.clients = this.clients
      BY <1>2, <3>1 DEF Adapter
    <3>3. becomes(b)
      BY <2>2 DEF postpone
    <3>. HIDE DEF b
    <3>. QED
      BY <3>2, <3>3
  <2>3. CASE \E S \in SUBSET Session : sessionsBecome(S)
    <3>1. PICK S \in SUBSET Session : becomes([this EXCEPT !.sessions = S])
      BY <2>3 DEF sessionsBecome
    <3>. DEFINE b == [this EXCEPT !.sessions = S]
    <3>2. b \in Adapter /\ b.clients = this.clients
      BY <1>2 DEF Adapter
    <3>3. becomes(b)
      BY <3>1
    <3>. HIDE DEF b
    <3>. QED
      BY <3>2, <3>3
  <2>4. this.sessions \in SUBSET Session
    BY <1>2 DEF Adapter
  <2>5. CASE MsgRequestCapabilities
    BY <2>1, <2>2, <2>5 DEF MsgRequestCapabilities, begin
  <2>6. CASE MsgStartSession
    <3>1. Head(queue).type = "start"
      BY <2>6 DEF MsgStartSession, startUnless, begin
    <3>2. this.sessions \cup {subject} \in SUBSET Session
      BY <1>2, <2>4, <3>1
    <3>3. \/ adapter' = adapter \/ postpone \/ sessionsBecome(this.sessions \cup {subject})
      BY <2>6 DEF MsgStartSession, startUnless
    <3>. QED
      BY <2>1, <2>2, <2>3, <3>1, <3>2, <3>3
  <2>7. CASE MsgStopSession
    <3>1. Head(queue).type = "stop"
      BY <2>7 DEF MsgStopSession, begin
    <3>2. this.sessions \ {subject} \in SUBSET Session
      BY <2>4
    <3>3. \/ adapter' = adapter \/ postpone \/ sessionsBecome(this.sessions \ {subject})
      BY <2>7 DEF MsgStopSession
    <3>. QED
      BY <2>1, <2>2, <2>3, <3>1, <3>2, <3>3
  <2>8. CASE MsgResponse
    <3>1. Head(queue).type = "answer"
      BY <2>8 DEF MsgResponse, begin
    <3>2. answered(this.sessions, Head(queue).op, Head(queue).ok) \in SUBSET Session
      BY <1>2, <2>4, <3>1 DEF answered
    <3>3. sessionsBecome(answered(this.sessions, Head(queue).op, Head(queue).ok))
      BY <2>8 DEF MsgResponse
    <3>. QED
      BY <2>3, <3>2, <3>3
  <2>. QED
    BY <2>5, <2>6, <2>7, <2>8
<1>5. /\ adapter' \in [Interface -> Adapter]
      /\ \A i \in Interface : adapter'[i].clients = adapter[i].clients
  <2>1. CASE becomes(a)
    BY <1>1, <1>2, <1>4, <2>1, Becomes
  <2>2. CASE adapter' = adapter
    BY <2>2 DEF TypeOK
  <2>. QED
    BY <1>4, <2>1, <2>2
<1>. QED
  BY <1>1, <1>5

LEMMA Asked ==
  ASSUME IInv, MsgRequestCapabilities \/ MsgStartSession \/ MsgStopSession \/ MsgResponse
  PROVE  IInv'
<1>1. /\ queue # <<>> /\ queue' = Tail(queue) /\ UNCHANGED <<gData, object, apiQueue, modem>>
      /\ Head(queue).type \notin {"add", "remove"}
      /\ adapter' \in [Interface -> Adapter]
      /\ \A i \in Interface : adapter'[i].clients = adapter[i].clients
  BY Asks DEF IInv
<1>2. Untouched' /\ Present' /\ TakenApart' /\ queue' \in Seq(Message)
  BY <1>1, OthersTaken, Rests DEF IInv
<1>. QED
  BY <1>1, <1>2 DEF IInv, TypeOK

\* The postponed messages follow.
LEMMA EngineUp ==
  ASSUME IInv, MsgHandleEngineUp
  PROVE  IInv'
<1>. DEFINE a == [this EXCEPT !.known = TRUE, !.pending = <<>>]
<1>1. /\ queue # <<>> /\ Head(queue).type = "up"
      /\ queue' = Tail(queue) \o this.pending /\ becomes(a)
      /\ UNCHANGED <<gData, object, apiQueue, modem>>
  BY DEF MsgHandleEngineUp, begin
<1>2. /\ this \in Adapter /\ Head(queue).interface \in Interface
      /\ this = adapter[Head(queue).interface]
  BY <1>1, Received DEF IInv
<1>3. /\ this.pending \in Seq(Postponed)
      /\ a \in Adapter /\ a.clients = this.clients /\ a.sessions = this.sessions
  <2>1. <<>> \in Seq(Postponed)
    OBVIOUS
  <2>. HIDE DEF Postponed
  <2>. QED
    BY <1>2, <2>1 DEF Adapter
<1>. HIDE DEF a
<1>4. /\ adapter' \in [Interface -> Adapter]
      /\ \A i \in Interface : /\ adapter'[i].clients = adapter[i].clients
                              /\ adapter'[i].sessions = adapter[i].sessions
  BY <1>1, <1>2, <1>3, Becomes DEF IInv
<1>5. this.pending \in Seq(Message)
  <2>1. Postponed \subseteq Message
    BY DEF Postponed, Message, OfClient
  <2>. QED
    BY <1>3, <2>1, SeqMonotonic
<1>6. \A i, c : ~Has(this.pending, "add", i, c) /\ ~Has(this.pending, "remove", i, c)
  <2>1. \A n \in 1..Len(this.pending) : this.pending[n].type \notin {"add", "remove"}
    <3>1. \A n \in 1..Len(this.pending) : this.pending[n] \in Postponed
      BY <1>3, ElementOfSeq
    <3>2. \A m \in Postponed : m.type \notin {"add", "remove"}
      BY DEF Postponed, OfSession
    <3>. QED
      BY <3>1, <3>2
  <2>. QED
    BY <2>1 DEF Has, is
<1>7. /\ queue' \in Seq(Message)
      /\ \A i, c : /\ Has(queue', "add", i, c) <=> Has(queue, "add", i, c)
                   /\ Has(queue', "remove", i, c) <=> Has(queue, "remove", i, c)
                   /\ AddsFirst(queue, i, c) => AddsFirst(queue', i, c)
                   /\ RemovedOnce(queue, i, c) => RemovedOnce(queue', i, c)
  <2>1. /\ Tail(queue) \in Seq(Message)
        /\ \A i, c : /\ Has(Tail(queue), "add", i, c) <=> Has(queue, "add", i, c)
                     /\ Has(Tail(queue), "remove", i, c) <=> Has(queue, "remove", i, c)
                     /\ AddsFirst(queue, i, c) => AddsFirst(Tail(queue), i, c)
                     /\ RemovedOnce(queue, i, c) => RemovedOnce(Tail(queue), i, c)
    BY <1>1, OthersTaken DEF IInv
  <2>. QED
    BY <1>1, <1>5, <1>6, <2>1, Posted
<1>8. Untouched' /\ Present' /\ TakenApart'
  BY <1>1, <1>4, <1>7, Rests
<1>. QED
  BY <1>1, <1>4, <1>7, <1>8 DEF IInv, TypeOK

\* The task of LocApiBase: adapters are told that the modem is up.
LEMMA Opens ==
  ASSUME IInv, NEW I \in SUBSET Interface, open(I), apiQueue' = Tail(apiQueue),
         apiQueue # <<>>, UNCHANGED <<gData, object, adapter>>
  PROVE  IInv'
<1>1. /\ modem' \in [up : BOOLEAN, known : BOOLEAN, mask : SUBSET Interface]
      /\ \/ queue' = queue \o messages("up", I, None)
         \/ queue' = queue
  <2>1. modem \in [up : BOOLEAN, known : BOOLEAN, mask : SUBSET Interface]
    BY DEF IInv, TypeOK
  <2>2. getEvtMask \in SUBSET Interface
    BY DEF getEvtMask, IInv, TypeOK
  <2>. QED
    BY <2>1, <2>2 DEF open
<1>2. apiQueue' \in Seq(ApiMessage)
  <2>. HIDE DEF ApiMessage
  <2>. QED
    BY HeadTailProperties DEF IInv, TypeOK
<1>3. /\ messages("up", I, None) \in Seq(Message)
      /\ \A i, c : /\ ~Has(messages("up", I, None), "add", i, c)
                   /\ ~Has(messages("up", I, None), "remove", i, c)
  <2>1. [type : {"up"}, interface : I, client : {None}] \subseteq Message
    BY DEF Message, OfClient
  <2>2. messages("up", I, None) \in Seq([type : {"up"}, interface : I, client : {None}])
    BY Messages
  <2>3. messages("up", I, None) \in Seq(Message)
    BY <2>1, <2>2, SeqMonotonic
  <2>. QED
    BY <2>3, Messages
<1>4. Untouched' /\ Present' /\ TakenApart' /\ queue' \in Seq(Message)
  <2>1. CASE queue' = queue
    BY <2>1, Rests DEF IInv, TypeOK
  <2>2. CASE queue' = queue \o messages("up", I, None)
    BY <1>3, <2>2, OthersPosted, Rests DEF IInv
  <2>. QED
    BY <1>1, <2>1, <2>2
<1>. QED
  BY <1>1, <1>2, <1>4 DEF IInv, TypeOK

LEMMA ApiTaskRuns ==
  ASSUME IInv, LocOpenMsg \/ LocSsrMsg
  PROVE  IInv'
<1>1. apiQueue # <<>> /\ apiQueue' = Tail(apiQueue) /\ UNCHANGED <<gData, object, adapter>>
  BY DEF LocOpenMsg, LocSsrMsg
<1>2. Head(apiQueue) \in ApiMessage
  <2>. HIDE DEF ApiMessage
  <2>. QED
    BY <1>1, HeadTailProperties DEF IInv, TypeOK
<1>3. {Head(apiQueue).interface} \ {None} \in SUBSET Interface
      /\ gData.loaded \in SUBSET Interface
  BY <1>2 DEF ApiMessage, IInv, TypeOK
<1>. QED
  BY <1>1, <1>3, Opens DEF LocOpenMsg, LocSsrMsg

\* The modem comes up, or back.
LEMMA EngineDown ==
  ASSUME IInv, handleEngineDownEvent
  PROVE  IInv'
<1>1. /\ modem' = [modem EXCEPT !.up = TRUE, !.mask = {}]
      /\ apiQueue' = Append(apiQueue, msg("ssr", None, None))
      /\ UNCHANGED <<gData, object, adapter, queue>>
  BY DEF handleEngineDownEvent
<1>2. msg("ssr", None, None) \in ApiMessage
  BY DEF msg, ApiMessage
<1>3. apiQueue' \in Seq(ApiMessage)
  <2>. HIDE DEF ApiMessage
  <2>. QED
    BY <1>1, <1>2 DEF IInv, TypeOK
<1>4. modem' \in [up : BOOLEAN, known : BOOLEAN, mask : SUBSET Interface]
  BY <1>1 DEF IInv, TypeOK
<1>5. Untouched' /\ Present' /\ TakenApart'
  BY <1>1, Rests
<1>. QED
  BY <1>1, <1>3, <1>4, <1>5 DEF IInv, TypeOK
------------------------------------------------------------------------------
(* Clients are created, change their callbacks and are given up.           *)

LEMMA Loads ==
  ASSUME TypeOK, NEW want \in SUBSET Interface, load(want)
  PROVE  /\ adapter' \in [Interface -> Adapter] /\ apiQueue' \in Seq(ApiMessage)
         /\ \A i \in Interface : /\ adapter'[i].clients = adapter[i].clients
                                 /\ adapter'[i].sessions = adapter[i].sessions
<1>. DEFINE new == (want \cap Library) \ gData.loaded
<1>1. new \in SUBSET Interface
  OBVIOUS
<1>2. /\ adapter' = [i \in Interface |->
                       IF i \in new THEN [adapter[i] EXCEPT !.known = modem.known]
                       ELSE adapter[i]]
      /\ apiQueue' = apiQueue \o messages("open", new, None)
  BY DEF load
<1>. HIDE DEF new
<1>3. messages("open", new, None) \in Seq(ApiMessage)
  <2>1. [type : {"open"}, interface : new, client : {None}] \subseteq ApiMessage
    BY <1>1 DEF ApiMessage
  <2>2. messages("open", new, None) \in Seq([type : {"open"}, interface : new, client : {None}])
    BY <1>1, Messages
  <2>. QED
    BY <2>1, <2>2, SeqMonotonic
<1>4. apiQueue' \in Seq(ApiMessage)
  BY <1>2, <1>3, ConcatProperties DEF TypeOK
<1>5. \A i \in Interface : /\ adapter'[i] \in Adapter
                           /\ adapter'[i].clients = adapter[i].clients
                           /\ adapter'[i].sessions = adapter[i].sessions
  BY <1>2 DEF TypeOK, Adapter
<1>. QED
  BY <1>2, <1>4, <1>5

LEMMA Adds ==
  ASSUME IInv, NEW c \in Client, NEW callbacks \in Callbacks,
         createInstance(c, callbacks) \/ updateCallbacks(c, callbacks)
  PROVE  IInv'
<1>. DEFINE I == addTo(callbacks)
            s == messages("add", I, c)
<1>1. callbacks \in SUBSET Interface /\ I \in SUBSET Interface
  BY LocationAPIAssumption DEF addTo
<1>2. /\ load(callbacks) /\ UNCHANGED modem
      /\ gData'.clientData = With(gData.clientData, c, callbacks)
      /\ gData'.destroyClientData = gData.destroyClientData
      /\ gData'.loaded = gData.loaded \cup I
      /\ gData' \in [clientData : ClientMap,
                     destroyClientData : ClientMap,
                     loaded : SUBSET Interface, osFrameworkRefCount : Int]
  <2>1. /\ gData \in [clientData : ClientMap,
                      destroyClientData : ClientMap,
                      loaded : SUBSET Interface, osFrameworkRefCount : Int]
        /\ With(gData.clientData, c, callbacks) \in ClientMap
    BY <1>1, Maps DEF IInv, TypeOK
  <2>. DEFINE with(k) == [gData EXCEPT !.clientData = With(gData.clientData, c, callbacks),
                                       !.destroyClientData = gData.destroyClientData,
                                       !.loaded = gData.loaded \cup I,
                                       !.osFrameworkRefCount = k]
  <2>2. PICK k \in Int : gData' = with(k)
    <3>1. CASE createInstance(c, callbacks)
      <4>1. gData' = with(gData.osFrameworkRefCount + 1)
        BY <2>1, <3>1 DEF createInstance
      <4>2. gData.osFrameworkRefCount + 1 \in Int
        BY <2>1
      <4>. HIDE DEF with
      <4>. QED
        BY <4>1, <4>2
    <3>2. CASE updateCallbacks(c, callbacks)
      <4>1. gData' = with(gData.osFrameworkRefCount)
        BY <2>1, <3>2 DEF updateCallbacks
      <4>2. gData.osFrameworkRefCount \in Int
        BY <2>1
      <4>. HIDE DEF with
      <4>. QED
        BY <4>1, <4>2
    <3>. QED
      BY <3>1, <3>2
  <2>3. load(callbacks) /\ UNCHANGED modem
    BY DEF createInstance, updateCallbacks
  <2>4. /\ gData.destroyClientData \in ClientMap
        /\ gData.loaded \cup I \in SUBSET Interface
    BY <1>1, <2>1
  <2>. HIDE DEF I
  <2>. QED
    BY <2>1, <2>2, <2>3, <2>4, DataFields
<1>3. /\ c \notin DOMAIN gData.destroyClientData
      /\ \A i \in Interface : /\ ~Has(queue, "remove", i, c)
                              /\ c \in adapter[i].clients \/ Has(queue, "add", i, c) =>
                                   i \in gData.loaded
  BY DEF createInstance, updateCallbacks, IInv, Untouched, Present
<1>4. /\ object' \in [Client -> {"none", "live", "deleted", "aborted"}]
      /\ object'[c] = "live" /\ \A d \in Client : d # c => object'[d] = object[d]
  <2>1. object \in [Client -> {"none", "live", "deleted", "aborted"}]
    BY DEF IInv, TypeOK
  <2>2. CASE createInstance(c, callbacks)
    <3>1. object' = [object EXCEPT ![c] = "live"]
      BY <2>2 DEF createInstance
    <3>. QED
      BY ONLY <2>1, <3>1, c \in Client
  <2>3. CASE updateCallbacks(c, callbacks)
    <3>1. c \in DOMAIN gData.clientData /\ object' = object
      BY <2>3 DEF updateCallbacks
    <3>2. object[c] = "live"
      BY <3>1 DEF IInv, Untouched
    <3>. QED
      BY ONLY <2>1, <3>1, <3>2, c \in Client
  <2>. QED
    BY <2>2, <2>3
<1>5. /\ adapter' \in [Interface -> Adapter] /\ apiQueue' \in Seq(ApiMessage)
      /\ \A i \in Interface : /\ adapter'[i].clients = adapter[i].clients
                              /\ adapter'[i].sessions = adapter[i].sessions
  BY <1>1, <1>2, Loads DEF IInv
<1>6. /\ s \in Seq(Message)
      /\ \A i : Has(s, "add", i, c) <=> i \in I
      /\ \A t, i, d : t # "add" \/ d # c => ~Has(s, t, i, d)
  <2>1. [type : {"add"}, interface : I, client : {c}] \subseteq Message
    BY <1>1 DEF Message, OfClient
  <2>2. s \in Seq([type : {"add"}, interface : I, client : {c}])
    BY <1>1, Messages
  <2>3. s \in Seq(Message)
    <3>. HIDE DEF s
    <3>. QED
      BY <2>1, <2>2, SeqMonotonic
  <2>. QED
    BY <1>1, <2>3, Messages
<1>7. PICK more \in Seq(Message) :
        /\ queue' = (queue \o s) \o more
        /\ \A i, d : ~Has(more, "add", i, d) /\ ~Has(more, "remove", i, d)
  <2>0. queue \o s \in Seq(Message)
    BY <1>6, Posted DEF IInv, TypeOK
  <2>1. CASE queue' = queue \o s
    <3>1. <<>> \in Seq(Message) /\ Len(<<>>) = 0 /\ (queue \o s) \o <<>> = queue \o s
      BY <2>0, ConcatEmptySeq
    <3>2. \A t, i, d : ~Has(<<>>, t, i, d)
      <4>1. \A n \in 1..Len(<<>>) : FALSE
        BY <3>1
      <4>. QED
        BY <4>1 DEF Has
    <3>. QED
      BY <2>1, <3>1, <3>2
  <2>2. CASE queue' = queue \o s \o <<msg("capabilities", inOrder(I)[1], c)>> /\ I # {}
    <3>. DEFINE m == msg("capabilities", inOrder(I)[1], c)
    <3>1. inOrder(I)[1] \in Interface
      <4>1. /\ Cardinality(I) \in Nat /\ inOrder(I) \in [1..Cardinality(I) -> I]
            /\ \A i \in I : \E n \in 1..Cardinality(I) : inOrder(I)[n] = i
        BY <1>1, InOrder
      <4>2. 1 \in 1..Cardinality(I)
        BY <2>2, <4>1
      <4>. QED
        BY <1>1, <4>1, <4>2
    <3>2. m \in Message /\ m.type = "capabilities"
      BY <3>1 DEF msg, Message, OfClient
    <3>. HIDE DEF m
    <3>3. <<m>> \in Seq(Message) /\ Len(<<m>>) = 1 /\ <<m>>[1] = m
      BY <3>2
    <3>4. \A i, d : ~Has(<<m>>, "add", i, d) /\ ~Has(<<m>>, "remove", i, d)
      BY <3>2, <3>3 DEF Has, is
    <3>. QED
      BY <2>2, <3>3, <3>4 DEF m
  <2>3. \/ queue' = queue \o s
        \/ queue' = queue \o s \o <<>>
        \/ queue' = queue \o s \o <<msg("capabilities", inOrder(I)[1], c)>> /\ I # {}
    BY DEF createInstance, updateCallbacks
  <2>4. queue \o s \o <<>> = queue \o s
    BY <2>0, ConcatEmptySeq
  <2>. QED
    BY <2>1, <2>2, <2>3, <2>4
<1>. HIDE DEF I, s
<1>8. /\ queue' \in Seq(Message)
      /\ \A i, d : /\ Has(queue', "remove", i, d) <=> Has(queue, "remove", i, d)
                   /\ Has(queue', "add", i, d) <=>
                        Has(queue, "add", i, d) \/ (d = c /\ i \in I)
                   /\ d # c /\ AddsFirst(queue, i, d) => AddsFirst(queue', i, d)
                   /\ RemovedOnce(queue, i, d) => RemovedOnce(queue', i, d)
  <2>. DEFINE r == queue \o s
  <2>1. /\ r \in Seq(Message)
        /\ \A i, d : /\ Has(r, "remove", i, d) <=> Has(queue, "remove", i, d)
                     /\ Has(r, "add", i, d) <=>
                          Has(queue, "add", i, d) \/ (d = c /\ i \in I)
                     /\ d # c /\ AddsFirst(queue, i, d) => AddsFirst(r, i, d)
                     /\ RemovedOnce(queue, i, d) => RemovedOnce(r, i, d)
    <3>1. queue \in Seq(Message)
      BY DEF IInv, TypeOK
    <3>. QED
      BY <1>6, <3>1, Posted
  <2>. HIDE DEF r
  <2>2. queue' = r \o more
    BY <1>7 DEF r
  <2>. QED
    BY <1>7, <2>1, <2>2, Posted
<1>9. TypeOK'
  BY <1>2, <1>4, <1>5, <1>8 DEF IInv, TypeOK
<1>10. /\ DOMAIN gData'.clientData = DOMAIN gData.clientData \cup {c}
       /\ DOMAIN gData.destroyClientData \subseteq Client
       /\ DOMAIN gData.clientData \subseteq Client
  <2>1. gData.clientData \in ClientMap
        /\ gData.destroyClientData \in ClientMap
    BY DEF IInv, TypeOK
  <2>. QED
    <3>1. DOMAIN With(gData.clientData, c, callbacks) = DOMAIN gData.clientData \cup {c}
      BY <1>1, <2>1, Maps
    <3>2. DOMAIN gData.clientData \subseteq Client /\ DOMAIN gData.destroyClientData \subseteq Client
      BY <1>1, <2>1, Maps
    <3>. QED
      BY <1>2, <3>1, <3>2
<1>11. Untouched'
  BY <1>2, <1>4, <1>5, <1>8, <1>10 DEF IInv, Untouched
<1>12. Present'
  <2> SUFFICES ASSUME NEW d \in DOMAIN gData'.clientData
               PROVE  /\ d \notin DOMAIN gData'.destroyClientData
                      /\ \A i \in Interface :
                           /\ ~Has(queue', "remove", i, d)
                           /\ d \in adapter'[i].clients \/ Has(queue', "add", i, d) =>
                                i \in gData'.loaded
    BY DEF Present
  <2>1. CASE d = c
    BY <1>2, <1>3, <1>5, <1>8, <2>1
  <2>2. CASE d # c
    BY <1>2, <1>5, <1>8, <1>10, <2>2 DEF IInv, Present
  <2>. QED
    BY <2>1, <2>2
<1>13. TakenApart'
  BY <1>2, <1>3, <1>5, <1>8 DEF IInv, TakenApart
<1>. QED
  BY <1>9, <1>11, <1>12, <1>13 DEF IInv

LEMMA Destroys ==
  ASSUME IInv, NEW c \in Client, NEW withCallback \in BOOLEAN, destroy(c, withCallback)
  PROVE  IInv'
<1>. DEFINE wait == gData.loaded
            s == messages("remove", wait, c)
<1>1. /\ c \in DOMAIN gData.clientData /\ queue' = queue \o s
      /\ UNCHANGED <<adapter, apiQueue, modem>>
      /\ wait \in SUBSET Interface
  BY DEF destroy, takenApart, IInv, TypeOK
<1>2. /\ gData'.clientData = Without(gData.clientData, c)
      /\ gData'.destroyClientData =
           IF withCallback /\ wait # {} THEN With(gData.destroyClientData, c, wait)
           ELSE gData.destroyClientData
      /\ gData'.loaded = gData.loaded
      /\ gData' \in [clientData : ClientMap,
                     destroyClientData : ClientMap,
                     loaded : SUBSET Interface, osFrameworkRefCount : Int]
      /\ gData.clientData \in ClientMap
      /\ gData.destroyClientData \in ClientMap
  <2>1. /\ gData \in [clientData : ClientMap,
                      destroyClientData : ClientMap,
                      loaded : SUBSET Interface, osFrameworkRefCount : Int]
        /\ gData.clientData \in ClientMap
        /\ gData.destroyClientData \in ClientMap
    BY DEF IInv, TypeOK
  <2>2. /\ Without(gData.clientData, c) \in ClientMap
        /\ With(gData.destroyClientData, c, wait) \in ClientMap
    BY <1>1, <2>1, Maps
  <2>. DEFINE b == IF withCallback /\ wait # {} THEN With(gData.destroyClientData, c, wait)
                   ELSE gData.destroyClientData
              k == gData.osFrameworkRefCount - 1
  <2>3. gData' = [gData EXCEPT !.clientData = Without(gData.clientData, c),
                               !.destroyClientData = b, !.loaded = gData.loaded,
                               !.osFrameworkRefCount = k]
    BY <2>1 DEF destroy, takenApart
  <2>4. b \in ClientMap /\ k \in Int /\ gData.loaded \in SUBSET Interface
    BY <2>1, <2>2
  <2>. HIDE DEF b, k, wait
  <2>5. /\ gData'.clientData = Without(gData.clientData, c)
        /\ gData'.destroyClientData = b /\ gData'.loaded = gData.loaded
        /\ gData' \in [clientData : ClientMap,
                       destroyClientData : ClientMap,
                       loaded : SUBSET Interface, osFrameworkRefCount : Int]
    BY <2>1, <2>2, <2>3, <2>4, DataFields
  <2>. QED
    BY <2>1, <2>5 DEF b
<1>3. /\ c \notin DOMAIN gData.destroyClientData
      /\ \A i \in Interface : /\ ~Has(queue, "remove", i, c)
                              /\ c \in adapter[i].clients \/ Has(queue, "add", i, c) => i \in wait
  BY <1>1 DEF IInv, Present
<1>4. /\ object' = [object EXCEPT ![c] = IF wait # {} THEN @
                                         ELSE IF withCallback THEN "deleted" ELSE "aborted"]
      /\ object[c] = "live" /\ object \in [Client -> {"none", "live", "deleted", "aborted"}]
  BY <1>1 DEF destroy, takenApart, IInv, Untouched, TypeOK
<1>5. /\ s \in Seq(Message)
      /\ \A i : Has(s, "remove", i, c) <=> i \in wait
      /\ \A t, i, d : t # "remove" \/ d # c => ~Has(s, t, i, d)
      /\ \A i : RemovedOnce(s, i, c)
  <2>1. [type : {"remove"}, interface : wait, client : {c}] \subseteq Message
    BY <1>1 DEF Message, OfClient
  <2>2. s \in Seq([type : {"remove"}, interface : wait, client : {c}])
    BY <1>1, Messages
  <2>3. s \in Seq(Message)
    <3>. HIDE DEF s
    <3>. QED
      BY <2>1, <2>2, SeqMonotonic
  <2>. QED
    BY <1>1, <2>3, Messages
<1>. HIDE DEF s, wait
<1>6. /\ queue' \in Seq(Message)
      /\ \A i, d : /\ Has(queue', "add", i, d) <=> Has(queue, "add", i, d)
                   /\ Has(queue', "remove", i, d) <=>
                        Has(queue, "remove", i, d) \/ (d = c /\ i \in wait)
                   /\ AddsFirst(queue, i, d) => AddsFirst(queue', i, d)
                   /\ d # c /\ RemovedOnce(queue, i, d) => RemovedOnce(queue', i, d)
      /\ \A i : /\ i \in wait => AddsFirst(queue', i, c)
                /\ ~Has(queue, "remove", i, c) => RemovedOnce(queue', i, c)
  <2>1. queue \in Seq(Message)
    BY DEF IInv, TypeOK
  <2>. QED
    BY <1>1, <1>5, <2>1, Posted
<1>7. \A i \in Interface : AddsFirst(queue', i, c)
  <2>1. \A i \in Interface : ~Has(queue', "add", i, c) => AddsFirst(queue', i, c)
    BY DEF Has, AddsFirst
  <2>. QED
    BY <1>3, <1>6, <2>1
<1>8. /\ DOMAIN gData'.clientData = DOMAIN gData.clientData \ {c}
      /\ withCallback /\ wait # {} =>
           /\ DOMAIN gData'.destroyClientData = DOMAIN gData.destroyClientData \cup {c}
           /\ gData'.destroyClientData[c] = wait
           /\ \A d \in DOMAIN gData.destroyClientData :
                gData'.destroyClientData[d] = gData.destroyClientData[d]
      /\ ~(withCallback /\ wait # {}) => gData'.destroyClientData = gData.destroyClientData
      /\ DOMAIN gData.destroyClientData \subseteq Client
  <2>0. /\ gData.clientData \in ClientMap
        /\ gData.destroyClientData \in ClientMap
        /\ wait \in SUBSET Interface
    BY <1>1, <1>2
  <2>1. DOMAIN Without(gData.clientData, c) = DOMAIN gData.clientData \ {c}
    BY <2>0, Maps
  <2>2. /\ DOMAIN gData.destroyClientData \subseteq Client
        /\ DOMAIN With(gData.destroyClientData, c, wait) = DOMAIN gData.destroyClientData \cup {c}
        /\ With(gData.destroyClientData, c, wait)[c] = wait
        /\ \A d \in DOMAIN gData.destroyClientData \ {c} :
             With(gData.destroyClientData, c, wait)[d] = gData.destroyClientData[d]
    <3>. DEFINE f == gData.destroyClientData
    <3>1. f \in ClientMap
      BY <2>0
    <3>. HIDE DEF f
    <3>2. DOMAIN f \subseteq Client
      BY <2>0, <3>1, Maps
    <3>3. DOMAIN With(f, c, wait) = DOMAIN f \cup {c}
      BY <2>0, <3>1, Maps
    <3>4. With(f, c, wait)[c] = wait
      BY DEF With
    <3>5. \A d \in DOMAIN f \ {c} : With(f, c, wait)[d] = f[d]
      <4>1. ASSUME NEW d \in DOMAIN f \ {c}  PROVE With(f, c, wait)[d] = f[d]
        BY DEF With
      <4>. QED
        BY <4>1
    <3>. QED
      BY <3>2, <3>3, <3>4, <3>5 DEF f
  <2>. QED
    BY <1>2, <1>3, <2>1, <2>2
<1>9. TypeOK'
  BY <1>1, <1>2, <1>4, <1>6 DEF IInv, TypeOK
<1>10. Untouched'
  <2> SUFFICES ASSUME NEW d \in Client, object'[d] # "live"
               PROVE  /\ d \notin DOMAIN gData'.clientData
                      /\ d \notin DOMAIN gData'.destroyClientData
                      /\ \A i \in Interface : /\ d \notin adapter'[i].clients
                                              /\ ~Has(queue', "add", i, d)
                                              /\ ~Has(queue', "remove", i, d)
    BY DEF Untouched
  <2>1. CASE d = c
    <3>1. wait = {}
      BY <1>4, <2>1
    <3>. QED
      BY <1>1, <1>3, <1>6, <1>8, <2>1, <3>1
  <2>2. CASE d # c
    <3>1. object[d] # "live"
      BY <1>4, <2>2
    <3>. QED
      BY <1>1, <1>6, <1>8, <2>2, <3>1 DEF IInv, Untouched
  <2>. QED
    BY <2>1, <2>2
<1>11. Present'
  BY <1>1, <1>2, <1>6, <1>8 DEF IInv, Present
<1>12. TakenApart'
  <2> SUFFICES ASSUME NEW d \in DOMAIN gData'.destroyClientData, NEW i \in Interface
               PROVE  /\ i \in gData'.destroyClientData[d] <=> Has(queue', "remove", i, d)
                      /\ d \in adapter'[i].clients => i \in gData'.destroyClientData[d]
                      /\ AddsFirst(queue', i, d) /\ RemovedOnce(queue', i, d)
    BY DEF TakenApart
  <2>1. CASE d = c
    BY <1>1, <1>3, <1>6, <1>7, <1>8, <2>1
  <2>2. CASE d # c
    <3>1. /\ d \in DOMAIN gData.destroyClientData
          /\ gData'.destroyClientData[d] = gData.destroyClientData[d]
      BY <1>8, <2>2
    <3>. QED
      BY <1>1, <1>6, <2>2, <3>1 DEF IInv, TakenApart
  <2>. QED
    BY <2>1, <2>2
<1>. QED
  BY <1>9, <1>10, <1>11, <1>12 DEF IInv
------------------------------------------------------------------------------
(* Additions and removals reach the adapters.                              *)

LEMMA MsgAdds ==
  ASSUME IInv, MsgAddClient
  PROVE  IInv'
<1>. DEFINE a == [this EXCEPT !.clients = @ \cup {client}]
            j == Head(queue).interface
            c == client
<1>1. /\ queue # <<>> /\ Head(queue).type = "add" /\ queue' = Tail(queue) /\ becomes(a)
      /\ apiQueue' = Append(apiQueue, msg("open", None, None))
      /\ UNCHANGED <<gData, object, modem>>
  BY DEF MsgAddClient, begin, updateClientsEventMask
<1>2. /\ this \in Adapter /\ j \in Interface /\ this = adapter[j] /\ c = Head(queue).client
      /\ Head(queue) \in Message /\ c \in Client
  BY <1>1, Received DEF IInv
<1>3. c \in Client /\ is(Head(queue), "add", j, c)
  BY <1>1, <1>2 DEF is
<1>4. a \in Adapter /\ a.clients = this.clients \cup {c} /\ a.sessions = this.sessions
  BY <1>2, <1>3 DEF Adapter
<1>5. apiQueue' \in Seq(ApiMessage)
  <2>1. msg("open", None, None) \in ApiMessage
    BY DEF msg, ApiMessage
  <2>. HIDE DEF ApiMessage
  <2>. QED
    BY <1>1, <2>1 DEF IInv, TypeOK
<1>. HIDE DEF a, j, c
<1>6. /\ adapter' \in [Interface -> Adapter]
      /\ \A i \in Interface : /\ adapter'[i].clients = IF i = j THEN adapter[i].clients \cup {c}
                                                       ELSE adapter[i].clients
                              /\ adapter'[i].sessions = adapter[i].sessions
  BY <1>1, <1>2, <1>4, Becomes DEF IInv, j
<1>7. /\ queue' \in Seq(Message)
      /\ \A i, d : /\ Has(queue', "add", i, d) => Has(queue, "add", i, d)
                   /\ Has(queue', "remove", i, d) <=> Has(queue, "remove", i, d)
                   /\ AddsFirst(queue, i, d) => AddsFirst(queue', i, d)
                   /\ RemovedOnce(queue, i, d) => RemovedOnce(queue', i, d)
      /\ Has(queue, "add", j, c)
  <2>1. queue \in Seq(Message)
    BY DEF IInv, TypeOK
  <2>2. \A i, d : ~is(Head(queue), "remove", i, d)
    BY <1>1 DEF is
  <2>. QED
    BY <1>1, <1>3, <2>1, <2>2, Taken
<1>8. TypeOK'
  BY <1>1, <1>5, <1>6, <1>7 DEF IInv, TypeOK
<1>9. Untouched'
  <2> SUFFICES ASSUME NEW d \in Client, object[d] # "live"
               PROVE  /\ d \notin DOMAIN gData.clientData
                      /\ d \notin DOMAIN gData.destroyClientData
                      /\ \A i \in Interface : /\ d \notin adapter'[i].clients
                                              /\ ~Has(queue', "add", i, d)
                                              /\ ~Has(queue', "remove", i, d)
    BY <1>1 DEF Untouched
  <2>1. /\ d \notin DOMAIN gData.clientData /\ d \notin DOMAIN gData.destroyClientData
        /\ \A i \in Interface : /\ d \notin adapter[i].clients
                                /\ ~Has(queue, "add", i, d) /\ ~Has(queue, "remove", i, d)
    BY DEF IInv, Untouched
  <2>2. d # c
    BY <1>2, <1>7, <2>1
  <2>. QED
    BY <1>6, <1>7, <2>1, <2>2
<1>10. Present'
  <2> SUFFICES ASSUME NEW d \in DOMAIN gData.clientData
               PROVE  /\ d \notin DOMAIN gData.destroyClientData
                      /\ \A i \in Interface :
                           /\ ~Has(queue', "remove", i, d)
                           /\ d \in adapter'[i].clients \/ Has(queue', "add", i, d) =>
                                i \in gData.loaded
    BY <1>1 DEF Present
  <2>1. /\ d \notin DOMAIN gData.destroyClientData
        /\ \A i \in Interface :
             /\ ~Has(queue, "remove", i, d)
             /\ d \in adapter[i].clients \/ Has(queue, "add", i, d) => i \in gData.loaded
    BY DEF IInv, Present
  <2>. QED
    BY <1>2, <1>6, <1>7, <2>1
<1>11. TakenApart'
  <2> SUFFICES ASSUME NEW d \in DOMAIN gData.destroyClientData, NEW i \in Interface
               PROVE  /\ i \in gData.destroyClientData[d] <=> Has(queue', "remove", i, d)
                      /\ d \in adapter'[i].clients => i \in gData.destroyClientData[d]
                      /\ AddsFirst(queue', i, d) /\ RemovedOnce(queue', i, d)
    BY <1>1 DEF TakenApart
  <2>1. /\ i \in gData.destroyClientData[d] <=> Has(queue, "remove", i, d)
        /\ d \in adapter[i].clients => i \in gData.destroyClientData[d]
        /\ AddsFirst(queue, i, d) /\ RemovedOnce(queue, i, d)
    BY DEF IInv, TakenApart
  <2>2. CASE d = c /\ i = j
    <3>1. Has(queue, "remove", i, d)
      BY <1>7, <2>1, <2>2, NoneLeft
    <3>. QED
      BY <1>7, <2>1, <3>1
  <2>3. CASE ~(d = c /\ i = j)
    BY <1>6, <1>7, <2>1, <2>3
  <2>. QED
    BY <2>2, <2>3
<1>. QED
  BY <1>8, <1>9, <1>10, <1>11 DEF IInv

\* Only a client that is taken apart is removed; the last removal deletes it.
LEMMA Completes ==
  ASSUME IInv, NEW c \in Client, NEW j \in Interface, onRemoveClientCompleteCb(c, j)
  PROVE  /\ gData' \in [clientData : ClientMap, destroyClientData : ClientMap,
                        loaded : SUBSET Interface, osFrameworkRefCount : Int]
         /\ gData'.clientData = gData.clientData /\ gData'.loaded = gData.loaded
         /\ object' \in [Client -> {"none", "live", "deleted", "aborted"}]
         /\ \A d \in Client : d # c => object'[d] = object[d]
         /\ DOMAIN gData'.destroyClientData \subseteq DOMAIN gData.destroyClientData
         /\ \A d \in DOMAIN gData'.destroyClientData :
              gData'.destroyClientData[d] = IF d = c THEN gData.destroyClientData[d] \ {j}
                                            ELSE gData.destroyClientData[d]
         /\ \/ object'[c] = object[c]
            \/ /\ c \in DOMAIN gData.destroyClientData \ DOMAIN gData'.destroyClientData
               /\ gData.destroyClientData[c] \subseteq {j}
<1>. DEFINE f == gData.destroyClientData
            wait == f[c] \ {j}
            g == IF wait = {} THEN Without(f, c) ELSE With(f, c, wait)
<1>1. /\ gData \in [clientData : ClientMap, destroyClientData : ClientMap,
                    loaded : SUBSET Interface, osFrameworkRefCount : Int]
      /\ object \in [Client -> {"none", "live", "deleted", "aborted"}]
      /\ f \in ClientMap /\ gData.clientData \in ClientMap
      /\ gData.loaded \in SUBSET Interface /\ gData.osFrameworkRefCount \in Int
  BY DEF IInv, TypeOK
<1>2. CASE c \notin DOMAIN f
  BY <1>1, <1>2 DEF onRemoveClientCompleteCb
<1>3. CASE c \in DOMAIN f
  <2>1. /\ gData' = [gData EXCEPT !.destroyClientData = g]
        /\ object' = [object EXCEPT ![c] = IF wait = {} THEN "deleted" ELSE @]
    BY <1>3 DEF onRemoveClientCompleteCb
  <2>2. wait \in SUBSET Interface
    <3>1. PICK D \in SUBSET Client : f \in [D -> SUBSET Interface]
      BY <1>1 DEF ClientMap
    <3>. QED
      BY <1>3, <3>1
  <2>3. gData' = [gData EXCEPT !.clientData = gData.clientData, !.destroyClientData = g,
                               !.loaded = gData.loaded,
                               !.osFrameworkRefCount = gData.osFrameworkRefCount]
    BY <1>1, <2>1
  <2>. HIDE DEF f, wait, g
  <2>4. /\ g \in ClientMap /\ DOMAIN g \subseteq DOMAIN f
        /\ \A d \in DOMAIN g : g[d] = IF d = c THEN wait ELSE f[d]
        /\ wait = {} => c \notin DOMAIN g
    <3>0. f \in ClientMap
      BY <1>1
    <3>1. With(f, c, wait) \in ClientMap /\ Without(f, c) \in ClientMap
      BY <2>2, <3>0, Maps
    <3>2. DOMAIN With(f, c, wait) = DOMAIN f \cup {c}
      BY <2>2, <3>0, Maps
    <3>3. With(f, c, wait)[c] = wait
      BY DEF With
    <3>4. DOMAIN Without(f, c) = DOMAIN f \ {c}
      BY <2>2, <3>0, Maps
    <3>5. ASSUME NEW d \in DOMAIN f \ {c}
          PROVE  With(f, c, wait)[d] = f[d] /\ Without(f, c)[d] = f[d]
      BY DEF With, Without
    <3>6. CASE wait = {}
      BY <3>1, <3>4, <3>5, <3>6 DEF g
    <3>7. CASE wait # {}
      BY <1>3, <3>1, <3>2, <3>3, <3>5, <3>7 DEF g
    <3>. QED
      BY <3>6, <3>7
  <2>5. /\ gData'.clientData = gData.clientData /\ gData'.destroyClientData = g
        /\ gData'.loaded = gData.loaded
        /\ gData' \in [clientData : ClientMap, destroyClientData : ClientMap,
                       loaded : SUBSET Interface, osFrameworkRefCount : Int]
    BY <1>1, <2>3, <2>4, DataFields
  <2>6. /\ object' \in [Client -> {"none", "live", "deleted", "aborted"}]
        /\ \A d \in Client : d # c => object'[d] = object[d]
        /\ wait # {} => object'[c] = object[c]
    BY <1>1, <2>1
  <2>7. wait = {} => f[c] \subseteq {j}
    BY DEF wait
  <2>. QED
    BY <1>3, <2>4, <2>5, <2>6, <2>7 DEF f, wait
<1>. QED
  BY <1>2, <1>3

LEMMA MsgRemoves ==
  ASSUME IInv, MsgRemoveClient
  PROVE  IInv'
<1>. DEFINE own == {s \in this.sessions : s.client = client}
            kept == {s \in own : s.kind \in {"distance", "trip"}}
            a == [this EXCEPT !.sessions = (@ \ own) \cup kept, !.clients = @ \ {client}]
            j == Head(queue).interface
            c == client
<1>1. /\ queue # <<>> /\ Head(queue).type = "remove" /\ queue' = Tail(queue) /\ becomes(a)
      /\ apiQueue' = Append(apiQueue, msg("open", None, None))
      /\ onRemoveClientCompleteCb(c, j) /\ UNCHANGED modem
  BY DEF MsgRemoveClient, begin, updateClientsEventMask
<1>2. /\ this \in Adapter /\ j \in Interface /\ this = adapter[j] /\ c = Head(queue).client
      /\ Head(queue) \in Message /\ c \in Client
  BY <1>1, Received DEF IInv
<1>3. c \in Client /\ is(Head(queue), "remove", j, c)
      /\ \A t, i, d : is(Head(queue), t, i, d) <=> t = "remove" /\ i = j /\ d = c
  BY <1>1, <1>2 DEF is
<1>4. a \in Adapter /\ a.clients = this.clients \ {c}
  BY <1>2, <1>3 DEF Adapter
<1>5. apiQueue' \in Seq(ApiMessage)
  <2>1. msg("open", None, None) \in ApiMessage
    BY DEF msg, ApiMessage
  <2>. HIDE DEF ApiMessage
  <2>. QED
    BY <1>1, <2>1 DEF IInv, TypeOK
<1>. HIDE DEF a, j, c
<1>6. /\ adapter' \in [Interface -> Adapter]
      /\ \A i \in Interface :
           adapter'[i].clients = IF i = j THEN adapter[i].clients \ {c} ELSE adapter[i].clients
  BY <1>1, <1>2, <1>4, Becomes DEF IInv, j
<1>7. /\ queue' \in Seq(Message)
      /\ \A i, d : /\ Has(queue', "add", i, d) <=> Has(queue, "add", i, d)
                   /\ ~(i = j /\ d = c) =>
                        (Has(queue', "remove", i, d) <=> Has(queue, "remove", i, d))
                   /\ Has(queue', "remove", i, d) => Has(queue, "remove", i, d)
                   /\ AddsFirst(queue, i, d) => AddsFirst(queue', i, d)
                   /\ RemovedOnce(queue, i, d) => RemovedOnce(queue', i, d)
      /\ Has(queue, "remove", j, c)
      /\ RemovedOnce(queue, j, c) => ~Has(queue', "remove", j, c)
  <2>1. queue \in Seq(Message)
    BY DEF IInv, TypeOK
  <2>. QED
    BY <1>1, <1>3, <2>1, Taken
<1>8. /\ gData' \in [clientData : ClientMap, destroyClientData : ClientMap,
                     loaded : SUBSET Interface, osFrameworkRefCount : Int]
      /\ gData'.clientData = gData.clientData /\ gData'.loaded = gData.loaded
      /\ object' \in [Client -> {"none", "live", "deleted", "aborted"}]
      /\ \A d \in Client : d # c => object'[d] = object[d]
      /\ DOMAIN gData'.destroyClientData \subseteq DOMAIN gData.destroyClientData
      /\ \A d \in DOMAIN gData'.destroyClientData :
           gData'.destroyClientData[d] = IF d = c THEN gData.destroyClientData[d] \ {j}
                                         ELSE gData.destroyClientData[d]
      /\ \/ object'[c] = object[c]
         \/ /\ c \in DOMAIN gData.destroyClientData \ DOMAIN gData'.destroyClientData
            /\ gData.destroyClientData[c] \subseteq {j}
  BY <1>1, <1>2, <1>3, Completes
<1>9. c \notin DOMAIN gData.clientData
  BY <1>2, <1>7 DEF IInv, Present
\* what is under way for a client that is taken apart
<1>10. ASSUME NEW d \in DOMAIN gData.destroyClientData, NEW i \in Interface
       PROVE  /\ i \in gData.destroyClientData[d] <=> Has(queue, "remove", i, d)
              /\ d \in adapter[i].clients => i \in gData.destroyClientData[d]
              /\ AddsFirst(queue, i, d) /\ RemovedOnce(queue, i, d)
  BY DEF IInv, TakenApart
<1>11. TypeOK'
  BY <1>1, <1>5, <1>6, <1>7, <1>8 DEF IInv, TypeOK
<1>12. Untouched'
  <2> SUFFICES ASSUME NEW d \in Client, object'[d] # "live", NEW i \in Interface
               PROVE  /\ d \notin DOMAIN gData'.clientData
                      /\ d \notin DOMAIN gData'.destroyClientData
                      /\ d \notin adapter'[i].clients
                      /\ ~Has(queue', "add", i, d) /\ ~Has(queue', "remove", i, d)
    <3>1. ASSUME NEW d \in Client, object'[d] # "live"
          PROVE  /\ d \notin DOMAIN gData'.clientData
                 /\ d \notin DOMAIN gData'.destroyClientData
                 /\ \A i \in Interface : /\ d \notin adapter'[i].clients
                                         /\ ~Has(queue', "add", i, d)
                                         /\ ~Has(queue', "remove", i, d)
      BY <1>2, <3>1
    <3>. QED
      BY <3>1 DEF Untouched
  <2>1. CASE object[d] # "live"
    <3>1. /\ d \notin DOMAIN gData.clientData /\ d \notin DOMAIN gData.destroyClientData
          /\ d \notin adapter[i].clients
          /\ ~Has(queue, "add", i, d) /\ ~Has(queue, "remove", i, d)
      BY <2>1 DEF IInv, Untouched
    <3>. QED
      BY <1>6, <1>7, <1>8, <3>1
  <2>2. CASE object[d] = "live"
    <3>1. d = c /\ d \in DOMAIN gData.destroyClientData \ DOMAIN gData'.destroyClientData
          /\ gData.destroyClientData[d] \subseteq {j}
      BY <1>3, <1>8, <2>2
    <3>2. /\ i \in gData.destroyClientData[d] <=> Has(queue, "remove", i, d)
          /\ d \in adapter[i].clients => i \in gData.destroyClientData[d]
          /\ AddsFirst(queue, i, d) /\ RemovedOnce(queue, i, d)
      BY <1>10, <3>1
    <3>3. ~Has(queue', "remove", i, d)
      <4>1. CASE i = j
        BY <1>7, <3>1, <3>2, <4>1
      <4>2. CASE i # j
        BY <1>7, <3>1, <3>2, <4>2
      <4>. QED
        BY <4>1, <4>2
    <3>4. ~Has(queue', "add", i, d)
      BY <1>7, <3>2, <3>3, NoneLeft
    <3>5. d \notin adapter'[i].clients
      BY <1>6, <3>1, <3>2
    <3>. QED
      BY <1>8, <1>9, <3>1, <3>3, <3>4, <3>5
  <2>. QED
    BY <2>1, <2>2
<1>13. Present'
  <2> SUFFICES ASSUME NEW d \in DOMAIN gData.clientData
               PROVE  /\ d \notin DOMAIN gData'.destroyClientData
                      /\ \A i \in Interface :
                           /\ ~Has(queue', "remove", i, d)
                           /\ d \in adapter'[i].clients \/ Has(queue', "add", i, d) =>
                                i \in gData'.loaded
    BY <1>8 DEF Present
  <2>1. /\ d \notin DOMAIN gData.destroyClientData
        /\ \A i \in Interface :
             /\ ~Has(queue, "remove", i, d)
             /\ d \in adapter[i].clients \/ Has(queue, "add", i, d) => i \in gData.loaded
    BY DEF IInv, Present
  <2>. QED
    BY <1>6, <1>7, <1>8, <2>1
<1>14. TakenApart'
  <2> SUFFICES ASSUME NEW d \in DOMAIN gData'.destroyClientData, NEW i \in Interface
               PROVE  /\ i \in gData'.destroyClientData[d] <=> Has(queue', "remove", i, d)
                      /\ d \in adapter'[i].clients => i \in gData'.destroyClientData[d]
                      /\ AddsFirst(queue', i, d) /\ RemovedOnce(queue', i, d)
    BY DEF TakenApart
  <2>1. d \in DOMAIN gData.destroyClientData
        /\ gData'.destroyClientData[d] = IF d = c THEN gData.destroyClientData[d] \ {j}
                                         ELSE gData.destroyClientData[d]
    BY <1>8
  <2>2. /\ i \in gData.destroyClientData[d] <=> Has(queue, "remove", i, d)
        /\ d \in adapter[i].clients => i \in gData.destroyClientData[d]
        /\ AddsFirst(queue, i, d) /\ RemovedOnce(queue, i, d)
    BY <1>10, <2>1
  <2>3. CASE d = c /\ i = j
    BY <1>6, <1>7, <2>1, <2>2, <2>3
  <2>4. CASE ~(d = c /\ i = j)
    BY <1>6, <1>7, <2>1, <2>2, <2>4
  <2>. QED
    BY <2>3, <2>4
<1>. QED
  BY <1>11, <1>12, <1>13, <1>14 DEF IInv
------------------------------------------------------------------------------

LEMMA InitHolds == Init => IInv
<1> SUFFICES ASSUME Init  PROVE IInv
  OBVIOUS
<1>1. Nothing \in ClientMap /\ DOMAIN Nothing = {}
  <2>1. Nothing \in [{} -> SUBSET Interface] /\ DOMAIN Nothing = {}
    BY DEF Nothing
  <2>2. {} \in SUBSET Client
    OBVIOUS
  <2>. QED
    BY <2>1, <2>2 DEF ClientMap
<1>2. /\ gData \in [clientData : ClientMap, destroyClientData : ClientMap,
                    loaded : SUBSET Interface, osFrameworkRefCount : Int]
      /\ DOMAIN gData.clientData = {} /\ DOMAIN gData.destroyClientData = {}
  <2>. HIDE DEF ClientMap, Nothing
  <2>. QED
    BY <1>1 DEF Init
<1>3. adapter \in [Interface -> Adapter]
      /\ \A i \in Interface : adapter[i].clients = {} /\ adapter[i].sessions = {}
  BY DEF Init, Adapter
<1>4. queue = <<>> /\ queue \in Seq(Message) /\ Len(queue) = 0 /\ apiQueue \in Seq(ApiMessage)
  BY DEF Init
<1>5. TypeOK
  BY <1>2, <1>3, <1>4 DEF Init, TypeOK
<1>6. Untouched /\ Present /\ TakenApart
  BY <1>2, <1>3, <1>4 DEF Untouched, Present, TakenApart, Has
<1>. QED
  BY <1>5, <1>6 DEF IInv

LEMMA NextHolds == IInv /\ SessionTypes /\ [Next]_vars => IInv'
<1> SUFFICES ASSUME IInv, SessionTypes, [Next]_vars  PROVE IInv'
  OBVIOUS
<1>1. CASE Callers
  <2>1. CASE \E c \in Client :
          \/ \E callbacks \in Callbacks : \/ createInstance(c, callbacks)
                                          \/ updateCallbacks(c, callbacks)
          \/ \E withCallback \in BOOLEAN : destroy(c, withCallback)
    BY <2>1, Adds, Destroys
  <2>2. CASE \/ \E c \in Client, i \in Interface : \E kind \in Kinds[i] : startSession(c, i, kind)
             \/ \E x \in issued : stopSession(x)
    BY <2>2, Starts
  <2>. QED
    BY <1>1, <2>1, <2>2 DEF Callers
<1>2. CASE AdapterTask
  BY <1>2, MsgAdds, MsgRemoves, Asked, EngineUp DEF AdapterTask
<1>3. CASE ApiTask
  BY <1>3, ApiTaskRuns DEF ApiTask
<1>4. CASE handleEngineDownEvent
  BY <1>4, EngineDown
<1>5. CASE returnToSender
  BY <1>5, Starts
<1>6. CASE UNCHANGED vars
  BY <1>6, Rests DEF vars, IInv, TypeOK
<1>. QED
  BY <1>1, <1>2, <1>3, <1>4, <1>5, <1>6 DEF Next
------------------------------------------------------------------------------
(* Sessions, and the requests to stop them.                                *)

isAnswer(m, i, s) ==
  m.type = "answer" /\ m.op # "start" /\ m.interface = i /\ m.session = s
Answers(q, i, s) == \E n \in DOMAIN q : isAnswer(q[n], i, s)

LEMMA AnswersPosted ==
  ASSUME NEW T, NEW U, NEW q \in Seq(T), NEW r \in Seq(U)
  PROVE  /\ q \o r \in Seq(T \cup U)
         /\ \A i, s : Answers(q, i, s) \/ Answers(r, i, s) => Answers(q \o r, i, s)
<1>1. q \in Seq(T \cup U) /\ r \in Seq(T \cup U)
  BY SeqMonotonic
<1>2. /\ q \o r \in Seq(T \cup U) /\ Len(q) \in Nat /\ Len(r) \in Nat
      /\ DOMAIN q = 1..Len(q) /\ DOMAIN r = 1..Len(r)
      /\ DOMAIN (q \o r) = 1..(Len(q) + Len(r))
      /\ \A n \in 1..Len(q) : (q \o r)[n] = q[n]
      /\ \A n \in 1..Len(r) : (q \o r)[Len(q) + n] = r[n]
  BY <1>1
<1>. DEFINE k == Len(q)
            l == Len(r)
            p == q \o r
<1>. HIDE DEF k, l, p
<1>3. /\ k \in Nat /\ l \in Nat /\ DOMAIN q = 1..k /\ DOMAIN r = 1..l /\ DOMAIN p = 1..(k + l)
      /\ \A n \in 1..k : p[n] = q[n]
      /\ \A n \in 1..l : p[k + n] = r[n]
  BY <1>2 DEF k, l, p
<1>4. ASSUME NEW i, NEW s, Answers(q, i, s)  PROVE Answers(p, i, s)
  <2>1. PICK n \in 1..k : isAnswer(q[n], i, s)
    BY <1>3, <1>4 DEF Answers
  <2>2. n \in DOMAIN p /\ p[n] = q[n]
    BY <1>3
  <2>. QED
    BY <2>1, <2>2 DEF Answers
<1>5. ASSUME NEW i, NEW s, Answers(r, i, s)  PROVE Answers(p, i, s)
  <2>1. PICK n \in 1..l : isAnswer(r[n], i, s)
    BY <1>3, <1>5 DEF Answers
  <2>2. k + n \in DOMAIN p /\ p[k + n] = r[n]
    BY <1>3
  <2>. QED
    BY <2>1, <2>2 DEF Answers
<1>. QED
  BY <1>2, <1>4, <1>5 DEF p

LEMMA AnswersTaken ==
  ASSUME NEW T, NEW q \in Seq(T), q # <<>>, NEW i, NEW s, Answers(q, i, s)
  PROVE  Answers(Tail(q), i, s) \/ isAnswer(Head(q), i, s)
<1>1. /\ Tail(q) \in Seq(T) /\ Len(q) \in Nat \ {0} /\ Head(q) = q[1]
      /\ Len(Tail(q)) = Len(q) - 1 /\ DOMAIN q = 1..Len(q)
      /\ \A n \in 1..Len(Tail(q)) : Tail(q)[n] = q[n + 1]
  BY HeadTailProperties, EmptySeq
<1>2. DOMAIN Tail(q) = 1..Len(Tail(q))
  BY <1>1
<1>3. PICK n \in 1..Len(q) : isAnswer(q[n], i, s)
  BY <1>1 DEF Answers
<1>4. CASE n = 1
  BY <1>1, <1>3, <1>4
<1>5. CASE n # 1
  <2>1. n - 1 \in 1..Len(Tail(q)) /\ (n - 1) + 1 = n
    BY <1>1, <1>5
  <2>2. isAnswer(Tail(q)[n - 1], i, s)
    BY <1>1, <1>3, <2>1
  <2>. QED
    BY <1>2, <2>1, <2>2 DEF Answers
<1>. QED
  BY <1>4, <1>5

\* A message of an adapter is taken that is no answer.
LEMMA AnswersStay ==
  ASSUME TypeOK, queue # <<>>, Head(queue).type # "answer"
  PROVE  /\ Tail(queue) \in Seq(Message)
         /\ \A i, s : Answers(queue, i, s) => Answers(Tail(queue), i, s)
<1>1. queue \in Seq(Message)
  BY DEF TypeOK
<1>2. Tail(queue) \in Seq(Message)
  BY <1>1, Taken
<1>3. \A i, s : ~isAnswer(Head(queue), i, s)
  BY DEF isAnswer
<1>. QED
  BY <1>1, <1>2, <1>3, AnswersTaken

\* Of a step that gives no adapter a session and takes no client from it.
LEMMA SessionsKept ==
  ASSUME SessionsEnd, asked \subseteq asked', refused \subseteq refused',
         \A i \in Interface : /\ adapter[i].clients \subseteq adapter'[i].clients
                              /\ adapter'[i].sessions \subseteq adapter[i].sessions,
         \A i, s : Answers(queue, i, s) => Answers(queue', i, s)
  PROVE  SessionsEnd'
<1> SUFFICES ASSUME NEW i \in Interface, NEW s \in adapter'[i].sessions
             PROVE  \/ s.client \in adapter'[i].clients \/ s.kind = "trip"
                    \/ s.kind = "distance" /\ stopUnderway(i, s)'
                    \/ [interface |-> i, session |-> s] \in refused'
  BY DEF SessionsEnd
<1>1. \/ s.client \in adapter[i].clients \/ s.kind = "trip"
      \/ s.kind = "distance" /\ stopUnderway(i, s)
      \/ [interface |-> i, session |-> s] \in refused
  BY DEF SessionsEnd
<1>2. stopUnderway(i, s) => stopUnderway(i, s)'
  BY DEF stopUnderway, Answers, isAnswer
<1>. QED
  BY <1>1, <1>2

LEMMA CallersKeep == ASSUME IInv, SessionTypes, SessionsEnd, Callers  PROVE SessionsEnd'
<1>1. queue \in Seq(Message) /\ gData.loaded \in SUBSET Interface
  BY DEF IInv, TypeOK
<1>2. ASSUME NEW c \in Client, NEW callbacks \in Callbacks,
             createInstance(c, callbacks) \/ updateCallbacks(c, callbacks)
      PROVE  SessionsEnd'
  <2>. DEFINE I == addTo(callbacks)
              s == messages("add", I, c)
              more == <<msg("capabilities", inOrder(I)[1], c)>>
  <2>1. callbacks \in SUBSET Interface /\ I \in SUBSET Interface
    BY LocationAPIAssumption DEF addTo
  <2>2. load(callbacks) /\ asked' = asked /\ refused' = refused
    BY <1>2 DEF createInstance, updateCallbacks, sessionVars
  <2>3. \A i \in Interface : /\ adapter'[i].clients = adapter[i].clients
                             /\ adapter'[i].sessions = adapter[i].sessions
    BY <2>1, <2>2, Loads DEF IInv
  <2>4. \/ queue' = queue \o s \/ queue' = (queue \o s) \o <<>>
        \/ queue' = (queue \o s) \o more
    BY <1>2 DEF createInstance, updateCallbacks
  <2>5. s \in Seq([type : {"add"}, interface : I, client : {c}])
    BY <2>1, Messages
  <2>6. <<>> \in Seq(Message) /\ more \in Seq({more[1]})
    OBVIOUS
  <2>. HIDE DEF s, more, I, Message
  <2>7. PICK T : queue \o s \in Seq(T)
    BY <1>1, <2>5, AnswersPosted
  <2>8. \A i, x : Answers(queue, i, x) => Answers(queue \o s, i, x)
    BY <1>1, <2>5, AnswersPosted
  <2>9. \A i, x : Answers(queue \o s, i, x) =>
          Answers((queue \o s) \o <<>>, i, x) /\ Answers((queue \o s) \o more, i, x)
    BY ONLY <2>6, <2>7, AnswersPosted
  <2>. QED
    BY <2>2, <2>3, <2>4, <2>8, <2>9, SessionsKept
<1>3. ASSUME NEW c \in Client, NEW withCallback \in BOOLEAN, destroy(c, withCallback)
      PROVE  SessionsEnd'
  <2>. DEFINE s == messages("remove", gData.loaded, c)
  <2>1. /\ queue' = queue \o s /\ UNCHANGED <<adapter, asked, refused>>
    BY <1>3 DEF destroy, takenApart, sessionVars
  <2>2. s \in Seq([type : {"remove"}, interface : gData.loaded, client : {c}])
    BY <1>1, Messages
  <2>. HIDE DEF s, Message
  <2>3. \A i, x : Answers(queue, i, x) => Answers(queue', i, x)
    BY <1>1, <2>1, <2>2, AnswersPosted
  <2>. QED
    BY <2>1, <2>3, SessionsKept
<1>4. ASSUME \/ \E c \in Client, i \in Interface : \E kind \in Kinds[i] : startSession(c, i, kind)
             \/ \E x \in issued : stopSession(x)
      PROVE  SessionsEnd'
  <2>1. UNCHANGED <<adapter, asked, refused>>
    BY <1>4 DEF startSession, stopSession
  <2>2. PICK m \in OfSession \cup Answer : queue' = Append(queue, m)
    BY <1>4, SessionMessages
  <2>3. queue' = queue \o <<m>> /\ <<m>> \in Seq({m})
    BY <1>1, <2>2
  <2>. HIDE DEF Message
  <2>4. \A i, x : Answers(queue, i, x) => Answers(queue', i, x)
    BY ONLY <1>1, <2>3, AnswersPosted
  <2>. QED
    BY <2>1, <2>4, SessionsKept
<1>. QED
  BY <1>2, <1>3, <1>4 DEF Callers

\* What was asked is answered: the answer is on its way.
LEMMA AnswerSent == ASSUME IInv, SessionTypes, SessionsEnd, returnToSender  PROVE SessionsEnd'
<1>1. PICK r \in asked, ok \in BOOLEAN :
        /\ asked' = asked \ {r}
        /\ queue' = Append(queue, [type |-> "answer", interface |-> r.interface,
                                   session |-> r.session, op |-> r.op, ok |-> ok])
  BY DEF returnToSender
<1>2. UNCHANGED <<adapter, refused>>
  BY DEF returnToSender
<1>. DEFINE m == [type |-> "answer", interface |-> r.interface, session |-> r.session,
                  op |-> r.op, ok |-> ok]
<1>3. /\ queue \in Seq(Message) /\ queue' = queue \o <<m>> /\ <<m>> \in Seq({m})
      /\ 1 \in DOMAIN <<m>> /\ <<m>>[1] = m
  BY <1>1 DEF IInv, TypeOK
<1>4. /\ \A i, s : Answers(queue, i, s) => Answers(queue', i, s)
      /\ \A i, s : Answers(<<m>>, i, s) => Answers(queue', i, s)
  <2>. HIDE DEF m, Message
  <2>. QED
    BY ONLY <1>3, AnswersPosted
<1>5. r.op # "start" => Answers(<<m>>, r.interface, r.session)
  BY <1>3 DEF Answers, isAnswer
<1>6. ASSUME NEW i, NEW s, stopUnderway(i, s)  PROVE stopUnderway(i, s)'
  <2>1. CASE Answers(queue, i, s)
    BY <1>4, <2>1 DEF stopUnderway, Answers, isAnswer
  <2>2. CASE \E x \in asked : x.op # "start" /\ x.interface = i /\ x.session = s
    <3>1. PICK x \in asked : x.op # "start" /\ x.interface = i /\ x.session = s
      BY <2>2
    <3>2. CASE x = r
      <4>1. Answers(queue', i, s)
        BY <1>4, <1>5, <3>1, <3>2
      <4>. QED
        BY <4>1 DEF stopUnderway, Answers, isAnswer
    <3>3. CASE x # r
      BY <1>1, <3>1, <3>3 DEF stopUnderway
    <3>. QED
      BY <3>2, <3>3
  <2>. QED
    BY <1>6, <2>1, <2>2 DEF stopUnderway, Answers, isAnswer
<1>. QED
  BY <1>2, <1>6 DEF SessionsEnd

LEMMA AdaptersKeep == ASSUME IInv, SessionsEnd, AdapterTask  PROVE SessionsEnd'
<1>. DEFINE j == Head(queue).interface
<1>1. queue # <<>> /\ TypeOK /\ queue \in Seq(Message)
  BY DEF AdapterTask, MsgAddClient, MsgRequestCapabilities, MsgStartSession, startUnless,
         MsgStopSession, MsgResponse, MsgRemoveClient, MsgHandleEngineUp, begin, IInv, TypeOK
<1>2. /\ this \in Adapter /\ j \in Interface /\ this = adapter[j]
      /\ Head(queue).type \in {"start", "stop", "answer"} => subject \in Session
      /\ Head(queue).type \in {"add", "remove"} => client \in Client
  BY <1>1, Received
<1>3. this.sessions \in SUBSET Session /\ this.clients \in SUBSET Client
  BY <1>2 DEF Adapter
\* a step after which the adapter of the message is a
<1>4. ASSUME NEW a \in Adapter, becomes(a) \/ (adapter' = adapter /\ a = this),
             this.clients \subseteq a.clients, a.sessions \subseteq this.sessions,
             asked \subseteq asked', refused' = refused, queue' = Tail(queue),
             Head(queue).type # "answer"
      PROVE  SessionsEnd'
  <2>1. \A i \in Interface : /\ adapter[i].clients \subseteq adapter'[i].clients
                             /\ adapter'[i].sessions \subseteq adapter[i].sessions
    <3>1. CASE becomes(a)
      BY <1>1, <1>2, <1>4, <3>1, Becomes
    <3>2. CASE adapter' = adapter
      BY <3>2
    <3>. QED
      BY <1>4, <3>1, <3>2
  <2>2. \A i, s : Answers(queue, i, s) => Answers(queue', i, s)
    BY <1>1, <1>4, AnswersStay
  <2>. QED
    BY <1>4, <2>1, <2>2, SessionsKept
<1>5. CASE MsgAddClient
  <2>. DEFINE a == [this EXCEPT !.clients = @ \cup {client}]
  <2>1. /\ becomes(a) /\ queue' = Tail(queue) /\ Head(queue).type = "add"
        /\ asked' = asked /\ refused' = refused
    BY <1>5 DEF MsgAddClient, begin, sessionVars
  <2>2. a \in Adapter /\ this.clients \subseteq a.clients /\ a.sessions = this.sessions
    BY <1>2, <2>1 DEF Adapter
  <2>. HIDE DEF a
  <2>. QED
    BY <1>4, <2>1, <2>2
<1>6. ASSUME postpone, queue' = Tail(queue), asked' = asked, refused' = refused,
             Head(queue).type \in {"capabilities", "start", "stop"}
      PROVE  SessionsEnd'
  <2>. DEFINE a == [this EXCEPT !.pending = Append(@, Head(queue))]
  <2>1. Head(queue) \in Postponed
    BY <1>1, <1>6, Received DEF Postponed, Message, OfClient, OfSession, Answer
  <2>2. Append(this.pending, Head(queue)) \in Seq(Postponed)
    <3>. HIDE DEF Postponed
    <3>. QED
      BY <1>2, <2>1 DEF Adapter
  <2>3. a \in Adapter /\ a.clients = this.clients /\ a.sessions = this.sessions
    BY <1>2, <2>2 DEF Adapter
  <2>4. becomes(a)
    BY <1>6 DEF postpone
  <2>. HIDE DEF a
  <2>. QED
    BY <1>4, <1>6, <2>3, <2>4
\* sessions are given up, or none is
<1>7. ASSUME NEW S \in SUBSET this.sessions, sessionsBecome(S), queue' = Tail(queue),
             asked \subseteq asked', refused' = refused, Head(queue).type # "answer"
      PROVE  SessionsEnd'
  <2>. DEFINE a == [this EXCEPT !.sessions = S]
  <2>1. a \in Adapter /\ a.clients = this.clients /\ a.sessions = S
    BY <1>2, <1>3 DEF Adapter
  <2>2. becomes(a)
    BY <1>7 DEF sessionsBecome
  <2>. HIDE DEF a
  <2>. QED
    BY <1>4, <1>7, <2>1, <2>2
<1>8. ASSUME adapter' = adapter, queue' = Tail(queue), asked \subseteq asked',
             refused' = refused, Head(queue).type # "answer"
      PROVE  SessionsEnd'
  BY <1>2, <1>4, <1>8
<1>9. CASE MsgRequestCapabilities
  <2>1. /\ queue' = Tail(queue) /\ Head(queue).type = "capabilities"
        /\ asked' = asked /\ refused' = refused /\ (postpone \/ adapter' = adapter)
    BY <1>9 DEF MsgRequestCapabilities, begin, sessionVars
  <2>. QED
    BY <1>6, <1>8, <2>1
<1>10. CASE MsgStartSession
  <2>1. queue' = Tail(queue) /\ Head(queue).type = "start" /\ refused' = refused
    BY <1>10 DEF MsgStartSession, startUnless, begin
  <2>2. CASE postpone /\ asked' = asked
    BY <1>6, <2>1, <2>2
  <2>3. CASE adapter' = adapter /\ asked' = asked
    BY <1>8, <2>1, <2>3
  <2>4. CASE /\ subject.client \in this.clients /\ asked \subseteq asked'
             /\ sessionsBecome(this.sessions \cup {subject})
    <3>. DEFINE a == [this EXCEPT !.sessions = this.sessions \cup {subject}]
    <3>1. a \in Adapter /\ a.clients = this.clients /\ a.sessions = this.sessions \cup {subject}
      BY <1>2, <1>3, <2>1 DEF Adapter
    <3>2. becomes(a)
      BY <2>4 DEF sessionsBecome
    <3>. HIDE DEF a
    <3>3. /\ \A i \in Interface : adapter'[i].clients = adapter[i].clients
          /\ \A i \in Interface : adapter'[i].sessions \subseteq
                adapter[i].sessions \cup (IF i = j THEN {subject} ELSE {})
      BY <1>1, <1>2, <3>1, <3>2, Becomes
    <3>4. \A i, s : Answers(queue, i, s) => Answers(queue', i, s)
      BY <1>1, <2>1, AnswersStay
    <3>5. \A i, s : stopUnderway(i, s) => stopUnderway(i, s)'
      BY <2>4, <3>4 DEF stopUnderway, Answers, isAnswer
    <3> SUFFICES ASSUME NEW i \in Interface, NEW s \in adapter'[i].sessions
                 PROVE  \/ s.client \in adapter'[i].clients \/ s.kind = "trip"
                        \/ s.kind = "distance" /\ stopUnderway(i, s)'
                        \/ [interface |-> i, session |-> s] \in refused'
      BY DEF SessionsEnd
    <3>6. CASE s \in adapter[i].sessions
      BY <2>1, <3>3, <3>5, <3>6 DEF SessionsEnd
    <3>7. CASE i = j /\ s = subject
      BY <1>2, <2>4, <3>3, <3>7
    <3>. QED
      BY <3>3, <3>6, <3>7
  <2>. QED
    BY <1>10, <2>2, <2>3, <2>4 DEF MsgStartSession, startUnless, asks
<1>11. CASE MsgStopSession
  <2>1. queue' = Tail(queue) /\ Head(queue).type = "stop" /\ refused' = refused
    BY <1>11 DEF MsgStopSession, begin
  <2>2. CASE postpone /\ asked' = asked
    BY <1>6, <2>1, <2>2
  <2>3. CASE adapter' = adapter /\ asked \subseteq asked'
    BY <1>8, <2>1, <2>3
  <2>4. CASE sessionsBecome(this.sessions \ {subject}) /\ asked \subseteq asked'
    BY <1>7, <2>1, <2>4
  <2>. QED
    BY <1>11, <2>2, <2>3, <2>4 DEF MsgStopSession, asks
<1>12. CASE MsgResponse
  <2>. DEFINE m == Head(queue)
              S == answered(this.sessions, m.op, m.ok)
              a == [this EXCEPT !.sessions = S]
  <2>1. /\ queue' = Tail(queue) /\ m.type = "answer" /\ sessionsBecome(S) /\ asked' = asked
        /\ refused' = IF m.ok \/ m.op = "start" THEN refused
                      ELSE refused \cup {[interface |-> j, session |-> subject]}
    BY <1>12 DEF MsgResponse, begin
  <2>2. S \in SUBSET Session /\ S \subseteq this.sessions \cup {subject}
    BY <1>2, <1>3, <2>1 DEF answered
  <2>3. a \in Adapter /\ a.clients = this.clients /\ a.sessions = S
    BY <1>2, <2>2 DEF Adapter
  <2>4. becomes(a)
    BY <2>1 DEF sessionsBecome
  <2>. HIDE DEF a, S, m
  <2>5. /\ \A i \in Interface : adapter'[i].clients = adapter[i].clients
        /\ adapter'[j].sessions = S
        /\ \A i \in Interface \ {j} : adapter'[i].sessions = adapter[i].sessions
    BY <1>1, <1>2, <2>3, <2>4, Becomes
  \* only what is said of its session was this answer's
  <2>6. ASSUME NEW i, NEW s, ~(i = j /\ s = subject /\ m.op # "start"), stopUnderway(i, s)
        PROVE  stopUnderway(i, s)'
    <3>1. ~isAnswer(Head(queue), i, s)
      BY <2>6 DEF isAnswer, subject, m
    <3>2. Answers(queue, i, s) => Answers(queue', i, s)
      BY <1>1, <2>1, <3>1, AnswersTaken
    <3>. QED
      BY <2>1, <2>6, <3>2 DEF stopUnderway, Answers, isAnswer
  <2>7. refused \subseteq refused'
    BY <2>1
  <2> SUFFICES ASSUME NEW i \in Interface, NEW s \in adapter'[i].sessions
               PROVE  \/ s.client \in adapter'[i].clients \/ s.kind = "trip"
                      \/ s.kind = "distance" /\ stopUnderway(i, s)'
                      \/ [interface |-> i, session |-> s] \in refused'
    BY DEF SessionsEnd
  <2>8. CASE ~(i = j /\ s = subject /\ m.op # "start")
    <3>1. s \in adapter[i].sessions
      <4>1. CASE i # j
        BY <2>5, <4>1
      <4>2. CASE i = j /\ s # subject
        BY <1>2, <2>2, <2>5, <4>2
      <4>3. CASE i = j /\ m.op = "start"
        BY <1>2, <2>5, <4>3 DEF S, answered
      <4>. QED
        BY <2>8, <4>1, <4>2, <4>3
    <3>. QED
      BY <2>5, <2>6, <2>7, <2>8, <3>1 DEF SessionsEnd
  <2>9. CASE i = j /\ s = subject /\ m.op # "start" /\ ~m.ok
    BY <2>1, <2>9
  <2>10. CASE i = j /\ s = subject /\ m.op # "start" /\ m.ok
    <3>1. s.kind # "distance" /\ s \in adapter[i].sessions
      BY <1>2, <2>5, <2>10 DEF S, answered
    <3>. QED
      BY <2>5, <2>7, <3>1 DEF SessionsEnd
  <2>. QED
    BY <2>8, <2>9, <2>10
<1>13. CASE MsgRemoveClient
  <2>. DEFINE own  == {s \in this.sessions : s.client = client}
              kept == {s \in own : s.kind \in {"distance", "trip"}}
              stop == {s \in own : s.kind \in {"distance", "routine"}}
              a == [this EXCEPT !.sessions = (@ \ own) \cup kept, !.clients = @ \ {client}]
  <2>1. /\ queue' = Tail(queue) /\ Head(queue).type = "remove" /\ becomes(a)
        /\ asked' = asked \cup [op : {"remove"}, interface : {j}, session : stop]
        /\ refused' = refused
    BY <1>13 DEF MsgRemoveClient, begin, asks
  <2>2. /\ a \in Adapter /\ a.clients = this.clients \ {client}
        /\ a.sessions = (this.sessions \ own) \cup kept
    BY <1>2, <1>3 DEF Adapter
  <2>. HIDE DEF a
  <2>3. /\ \A i \in Interface \ {j} : adapter'[i] = adapter[i]
        /\ adapter'[j].clients = this.clients \ {client}
        /\ adapter'[j].sessions = (this.sessions \ own) \cup kept
    BY <1>1, <1>2, <2>1, <2>2, Becomes
  <2>4. \A i, s : Answers(queue, i, s) => Answers(queue', i, s)
    BY <1>1, <2>1, AnswersStay
  <2>5. \A i, s : stopUnderway(i, s) => stopUnderway(i, s)'
    BY <2>1, <2>4 DEF stopUnderway, Answers, isAnswer
  <2> SUFFICES ASSUME NEW i \in Interface, NEW s \in adapter'[i].sessions
               PROVE  \/ s.client \in adapter'[i].clients \/ s.kind = "trip"
                      \/ s.kind = "distance" /\ stopUnderway(i, s)'
                      \/ [interface |-> i, session |-> s] \in refused'
    BY DEF SessionsEnd
  <2>6. CASE i # j
    BY <2>1, <2>3, <2>5, <2>6 DEF SessionsEnd
  <2>7. CASE i = j /\ s \notin own
    <3>1. s \in adapter[i].sessions /\ s.client # client
      BY <1>2, <2>3, <2>7
    <3>. QED
      BY <1>2, <2>1, <2>3, <2>5, <2>7, <3>1 DEF SessionsEnd
  <2>8. CASE i = j /\ s \in kept
    <3>1. CASE s.kind = "trip"
      BY <3>1
    <3>2. CASE s.kind = "distance"
      <4>. DEFINE r == [op |-> "remove", interface |-> j, session |-> s]
      <4>1. r \in asked' /\ r.op # "start" /\ r.interface = i /\ r.session = s
        BY <2>1, <2>8, <3>2
      <4>. HIDE DEF r
      <4>. QED
        BY <3>2, <4>1 DEF stopUnderway
    <3>. QED
      BY <2>8, <3>1, <3>2
  <2>. QED
    BY <2>3, <2>6, <2>7, <2>8
<1>14. CASE MsgHandleEngineUp
  <2>. DEFINE a == [this EXCEPT !.known = TRUE, !.pending = <<>>]
  <2>1. /\ queue' = Tail(queue) \o this.pending /\ Head(queue).type = "up" /\ becomes(a)
        /\ asked' = asked /\ refused' = refused
    BY <1>14 DEF MsgHandleEngineUp, begin, sessionVars
  <2>2. <<>> \in Seq(Postponed) /\ this.pending \in Seq(Postponed)
    BY <1>2 DEF Adapter
  <2>3. a \in Adapter /\ a.clients = this.clients /\ a.sessions = this.sessions
    <3>. HIDE DEF Postponed
    <3>. QED
      BY <1>2, <2>2 DEF Adapter
  <2>. HIDE DEF a, Postponed, Message
  <2>4. \A i \in Interface : /\ adapter'[i].clients = adapter[i].clients
                             /\ adapter'[i].sessions = adapter[i].sessions
    BY <1>1, <1>2, <2>1, <2>3, Becomes
  <2>5. /\ Tail(queue) \in Seq(Message)
        /\ \A i, s : Answers(queue, i, s) => Answers(Tail(queue), i, s)
    BY <1>1, <2>1, AnswersStay
  <2>6. \A i, s : Answers(Tail(queue), i, s) => Answers(queue', i, s)
    BY ONLY <2>1, <2>2, <2>5, AnswersPosted
  <2>. QED
    BY <2>1, <2>4, <2>5, <2>6, SessionsKept
<1>. QED
  BY <1>5, <1>9, <1>10, <1>11, <1>12, <1>13, <1>14 DEF AdapterTask

LEMMA ModemKeeps ==
  ASSUME IInv, SessionsEnd, ApiTask \/ handleEngineDownEvent
  PROVE  SessionsEnd'
<1>1. UNCHANGED <<adapter, asked, refused>>
  BY DEF ApiTask, LocOpenMsg, LocSsrMsg, handleEngineDownEvent, sessionVars
<1>2. PICK I \in SUBSET Interface :
        queue' = queue \/ queue' = queue \o messages("up", I, None)
  <2>1. CASE ApiTask
    <3>1. /\ apiQueue # <<>>
          /\ \E I \in {{Head(apiQueue).interface} \ {None}, gData.loaded} : open(I)
      BY <2>1 DEF ApiTask, LocOpenMsg, LocSsrMsg
    <3>2. Head(apiQueue) \in ApiMessage
      <4>. HIDE DEF ApiMessage
      <4>. QED
        BY <3>1, HeadTailProperties DEF IInv, TypeOK
    <3>. QED
      BY <3>1, <3>2 DEF ApiMessage, IInv, TypeOK, open
  <2>2. CASE handleEngineDownEvent
    BY <2>2 DEF handleEngineDownEvent
  <2>. QED
    BY <2>1, <2>2
<1>3. /\ messages("up", I, None) \in Seq([type : {"up"}, interface : I, client : {None}])
      /\ queue \in Seq(Message)
  BY Messages DEF IInv, TypeOK
<1>. HIDE DEF Message
<1>4. \A i, s : Answers(queue, i, s) => Answers(queue \o messages("up", I, None), i, s)
  BY ONLY <1>3, AnswersPosted
<1>. QED
  BY <1>1, <1>2, <1>4, SessionsKept

\* The types of what is asked.
LEMMA SessionTypesHold ==
  ASSUME IInv, SessionTypes, [Next]_vars
  PROVE  SessionTypes'
<1>1. ASSUME Callers  PROVE SessionTypes'
  <2>1. ASSUME NEW c \in Client, NEW i \in Interface, NEW kind \in Kinds[i], startSession(c, i, kind)
        PROVE  SessionTypes'
    <3>. DEFINE s == [client |-> c, id |-> calls, kind |-> kind]
    <3>1. s \in Session
      BY LocationAPIAssumption DEF SessionTypes, Session
    <3>2. /\ issued' = issued \cup {[interface |-> i, session |-> s]}
          /\ calls' = calls + 1 /\ asked' = asked
      BY <2>1 DEF startSession
    <3>. HIDE DEF s
    <3>. QED
      BY <3>1, <3>2 DEF SessionTypes
  <2>2. ASSUME NEW x \in issued, stopSession(x)  PROVE SessionTypes'
    BY <2>2 DEF stopSession, SessionTypes
  <2>3. ASSUME NEW c \in Client, NEW callbacks \in Callbacks,
               createInstance(c, callbacks) \/ updateCallbacks(c, callbacks)
        PROVE  SessionTypes'
    BY <2>3 DEF createInstance, updateCallbacks, SessionTypes, sessionVars
  <2>4. ASSUME NEW c \in Client, NEW withCallback \in BOOLEAN, destroy(c, withCallback)
        PROVE  SessionTypes'
    BY <2>4 DEF destroy, takenApart, SessionTypes, sessionVars
  <2>. QED
    BY <1>1, <2>1, <2>2, <2>3, <2>4 DEF Callers
<1>2. ASSUME AdapterTask  PROVE SessionTypes'
  <2>1. queue # <<>> /\ calls' = calls /\ issued' = issued
    BY <1>2 DEF AdapterTask, MsgAddClient, MsgRequestCapabilities, MsgStartSession, startUnless,
         MsgStopSession, MsgResponse, MsgRemoveClient, MsgHandleEngineUp, begin, sessionVars
  <2>2. /\ this \in Adapter /\ Head(queue).interface \in Interface
        /\ Head(queue).type \in {"start", "stop", "answer"} => subject \in Session
    BY <2>1, Received DEF IInv
  <2>3. this.sessions \in SUBSET Session
    BY <2>2 DEF Adapter
  <2>4. CASE asked' = asked
    BY <2>1, <2>4 DEF SessionTypes
  <2>5. CASE MsgStartSession \/ MsgStopSession
    <3>1. Head(queue).type \in {"start", "stop"}
      BY <2>5 DEF MsgStartSession, startUnless, MsgStopSession, begin
    <3>2. asked' = asked \/ asks({request("start")}) \/ asks({request("stop")})
      BY <2>5 DEF MsgStartSession, startUnless, MsgStopSession
    <3>3. request("start") \in Request /\ request("stop") \in Request
      BY <2>2, <3>1 DEF request, Request
    <3>. QED
      BY <2>1, <3>2, <3>3 DEF asks, SessionTypes
  <2>6. CASE MsgRemoveClient
    <3>1. PICK stop \in SUBSET this.sessions :
            asks([op : {"remove"}, interface : {Head(queue).interface}, session : stop])
      BY <2>6 DEF MsgRemoveClient
    <3>2. [op : {"remove"}, interface : {Head(queue).interface}, session : stop] \subseteq Request
      BY <2>2, <2>3 DEF Request
    <3>. QED
      BY <2>1, <3>1, <3>2 DEF asks, SessionTypes
  <2>. QED
    BY <1>2, <2>4, <2>5, <2>6
       DEF AdapterTask, MsgAddClient, MsgRequestCapabilities, MsgResponse, MsgHandleEngineUp,
           sessionVars
<1>3. ASSUME returnToSender  PROVE SessionTypes'
  BY <1>3 DEF returnToSender, SessionTypes
<1>4. ASSUME ApiTask \/ handleEngineDownEvent  PROVE SessionTypes'
  BY <1>4 DEF ApiTask, LocOpenMsg, LocSsrMsg, handleEngineDownEvent, SessionTypes, sessionVars
<1>5. ASSUME UNCHANGED vars  PROVE SessionTypes'
  BY <1>5 DEF vars, sessionVars, SessionTypes
<1>. QED
  BY <1>1, <1>2, <1>3, <1>4, <1>5 DEF Next

LEMMA SessionsHold ==
  ASSUME IInv, SessionTypes, SessionsEnd, [Next]_vars
  PROVE  SessionsEnd'
<1>1. CASE UNCHANGED vars
  BY <1>1, SessionsKept DEF vars, sessionVars, Answers
<1>. QED
  BY <1>1, CallersKeep, AnswerSent, AdaptersKeep, ModemKeeps DEF Next

\* A deleted client is in no adapter and nothing on its way makes it a client again; and a
\* session outlives its client only if it is by distance and its stop is to be answered, or
\* the modem refused to stop it, or it is a trip: however creations, changes of callbacks,
\* destructions, starts, stops, answers and restarts of the modem interleave with the
\* adapters' messages (LocationAPI.cpp, LocAdapterBase.cpp, GnssAdapter.cpp,
\* BatchingAdapter.cpp).
THEOREM ClientsAreForgotten == Spec => []ClientsEnd
<1>. DEFINE Inv == IInv /\ SessionTypes /\ SessionsEnd
<1>1. IInv => DeletedIsForgotten
  <2> SUFFICES ASSUME IInv  PROVE DeletedIsForgotten
    OBVIOUS
  <2>1. ASSUME NEW c \in Client, object[c] = "deleted", NEW n \in DOMAIN queue
        PROVE  queue[n] \notin [type : {"add", "remove"}, interface : Interface, client : {c}]
    <3>1. DOMAIN queue = 1..Len(queue)
      BY DEF IInv, TypeOK
    <3>2. \A i \in Interface : ~Has(queue, "add", i, c) /\ ~Has(queue, "remove", i, c)
      BY <2>1 DEF IInv, Untouched
    <3>. QED
      BY <2>1, <3>1, <3>2 DEF Has, is
  <2>2. ASSUME NEW c \in Client, object[c] = "deleted", NEW i \in Interface
        PROVE  c \notin adapter[i].clients
    BY <2>2 DEF IInv, Untouched
  <2>. QED
    BY <2>1, <2>2 DEF DeletedIsForgotten
<1>2. Init => Inv
  <2>1. Init => SessionTypes /\ SessionsEnd
    BY DEF Init, SessionTypes, SessionsEnd
  <2>. QED
    BY <2>1, InitHolds
<1>3. Inv /\ [Next]_vars => Inv'
  BY NextHolds, SessionTypesHold, SessionsHold
<1>4. Inv => ClientsEnd
  BY <1>1 DEF ClientsEnd
<1>. HIDE DEF Inv
<1>. QED
  BY <1>2, <1>3, <1>4, PTL DEF Spec
------------------------------------------------------------------------------
(* The modem reports to the adapters that have clients.                    *)

\* Only adapters that are loaded have clients, or are to have; and unless the task of
\* LocApiBase has something to do, the modem knows those that have.
InLoaded ==
  /\ \A i \in Interface : adapter[i].clients # {} => i \in gData.loaded
  /\ \A i \in Interface : \A c : Has(queue, "add", i, c) => i \in gData.loaded
  /\ modem.up /\ apiQueue = <<>> => modem.mask = {i \in Interface : adapter[i].clients # {}}

\* Of a step that changes neither the clients of the adapters nor the modem.
LEMMA LoadedSame ==
  ASSUME InLoaded, gData.loaded \subseteq gData'.loaded, modem' = modem,
         \A i \in Interface : adapter'[i].clients = adapter[i].clients,
         \A i \in Interface : \A c : Has(queue', "add", i, c) =>
           Has(queue, "add", i, c) \/ i \in gData'.loaded,
         apiQueue' = <<>> => apiQueue = <<>>
  PROVE  InLoaded'
<1>1. \A i, c : Has(queue, "add", i, c)' <=> Has(queue', "add", i, c)
  BY DEF Has, is
<1>2. {i \in Interface : adapter'[i].clients # {}} = {i \in Interface : adapter[i].clients # {}}
  OBVIOUS
<1>. QED
  BY <1>1, <1>2 DEF InLoaded

\* The next message of the adapters is taken; what it adds is of the kind of an addition.
LEMMA AddsTaken ==
  ASSUME TypeOK, queue # <<>>
  PROVE  /\ Tail(queue) \in Seq(Message)
         /\ \A i, c : Has(Tail(queue), "add", i, c) => Has(queue, "add", i, c)
         /\ Head(queue).type = "add" => Has(queue, "add", Head(queue).interface, Head(queue).client)
<1>1. queue \in Seq(Message)
  BY DEF TypeOK
<1>2. /\ Tail(queue) \in Seq(Message)
      /\ \A t, i, c : Has(queue, t, i, c) <=> Has(Tail(queue), t, i, c) \/ is(Head(queue), t, i, c)
  BY ONLY <1>1, queue # <<>>, Taken
<1>3. Head(queue).type = "add" => is(Head(queue), "add", Head(queue).interface, Head(queue).client)
  BY DEF is
<1>. QED
  BY <1>2, <1>3

\* Opening the modem is something to do.
LEMMA ApiPosted ==
  ASSUME TypeOK, NEW m \in ApiMessage
  PROVE  Append(apiQueue, m) # <<>>
<1>1. apiQueue \in Seq(ApiMessage)
  BY DEF TypeOK
<1>. HIDE DEF ApiMessage
<1>2. Len(Append(apiQueue, m)) = Len(apiQueue) + 1 /\ Len(apiQueue) \in Nat
  BY <1>1
<1>. QED
  BY <1>2

\* Sessions' messages add no client.
LEMMA SessionsLoad ==
  ASSUME IInv, InLoaded, SessionTypes,
         \/ \E c \in Client, i \in Interface : \E kind \in Kinds[i] : startSession(c, i, kind)
         \/ \E x \in issued : stopSession(x)
         \/ returnToSender
  PROVE  InLoaded'
<1>1. UNCHANGED <<gData, adapter, apiQueue, modem>>
  BY DEF startSession, stopSession, returnToSender
<1>2. PICK m \in OfSession \cup Answer : queue' = Append(queue, m)
  BY SessionMessages
<1>3. /\ <<m>> \in Seq(Message)
      /\ \A i, c : ~Has(<<m>>, "add", i, c)
  BY SessionSaid
<1>4. queue \in Seq(Message) /\ queue' = queue \o <<m>>
  <2>1. queue \in Seq(Message)
    BY DEF IInv, TypeOK
  <2>. HIDE DEF Message
  <2>. QED
    BY <1>2, <2>1
<1>. HIDE DEF Message
<1>5. \A t, j, d : Has(queue', t, j, d) <=> Has(queue, t, j, d) \/ Has(<<m>>, t, j, d)
  BY ONLY <1>3, <1>4, Posted
<1>. QED
  BY <1>1, <1>3, <1>5, LoadedSame

LEMMA CallersLoad == ASSUME IInv, InLoaded, SessionTypes, Callers  PROVE InLoaded'
<1>1. CASE \E c \in Client, i \in Interface : \E kind \in Kinds[i] : startSession(c, i, kind)
  BY <1>1, SessionsLoad
<1>2. queue \in Seq(Message) /\ gData.loaded \in SUBSET Interface /\ apiQueue \in Seq(ApiMessage)
  BY DEF IInv, TypeOK
<1>3. ASSUME NEW c \in Client, NEW callbacks \in Callbacks,
             createInstance(c, callbacks) \/ updateCallbacks(c, callbacks)
      PROVE  InLoaded'
  <2>. DEFINE I == addTo(callbacks)
              s == messages("add", I, c)
              new == (callbacks \cap Library) \ gData.loaded
  <2>1. callbacks \in SUBSET Interface /\ I \in SUBSET Interface /\ new \in SUBSET Interface
    BY LocationAPIAssumption DEF addTo
  <2>2. load(callbacks) /\ gData'.loaded = gData.loaded \cup I /\ modem' = modem
    BY <1>3 DEF createInstance, updateCallbacks, IInv, TypeOK
  <2>3. \A i \in Interface : adapter'[i].clients = adapter[i].clients
    BY <2>1, <2>2, Loads DEF IInv
  <2>4. apiQueue' = <<>> => apiQueue = <<>>
    <3>1. apiQueue' = apiQueue \o messages("open", new, None)
      BY <2>2 DEF load
    <3>2. messages("open", new, None) \in Seq([type : {"open"}, interface : new, client : {None}])
      BY <2>1, Messages
    <3>. DEFINE A == [type : {"open"}, interface : new, client : {None}]
                o == messages("open", new, None)
    <3>. HIDE DEF A, o, ApiMessage
    <3>3. o \in Seq(A) /\ apiQueue' = apiQueue \o o
      BY <3>1, <3>2 DEF A, o
    <3>4. Len(apiQueue') = Len(apiQueue) + Len(o) /\ Len(apiQueue) \in Nat /\ Len(o) \in Nat
      BY <1>2, <3>3
    <3>. QED
      BY <1>2, <3>4
  <2>5. /\ s \in Seq(Message)
        /\ \A i \in Interface : \A d : Has(s, "add", i, d) => i \in I
    <3>1. [type : {"add"}, interface : I, client : {c}] \subseteq Message
      BY <2>1 DEF Message, OfClient
    <3>2. s \in Seq([type : {"add"}, interface : I, client : {c}])
      BY <2>1, Messages
    <3>3. s \in Seq(Message)
      <4>. HIDE DEF s
      <4>. QED
        BY <3>1, <3>2, SeqMonotonic
    <3>4. /\ \A i : Has(s, "add", i, c) <=> i \in I
          /\ \A t, i, d : t # "add" \/ d # c => ~Has(s, t, i, d)
      BY <2>1, Messages
    <3>. QED
      BY <3>3, <3>4
  <2>6. PICK more \in Seq(Message) :
          /\ queue' = (queue \o s) \o more
          /\ \A i, d : ~Has(more, "add", i, d)
    <3>1. <<>> \in Seq(Message) /\ \A i, d : ~Has(<<>>, "add", i, d)
      BY DEF Has
    <3>2. CASE updateCallbacks(c, callbacks) \/ (createInstance(c, callbacks) /\ I = {})
      <4>1. queue' = queue \o s \/ queue' = (queue \o s) \o <<>>
        BY <3>2 DEF createInstance, updateCallbacks
      <4>2. (queue \o s) \o <<>> = queue \o s
        <5>. HIDE DEF s, Message
        <5>. QED
          BY <1>2, <2>5, ConcatProperties, ConcatEmptySeq
      <4>. QED
        BY <3>1, <4>1, <4>2
    <3>3. CASE createInstance(c, callbacks) /\ I # {}
      <4>. DEFINE m == msg("capabilities", inOrder(I)[1], c)
      <4>1. queue' = (queue \o s) \o <<m>>
        BY <3>3 DEF createInstance
      <4>2. inOrder(I)[1] \in Interface
        <5>1. /\ Cardinality(I) \in Nat /\ inOrder(I) \in [1..Cardinality(I) -> I]
              /\ \A i \in I : \E n \in 1..Cardinality(I) : inOrder(I)[n] = i
          BY <2>1, InOrder
        <5>2. 1 \in 1..Cardinality(I)
          BY <3>3, <5>1
        <5>. QED
          BY <2>1, <5>1, <5>2
      <4>3. m \in Message /\ m.type = "capabilities"
        BY <4>2 DEF msg, Message, OfClient
      <4>. HIDE DEF m
      <4>4. <<m>> \in Seq(Message) /\ Len(<<m>>) = 1 /\ <<m>>[1] = m
        BY <4>3
      <4>5. \A i, d : ~Has(<<m>>, "add", i, d)
        BY <4>3, <4>4 DEF Has, is
      <4>. QED
        BY <4>1, <4>4, <4>5
    <3>. QED
      BY <1>3, <3>2, <3>3
  <2>. HIDE DEF s, Message
  <2>7. queue \o s \in Seq(Message)
    BY <1>2, <2>5
  <2>8. \A t, i, d : Has(queue', t, i, d) <=> Has(queue \o s, t, i, d) \/ Has(more, t, i, d)
    BY ONLY <2>6, <2>7, Posted
  <2>9. \A t, i, d : Has(queue \o s, t, i, d) <=> Has(queue, t, i, d) \/ Has(s, t, i, d)
    BY ONLY <1>2, <2>5, Posted
  <2>10. \A i \in Interface : \A d : Has(queue', "add", i, d) =>
           Has(queue, "add", i, d) \/ i \in gData'.loaded
    BY <2>2, <2>5, <2>6, <2>8, <2>9
  <2>. QED
    BY <2>2, <2>3, <2>4, <2>10, LoadedSame
<1>4. ASSUME NEW c \in Client, NEW withCallback \in BOOLEAN, destroy(c, withCallback)
      PROVE  InLoaded'
  <2>. DEFINE s == messages("remove", gData.loaded, c)
  <2>1. /\ queue' = queue \o s /\ UNCHANGED <<adapter, apiQueue, modem>>
        /\ gData'.loaded = gData.loaded
    BY <1>4 DEF destroy, takenApart, IInv, TypeOK
  <2>2. /\ s \in Seq(Message) /\ \A i, d : ~Has(s, "add", i, d)
    <3>1. [type : {"remove"}, interface : gData.loaded, client : {c}] \subseteq Message
      BY <1>2 DEF Message, OfClient
    <3>2. s \in Seq([type : {"remove"}, interface : gData.loaded, client : {c}])
      BY <1>2, Messages
    <3>3. \A t, i, d : t # "remove" \/ d # c => ~Has(s, t, i, d)
      BY <1>2, Messages
    <3>. HIDE DEF s
    <3>. QED
      BY <3>1, <3>2, <3>3, SeqMonotonic
  <2>. HIDE DEF s, Message
  <2>3. \A t, i, d : Has(queue', t, i, d) <=> Has(queue, t, i, d) \/ Has(s, t, i, d)
    BY ONLY <1>2, <2>1, <2>2, Posted
  <2>. QED
    BY <2>1, <2>2, <2>3, LoadedSame
<1>5. CASE \E x \in issued : stopSession(x)
  BY <1>5, SessionsLoad
<1>. QED
  BY <1>1, <1>3, <1>4, <1>5 DEF Callers

LEMMA AdaptersLoad == ASSUME IInv, InLoaded, AdapterTask  PROVE InLoaded'
<1>1. TypeOK
  BY DEF IInv
<1>. DEFINE j == Head(queue).interface
<1>2. ASSUME MsgAddClient \/ MsgRemoveClient  PROVE InLoaded'
  <2>1. /\ queue # <<>> /\ queue' = Tail(queue)
        /\ Head(queue).type \in {"add", "remove"}
        /\ apiQueue' = Append(apiQueue, msg("open", None, None))
    BY <1>2 DEF MsgAddClient, MsgRemoveClient, begin, updateClientsEventMask
  <2>2. gData'.loaded = gData.loaded
    <3>1. CASE MsgAddClient
      BY <3>1 DEF MsgAddClient
    <3>2. CASE MsgRemoveClient
      BY <1>1, <3>2 DEF MsgRemoveClient, onRemoveClientCompleteCb, TypeOK
    <3>. QED
      BY <1>2, <3>1, <3>2
  <2>3. /\ Head(queue) \in Message /\ j \in Interface /\ this \in Adapter /\ this = adapter[j]
        /\ client = Head(queue).client
    BY <1>1, <2>1, Received
  <2>4. client \in Client
    BY <1>1, <2>1, Received
  <2>5. /\ Tail(queue) \in Seq(Message)
        /\ \A i, c : Has(Tail(queue), "add", i, c) => Has(queue, "add", i, c)
        /\ Head(queue).type = "add" => Has(queue, "add", j, Head(queue).client)
    BY <1>1, <2>1, AddsTaken
  <2>6. PICK a \in Adapter :
          /\ becomes(a)
          /\ a.clients \subseteq this.clients \/ (Head(queue).type = "add")
    <3>1. CASE MsgAddClient
      <4>. DEFINE b == [this EXCEPT !.clients = @ \cup {client}]
      <4>1. b \in Adapter
        BY <2>3, <2>4 DEF Adapter
      <4>2. becomes(b) /\ Head(queue).type = "add"
        BY <3>1 DEF MsgAddClient, begin
      <4>. HIDE DEF b
      <4>. QED
        BY <4>1, <4>2
    <3>2. CASE MsgRemoveClient
      <4>. DEFINE own == {s \in this.sessions : s.client = client}
                  kept == {s \in own : s.kind \in {"distance", "trip"}}
                  b == [this EXCEPT !.sessions = (@ \ own) \cup kept,
                                    !.clients = @ \ {client}]
      <4>1. b \in Adapter /\ b.clients \subseteq this.clients
        BY <2>3, <2>4 DEF Adapter
      <4>2. becomes(b)
        BY <3>2 DEF MsgRemoveClient
      <4>. HIDE DEF b
      <4>. QED
        BY <4>1, <4>2
    <3>. QED
      BY <1>2, <3>1, <3>2
  <2>7. /\ adapter'[j] = a
        /\ \A i \in Interface : i # j => adapter'[i] = adapter[i]
    BY <1>1, <2>1, <2>6, Becomes
  <2>8. apiQueue' # <<>>
    <3>1. msg("open", None, None) \in ApiMessage
      BY DEF msg, ApiMessage
    <3>. QED
      BY <1>1, <2>1, <3>1, ApiPosted
  <2>9. j \in gData.loaded \/ a.clients = {}
    BY <2>3, <2>5, <2>6 DEF InLoaded
  <2>10. \A i \in Interface : adapter'[i].clients # {} => i \in gData.loaded
    BY <2>7, <2>9 DEF InLoaded
  <2>11. \A i, c : Has(queue, "add", i, c)' <=> Has(queue', "add", i, c)
    BY DEF Has, is
  <2>. QED
    BY <2>1, <2>2, <2>5, <2>8, <2>10, <2>11 DEF InLoaded
<1>3. ASSUME MsgRequestCapabilities \/ MsgStartSession \/ MsgStopSession \/ MsgResponse
      PROVE  InLoaded'
  <2>1. /\ queue # <<>> /\ queue' = Tail(queue) /\ UNCHANGED <<gData, apiQueue, modem>>
        /\ \A i \in Interface : adapter'[i].clients = adapter[i].clients
    BY <1>1, <1>3, Asks
  <2>2. \A i, c : Has(Tail(queue), "add", i, c) => Has(queue, "add", i, c)
    BY <1>1, <2>1, AddsTaken
  <2>. QED
    BY <2>1, <2>2, LoadedSame
<1>4. ASSUME MsgHandleEngineUp  PROVE InLoaded'
  <2>. DEFINE a == [this EXCEPT !.known = TRUE, !.pending = <<>>]
  <2>1. /\ queue # <<>> /\ queue' = Tail(queue) \o this.pending
        /\ adapter' = [adapter EXCEPT ![j] = a] /\ UNCHANGED <<gData, apiQueue, modem>>
    BY <1>4 DEF MsgHandleEngineUp, begin, becomes
  <2>2. j \in Interface /\ this \in Adapter /\ this = adapter[j] /\ adapter \in [Interface -> Adapter]
    BY <1>1, <2>1, Received DEF TypeOK
  <2>3. a.clients = this.clients
    BY <2>2 DEF Adapter
  <2>. HIDE DEF a
  <2>4. \A i \in Interface : adapter'[i].clients = adapter[i].clients
    BY <2>1, <2>2, <2>3
  <2>5. /\ Tail(queue) \in Seq(Message)
        /\ \A i, c : Has(Tail(queue), "add", i, c) => Has(queue, "add", i, c)
    BY <1>1, <2>1, AddsTaken
  <2>6. this.pending \in Seq(Message) /\ \A i, c : ~Has(this.pending, "add", i, c)
    <3>1. this.pending \in Seq(Postponed) /\ Postponed \subseteq Message
      BY <2>2 DEF Adapter, Postponed, Message, OfClient
    <3>2. \A m \in Postponed : m.type # "add"
      BY DEF Postponed, OfSession
    <3>. HIDE DEF Postponed, Message
    <3>3. this.pending \in Seq(Message) /\ \A n \in 1..Len(this.pending) : this.pending[n] \in Postponed
      BY <3>1, SeqMonotonic
    <3>. QED
      BY <3>2, <3>3 DEF Has, is
  <2>. HIDE DEF Message
  <2>7. \A t, i, d : Has(queue', t, i, d) <=> Has(Tail(queue), t, i, d) \/ Has(this.pending, t, i, d)
    BY ONLY <2>1, <2>5, <2>6, Posted
  <2>. QED
    BY <2>1, <2>4, <2>5, <2>6, <2>7, LoadedSame
<1>. QED
  BY <1>2, <1>3, <1>4 DEF AdapterTask

LEMMA ModemLoads ==
  ASSUME IInv, InLoaded, ApiTask \/ handleEngineDownEvent
  PROVE  InLoaded'
<1>. DEFINE served == {i \in Interface : adapter[i].clients # {}}
<1>1. CASE ApiTask
  <2>1. /\ apiQueue # <<>> /\ apiQueue' = Tail(apiQueue) /\ UNCHANGED <<gData, adapter>>
        /\ \E I \in {{Head(apiQueue).interface} \ {None}, gData.loaded} : open(I)
    BY <1>1 DEF ApiTask, LocOpenMsg, LocSsrMsg
  <2>2. Head(apiQueue) \in ApiMessage
    <3>. HIDE DEF ApiMessage
    <3>. QED
      BY <2>1, HeadTailProperties DEF IInv, TypeOK
  <2>3. PICK I \in SUBSET Interface : open(I)
    BY <2>1, <2>2 DEF ApiMessage, IInv, TypeOK
  <2>4. getEvtMask = served
    BY DEF getEvtMask, InLoaded, IInv, TypeOK
  <2>5. modem'.up => modem'.mask = served
    BY <2>3, <2>4 DEF open, IInv, TypeOK
  <2>6. \A i, c : Has(queue', "add", i, c) => Has(queue, "add", i, c)
    <3>. DEFINE s == messages("up", I, None)
    <3>1. queue' = queue \/ queue' = queue \o s
      BY <2>3 DEF open
    <3>2. queue \in Seq(Message)
      BY DEF IInv, TypeOK
    <3>3. s \in Seq(Message) /\ \A i, c : ~Has(s, "add", i, c)
      <4>1. [type : {"up"}, interface : I, client : {None}] \subseteq Message
        BY DEF Message, OfClient
      <4>2. s \in Seq([type : {"up"}, interface : I, client : {None}])
        BY Messages
      <4>3. \A t, i, d : t # "up" \/ d # None => ~Has(s, t, i, d)
        BY Messages
      <4>. HIDE DEF s
      <4>. QED
        BY <4>1, <4>2, <4>3, SeqMonotonic
    <3>. HIDE DEF s, Message
    <3>4. \A t, i, c : Has(queue \o s, t, i, c) <=> Has(queue, t, i, c) \/ Has(s, t, i, c)
      BY ONLY <3>2, <3>3, Posted
    <3>. QED
      BY <3>1, <3>3, <3>4
  <2>7. \A i, c : Has(queue, "add", i, c)' <=> Has(queue', "add", i, c)
    BY DEF Has, is
  <2>. QED
    BY <2>1, <2>5, <2>6, <2>7 DEF InLoaded
<1>2. CASE handleEngineDownEvent
  <2>1. /\ apiQueue' = Append(apiQueue, msg("ssr", None, None))
        /\ UNCHANGED <<gData, adapter, queue>>
    BY <1>2 DEF handleEngineDownEvent
  <2>2. msg("ssr", None, None) \in ApiMessage
    BY DEF msg, ApiMessage
  <2>3. apiQueue' # <<>>
    BY <2>1, <2>2, ApiPosted DEF IInv
  <2>4. \A i, c : Has(queue, "add", i, c)' <=> Has(queue, "add", i, c)
    BY <2>1 DEF Has, is
  <2>. QED
    BY <2>1, <2>3, <2>4 DEF InLoaded
<1>. QED
  BY <1>1, <1>2

LEMMA LoadedHolds ==
  /\ Init => InLoaded
  /\ IInv /\ SessionTypes /\ InLoaded /\ [Next]_vars => InLoaded'
<1>1. ASSUME Init  PROVE InLoaded
  BY <1>1 DEF Init, InLoaded, Has
<1>2. ASSUME IInv, SessionTypes, InLoaded, [Next]_vars  PROVE InLoaded'
  <2>1. CASE UNCHANGED vars
    <3>1. \A i, c : Has(queue', "add", i, c) <=> Has(queue, "add", i, c)
      BY <2>1 DEF vars
    <3>. QED
      BY <1>2, <2>1, <3>1, LoadedSame DEF vars
  <2>. QED
    BY <1>2, <2>1, CallersLoad, AdaptersLoad, ModemLoads, SessionsLoad DEF Next
<1>. QED
  BY <1>1, <1>2
------------------------------------------------------------------------------
(***************************************************************************)
(* What the adapter registers for.  Its mask is what is asked for, and the *)
(* modem has it unless an opening is on its way (Masked); the sentences    *)
(* (NmeaSet), what the clients were told (ToldOrAsks) and the interval of  *)
(* the fixes (RateSet) are so once the modem is there and the adapter      *)
(* learned of it (Settled), or the last message of the kind makes them so  *)
(* (LastIs), or a client asks yet (AsksAfter).                             *)
(***************************************************************************)
\* Messages of the two tasks: those that wait are of a kind (Holds); the last of a
\* kind has one of some values (LastIs).
Registered == [is : {"agps", "hub", "odcpi", "up", "stop"}, value : {None}]
Interval == {"slow", "fast"}
Later == [is : {"capabilities"}, value : Client] \cup [is : {"start"}, value : Interval]
Task ==
  Registered \cup Later \cup [is : {"remove"}, value : Client]
    \cup [is : {"add"}, value : [client : Client, callbacks : Wish]]
    \cup [is : {"mode"}, value : {{"MSB"}}] \cup [is : {"qwes"}, value : FeatureMaps]
    \cup [is : {"rate"}, value : [fixes : BOOLEAN, measurements : BOOLEAN]]
Nmea == {"GENERAL", "DEBUG"}
ApiTaskOf ==
  [is : {"open", "openAdapter", "ssr"}, value : {None}] \cup [is : {"nmea"}, value : SUBSET Nmea]
    \cup [is : {"fix"}, value : Interval \cup {None}]
Holds(q, k) == \E n \in 1..Len(q) : q[n].is = k
LastIs(q, k, V) ==
  \A n \in 1..Len(q) :
    q[n].is = k /\ (\A m \in 1..Len(q) : m > n => q[m].is # k) => q[n].value \in V

\* The events of the mask; what a configuration says is so or not.
Event == {"POSITION", "SATELLITE", "NMEA_1HZ", "GNSS_MEASUREMENT", "EPHEMERIS", "NHZ_MEASUREMENT",
          "LOCATION_SERVER", "WIFI"}
ConfsFit ==
  /\ \A c \in Conf : c.hub \in BOOLEAN /\ c.assisted \in BOOLEAN /\ c.general \in BOOLEAN
  /\ None \notin Interval

RegTypes ==
  /\ conf \in Conf
  /\ DOMAIN mClientData = Client /\ DOMAIN wasTold = Client
  /\ {registered, odcpi, capable, mNHzNeeded, mSPEAlreadyRunningAtHighestInterval, wanted,
      repeated, changed} \subseteq BOOLEAN
  /\ hub \in [firstTime : BOOLEAN, loaded : BOOLEAN, made : Nat]
  /\ session \in Interval \cup {None} /\ mEvtMask \in SUBSET Event
  /\ engine \in [up : BOOLEAN, mask : SUBSET Event, nmea : SUBSET Nmea, interval : Interval \cup {None}]
  /\ tasks \in Seq(Task) /\ mPendingMsgs \in Seq(Later) /\ apiTasks \in Seq(ApiTaskOf)

\* The modem is there, and no opening of it, or word of that, is on its way.
Settled ==
  /\ engine.up /\ ~Holds(tasks, "up")
  /\ ~Holds(apiTasks, "ssr") /\ ~Holds(apiTasks, "openAdapter")

\* The mask is what is asked for, and the modem has it once it was opened again.
HubOnce ==
  /\ hub.made <= 1 /\ (hub.firstTime => ~hub.loaded /\ hub.made = 0)
  /\ changed => ~hub.firstTime
  /\ \A c \in Client : mClientData[c] # None => changed
  /\ "SATELLITE" \in mEvtMask \cup engine.mask => ~hub.firstTime
  /\ Holds(tasks, "rate") \/ wanted \/ "NHZ_MEASUREMENT" \in mEvtMask => hub.loaded
Masked ==
  /\ mEvtMask \ {"NHZ_MEASUREMENT"} =
       R!clientsMask(mClientData)
         \cup (IF hub.loaded /\ changed THEN {"GNSS_MEASUREMENT", "EPHEMERIS"} ELSE {})
         \cup R!bit(registered, "LOCATION_SERVER") \cup R!bit(odcpi, "WIFI")
  /\ ~repeated => ("NHZ_MEASUREMENT" \in mEvtMask <=> wanted)
  /\ registered => conf.assisted
  /\ engine.up /\ (\A k \in {"open", "ssr", "openAdapter"} : ~Holds(apiTasks, k)) =>
       engine.mask = mEvtMask

\* The sentences are those of the configuration once the adapter knows the modem, and
\* the modem sends these, or is told to, at least.
AtLeast == {v \in SUBSET Nmea : R!nmeaTypes \subseteq v}
NmeaSet ==
  /\ mNmeaMask \in {{}, R!nmeaTypes} /\ (~engine.up => mNmeaMask = {} /\ ~Holds(tasks, "up"))
  /\ engine.nmea \subseteq R!nmeaTypes \cup {"DEBUG"}
  /\ \A n \in 1..Len(apiTasks) : apiTasks[n].is = "nmea" =>
       apiTasks[n].value \subseteq R!nmeaTypes \cup {"DEBUG"}
  /\ Settled => /\ mNmeaMask = R!nmeaTypes /\ capable
                /\ LastIs(apiTasks, "nmea", AtLeast)
                /\ Holds(apiTasks, "nmea") \/ engine.nmea \in AtLeast

\* A client was told what is so, or asks; one that is added asks behind that.
Current == {R!getCapabilities(SUPL_MODE, locQwesFeatType), R!baseCapabilities}
AsksAfter(q, n, c) ==
  \E m \in 1..Len(q) : m > n /\ q[m].is = "capabilities" /\ q[m].value = c
AddsAsk(q) == \A n \in 1..Len(q) : q[n].is = "add" => AsksAfter(q, n, q[n].value.client)
ToldOrAsks ==
  /\ AddsAsk(tasks)
  /\ Settled => \A c \in Client :
       mClientData[c] # None => wasTold[c] \in Current \/ AsksAfter(tasks, 0, c)

\* The last change of the rate on its way, or the modem, has that of the session.
Target == IF session = "slow" /\ mNHzNeeded THEN "fast" ELSE session
RateSet ==
  /\ mSPEAlreadyRunningAtHighestInterval => mNHzNeeded /\ session # None
  /\ LastIs(apiTasks, "fix", {Target})
  /\ ~engine.up => engine.interval = None
  /\ ~Holds(apiTasks, "fix") => engine.interval \in {Target} \cup IF Settled THEN {} ELSE {None}

RegInv == RegTypes /\ HubOnce /\ Masked /\ NmeaSet /\ ToldOrAsks /\ RateSet
------------------------------------------------------------------------------
(* Queues of messages.                                                     *)

LEMMA Joined ==
  ASSUME NEW T, NEW q \in Seq(T), NEW s \in Seq(T)
  PROVE  /\ q \o s \in Seq(T)
         /\ \A k : Holds(q \o s, k) <=> Holds(q, k) \/ Holds(s, k)
         /\ \A k, V : LastIs(s, k, V) /\ (Holds(s, k) \/ LastIs(q, k, V)) => LastIs(q \o s, k, V)
<1>. DEFINE p == q \o s
<1>1. /\ p \in Seq(T) /\ Len(q) \in Nat /\ Len(s) \in Nat /\ Len(p) = Len(q) + Len(s)
      /\ \A n \in 1..Len(q) : p[n] = q[n]
      /\ \A n \in 1..Len(s) : p[Len(q) + n] = s[n]
  OBVIOUS
<1>. HIDE DEF p
<1>2. \A n \in 1..Len(p) : n \in 1..Len(q) \/ n - Len(q) \in 1..Len(s)
  BY <1>1
<1>3. \A n \in 1..Len(p) : n - Len(q) \in 1..Len(s) => p[n] = s[n - Len(q)]
  BY <1>1
<1>4. \A k : Holds(p, k) <=> Holds(q, k) \/ Holds(s, k)
  <2>1. \A k : Holds(p, k) => Holds(q, k) \/ Holds(s, k)
    BY <1>1, <1>2, <1>3 DEF Holds
  <2>2. \A n \in 1..Len(q) : n \in 1..Len(p)
    BY <1>1
  <2>3. \A n \in 1..Len(s) : Len(q) + n \in 1..Len(p)
    BY <1>1
  <2>4. \A k : Holds(q, k) => Holds(p, k)
    BY <1>1, <2>2 DEF Holds
  <2>5. \A k : Holds(s, k) => Holds(p, k)
    BY <1>1, <2>3 DEF Holds
  <2>. QED
    BY <2>1, <2>4, <2>5
<1>5. ASSUME NEW k, NEW V, LastIs(s, k, V), Holds(s, k) \/ LastIs(q, k, V)
      PROVE  LastIs(p, k, V)
  <2> SUFFICES ASSUME NEW n \in 1..Len(p), p[n].is = k,
                      \A m \in 1..Len(p) : m > n => p[m].is # k
               PROVE  p[n].value \in V
    BY DEF LastIs
  <2>1. CASE n - Len(q) \in 1..Len(s)
    <3>1. \A m \in 1..Len(s) : m > n - Len(q) => s[m].is # k
      <4> SUFFICES ASSUME NEW m \in 1..Len(s), m > n - Len(q)  PROVE s[m].is # k
        OBVIOUS
      <4>1. Len(q) + m \in 1..Len(p) /\ Len(q) + m > n /\ p[Len(q) + m] = s[m]
        BY <1>1
      <4>. QED
        BY <4>1
    <3>. QED
      BY <1>3, <1>5, <2>1, <3>1 DEF LastIs
  <2>2. CASE n \in 1..Len(q)
    <3>1. ~Holds(s, k)
      <4> SUFFICES ASSUME NEW m \in 1..Len(s), s[m].is = k  PROVE FALSE
        BY DEF Holds
      <4>1. Len(q) + m \in 1..Len(p) /\ Len(q) + m > n /\ p[Len(q) + m] = s[m]
        BY <1>1, <2>2
      <4>. QED
        BY <4>1
    <3>2. \A m \in 1..Len(q) : m > n => q[m].is # k
      <4>1. \A m \in 1..Len(q) : m \in 1..Len(p)
        BY <1>1
      <4>. QED
        BY <1>1, <4>1
    <3>. QED
      BY <1>1, <1>5, <2>2, <3>1, <3>2 DEF LastIs
  <2>. QED
    BY <1>2, <2>1, <2>2
<1>. QED
  BY <1>1, <1>4, <1>5 DEF p

LEMMA Alone ==
  ASSUME NEW T
  PROVE  /\ <<>> \in Seq(T)
         /\ \A k : ~Holds(<<>>, k)
         /\ \A k, V : LastIs(<<>>, k, V)
         /\ \A m \in T : /\ <<m>> \in Seq(T)
                         /\ \A k : Holds(<<m>>, k) <=> m.is = k
                         /\ \A k, V : LastIs(<<m>>, k, V) <=> (m.is = k => m.value \in V)
<1>1. <<>> \in Seq(T) /\ Len(<<>>) = 0
  OBVIOUS
<1>2. \A k : ~Holds(<<>>, k)
  BY <1>1 DEF Holds
<1>3. \A k, V : LastIs(<<>>, k, V)
  BY <1>1 DEF LastIs
<1>4. ASSUME NEW m \in T
      PROVE  /\ <<m>> \in Seq(T)
             /\ \A k : Holds(<<m>>, k) <=> m.is = k
             /\ \A k, V : LastIs(<<m>>, k, V) <=> (m.is = k => m.value \in V)
  <2>. DEFINE s == <<m>>
  <2>1. s \in Seq(T) /\ Len(s) = 1 /\ s[1] = m
    OBVIOUS
  <2>. HIDE DEF s
  <2>2. \A n \in 1..Len(s) : n = 1
    BY <2>1
  <2>3. 1 \in 1..Len(s)
    BY <2>1
  <2>4. \A k : Holds(s, k) <=> m.is = k
    BY <2>1, <2>2, <2>3 DEF Holds
  <2>5. \A k, V : LastIs(s, k, V) <=> (m.is = k => m.value \in V)
    <3>1. \A a, b \in 1..Len(s) : ~(a > b)
      BY <2>1
    <3>. QED
      BY <2>1, <2>2, <2>3, <3>1 DEF LastIs
  <2>. QED
    BY <2>1, <2>4, <2>5 DEF s
<1>. QED
  BY <1>1, <1>2, <1>3, <1>4

LEMMA Rest ==
  ASSUME NEW T, NEW q \in Seq(T), q # <<>>
  PROVE  /\ Tail(q) \in Seq(T) /\ Head(q) \in T
         /\ \A k : Holds(q, k) <=> Head(q).is = k \/ Holds(Tail(q), k)
         /\ \A k, V : LastIs(q, k, V) =>
              /\ LastIs(Tail(q), k, V)
              /\ Head(q).is = k /\ ~Holds(Tail(q), k) => Head(q).value \in V
<1>. DEFINE t == Tail(q)
<1>1. /\ t \in Seq(T) /\ Len(q) \in Nat /\ Len(q) >= 1 /\ Len(t) = Len(q) - 1
      /\ \A n \in 1..Len(t) : t[n] = q[n + 1]
      /\ Head(q) = q[1] /\ q[1] \in T
  OBVIOUS
<1>. HIDE DEF t
<1>2. \A n \in 1..Len(t) : n + 1 \in 1..Len(q)
  BY <1>1
<1>3. \A n \in 1..Len(q) : n # 1 => n - 1 \in 1..Len(t) /\ q[n] = t[n - 1]
  <2> SUFFICES ASSUME NEW n \in 1..Len(q), n # 1  PROVE n - 1 \in 1..Len(t) /\ q[n] = t[n - 1]
    OBVIOUS
  <2>1. n - 1 \in 1..Len(t)
    BY <1>1
  <2>2. t[n - 1] = q[(n - 1) + 1]
    BY <1>1, <2>1
  <2>. QED
    BY <2>1, <2>2
<1>4. 1 \in 1..Len(q)
  BY <1>1
<1>5. \A k : Holds(q, k) <=> Head(q).is = k \/ Holds(t, k)
  <2>1. \A k : Holds(q, k) => Head(q).is = k \/ Holds(t, k)
    BY <1>1, <1>3 DEF Holds
  <2>2. \A k : Holds(t, k) => Holds(q, k)
    BY <1>1, <1>2 DEF Holds
  <2>3. \A k : Head(q).is = k => Holds(q, k)
    BY <1>1, <1>4 DEF Holds
  <2>. QED
    BY <2>1, <2>2, <2>3
<1>6. ASSUME NEW k, NEW V, LastIs(q, k, V)
      PROVE  /\ LastIs(t, k, V)
             /\ Head(q).is = k /\ ~Holds(t, k) => Head(q).value \in V
  <2>1. LastIs(t, k, V)
    <3> SUFFICES ASSUME NEW n \in 1..Len(t), t[n].is = k,
                        \A m \in 1..Len(t) : m > n => t[m].is # k
                 PROVE  t[n].value \in V
      BY DEF LastIs
    <3>1. n + 1 \in 1..Len(q) /\ q[n + 1] = t[n]
      BY <1>1, <1>2
    <3>2. \A m \in 1..Len(q) : m > n + 1 => q[m].is # k
      <4> SUFFICES ASSUME NEW m \in 1..Len(q), m > n + 1  PROVE q[m].is # k
        OBVIOUS
      <4>1. m # 1 /\ m - 1 > n
        OBVIOUS
      <4>. QED
        BY <1>3, <4>1
    <3>. QED
      BY <1>6, <3>1, <3>2 DEF LastIs
  <2>2. ASSUME Head(q).is = k, ~Holds(t, k)  PROVE Head(q).value \in V
    <3>1. \A m \in 1..Len(q) : m > 1 => q[m].is # k
      <4> SUFFICES ASSUME NEW m \in 1..Len(q), m > 1  PROVE q[m].is # k
        OBVIOUS
      <4>. QED
        BY <1>3, <2>2 DEF Holds
    <3>. QED
      BY <1>1, <1>4, <1>6, <2>2, <3>1 DEF LastIs
  <2>. QED
    BY <2>1, <2>2
<1>. QED
  BY <1>1, <1>5, <1>6 DEF t

\* Clients that ask.
LEMMA AsksJoined ==
  ASSUME NEW T, NEW q \in Seq(T), NEW s \in Seq(T)
  PROVE  /\ AddsAsk(q) /\ AddsAsk(s) => AddsAsk(q \o s)
         /\ \A c : AsksAfter(q, 0, c) => AsksAfter(q \o s, 0, c)
<1>. DEFINE p == q \o s
<1>1. /\ Len(q) \in Nat /\ Len(s) \in Nat /\ Len(p) = Len(q) + Len(s)
      /\ \A n \in 1..Len(q) : p[n] = q[n]
      /\ \A n \in 1..Len(s) : p[Len(q) + n] = s[n]
  OBVIOUS
<1>. HIDE DEF p
<1>2. \A n \in 1..Len(q) : n \in 1..Len(p)
  BY <1>1
<1>3. \A n \in 1..Len(s) : Len(q) + n \in 1..Len(p)
  BY <1>1
<1>4. \A c, n : AsksAfter(q, n, c) => AsksAfter(p, n, c)
  BY <1>1, <1>2 DEF AsksAfter
<1>5. \A c : \A n \in Nat : AsksAfter(s, n, c) => AsksAfter(p, Len(q) + n, c)
  <2> SUFFICES ASSUME NEW c, NEW n \in Nat, NEW m \in 1..Len(s), m > n,
                      s[m].is = "capabilities" /\ s[m].value = c
               PROVE  AsksAfter(p, Len(q) + n, c)
    BY DEF AsksAfter
  <2>1. Len(q) + m \in 1..Len(p) /\ Len(q) + m > Len(q) + n /\ p[Len(q) + m] = s[m]
    BY <1>1, <1>3
  <2>. QED
    BY <2>1 DEF AsksAfter
<1>6. ASSUME AddsAsk(q), AddsAsk(s)  PROVE AddsAsk(p)
  <2> SUFFICES ASSUME NEW n \in 1..Len(p), p[n].is = "add"
               PROVE  AsksAfter(p, n, p[n].value.client)
    BY DEF AddsAsk
  <2>1. CASE n \in 1..Len(q)
    BY <1>1, <1>4, <1>6, <2>1 DEF AddsAsk
  <2>2. CASE n \notin 1..Len(q)
    <3>1. n - Len(q) \in 1..Len(s) /\ n - Len(q) \in Nat /\ Len(q) + (n - Len(q)) = n
      BY <1>1, <2>2
    <3>2. p[n] = s[n - Len(q)]
      BY <1>1, <3>1
    <3>. QED
      BY <1>5, <1>6, <3>1, <3>2 DEF AddsAsk
  <2>. QED
    BY <2>1, <2>2
<1>. QED
  BY <1>4, <1>6 DEF p

LEMMA AsksRest ==
  ASSUME NEW T, NEW q \in Seq(T), q # <<>>
  PROVE  /\ AddsAsk(q) => AddsAsk(Tail(q))
         /\ \A c : AsksAfter(q, 0, c) /\ ~(Head(q).is = "capabilities" /\ Head(q).value = c) =>
              AsksAfter(Tail(q), 0, c)
         /\ AddsAsk(q) /\ Head(q).is = "add" => AsksAfter(Tail(q), 0, Head(q).value.client)
<1>. DEFINE t == Tail(q)
<1>1. /\ Len(q) \in Nat /\ Len(q) >= 1 /\ Len(t) = Len(q) - 1
      /\ \A n \in 1..Len(t) : t[n] = q[n + 1]
      /\ Head(q) = q[1]
  OBVIOUS
<1>. HIDE DEF t
<1>2. \A n \in 1..Len(t) : n + 1 \in 1..Len(q)
  BY <1>1
<1>3. \A n \in 1..Len(q) : n # 1 => n - 1 \in 1..Len(t) /\ q[n] = t[n - 1]
  <2> SUFFICES ASSUME NEW n \in 1..Len(q), n # 1  PROVE n - 1 \in 1..Len(t) /\ q[n] = t[n - 1]
    OBVIOUS
  <2>1. n - 1 \in 1..Len(t)
    BY <1>1
  <2>2. t[n - 1] = q[(n - 1) + 1]
    BY <1>1, <2>1
  <2>. QED
    BY <2>1, <2>2
<1>4. \A c : \A n \in Nat : AsksAfter(q, n + 1, c) => AsksAfter(t, n, c)
  <2> SUFFICES ASSUME NEW c, NEW n \in Nat, NEW m \in 1..Len(q), m > n + 1,
                      q[m].is = "capabilities" /\ q[m].value = c
               PROVE  AsksAfter(t, n, c)
    BY DEF AsksAfter
  <2>1. m # 1 /\ m - 1 > n
    OBVIOUS
  <2>. QED
    BY <1>3, <2>1 DEF AsksAfter
<1>5. ASSUME AddsAsk(q)  PROVE AddsAsk(t)
  <2> SUFFICES ASSUME NEW n \in 1..Len(t), t[n].is = "add"
               PROVE  AsksAfter(t, n, t[n].value.client)
    BY DEF AddsAsk
  <2>1. n \in Nat /\ n + 1 \in 1..Len(q) /\ q[n + 1] = t[n]
    BY <1>1, <1>2
  <2>. QED
    BY <1>4, <1>5, <2>1 DEF AddsAsk
<1>6. ASSUME NEW c, AsksAfter(q, 0, c), ~(Head(q).is = "capabilities" /\ Head(q).value = c)
      PROVE  AsksAfter(t, 0, c)
  <2>1. PICK m \in 1..Len(q) : m > 0 /\ q[m].is = "capabilities" /\ q[m].value = c
    BY <1>6 DEF AsksAfter
  <2>2. m # 1 /\ m - 1 > 0
    BY <1>1, <1>6, <2>1
  <2>. QED
    BY <1>3, <2>1, <2>2 DEF AsksAfter
<1>7. ASSUME AddsAsk(q), Head(q).is = "add"  PROVE AsksAfter(t, 0, Head(q).value.client)
  <2>1. 1 \in 1..Len(q)
    BY <1>1
  <2>2. AsksAfter(q, 0 + 1, q[1].value.client)
    BY <1>1, <1>7, <2>1 DEF AddsAsk
  <2>3. 0 \in Nat
    OBVIOUS
  <2>. QED
    BY <1>1, <1>4, <2>2, <2>3
<1>. QED
  BY <1>5, <1>6, <1>7 DEF t
------------------------------------------------------------------------------
(* What the parts of the invariant depend on.                              *)

\* What is sent to the task of LocApiBase is none of the messages that open the modem.
Saying(s) ==
  /\ s \in Seq(ApiTaskOf) /\ ~Holds(s, "ssr") /\ ~Holds(s, "openAdapter")
  /\ \A n \in 1..Len(s) : s[n].is = "nmea" => s[n].value \subseteq R!nmeaTypes \cup {"DEBUG"}

LEMMA SaidTwice ==
  ASSUME NEW q \in Seq(ApiTaskOf), NEW a, NEW b, Saying(a), Saying(b)
  PROVE  /\ Saying(a \o b) /\ (q \o a) \o b = q \o (a \o b)
         /\ \A k : Holds(a \o b, k) <=> Holds(a, k) \/ Holds(b, k)
         /\ \A k, V : LastIs(b, k, V) /\ (Holds(b, k) \/ LastIs(a, k, V)) => LastIs(a \o b, k, V)
<1>. HIDE DEF ApiTaskOf
<1>1. a \in Seq(ApiTaskOf) /\ b \in Seq(ApiTaskOf)
  BY DEF Saying
<1>2. (q \o a) \o b = q \o (a \o b)
  BY <1>1, ConcatAssociative
<1>3. /\ a \o b \in Seq(ApiTaskOf)
      /\ \A k : Holds(a \o b, k) <=> Holds(a, k) \/ Holds(b, k)
      /\ \A k, V : LastIs(b, k, V) /\ (Holds(b, k) \/ LastIs(a, k, V)) => LastIs(a \o b, k, V)
  BY ONLY <1>1, Joined
<1>4. \A n \in 1..Len(a \o b) : (a \o b)[n].is = "nmea" =>
        (a \o b)[n].value \subseteq R!nmeaTypes \cup {"DEBUG"}
  <2>. DEFINE p == a \o b
  <2>1. /\ Len(a) \in Nat /\ Len(b) \in Nat /\ Len(p) = Len(a) + Len(b)
        /\ \A n \in 1..Len(a) : p[n] = a[n]
        /\ \A n \in 1..Len(b) : p[Len(a) + n] = b[n]
    BY <1>1
  <2>. HIDE DEF p
  <2> SUFFICES ASSUME NEW n \in 1..Len(p), p[n].is = "nmea"
               PROVE  p[n].value \subseteq R!nmeaTypes \cup {"DEBUG"}
    BY DEF p
  <2>2. CASE n \in 1..Len(a)
    BY <2>1, <2>2 DEF Saying
  <2>3. CASE n \notin 1..Len(a)
    <3>1. n - Len(a) \in 1..Len(b) /\ Len(a) + (n - Len(a)) = n
      BY <2>1, <2>3
    <3>2. p[n] = b[n - Len(a)]
      BY <2>1, <3>1
    <3>. QED
      BY <3>1, <3>2 DEF Saying
  <2>. QED
    BY <2>2, <2>3
<1>. QED
  BY <1>2, <1>3, <1>4 DEF Saying

LEMMA Said ==
  /\ Saying(<<>>) /\ Saying(<<R!msg("open", None)>>)
  /\ \A v \in Interval \cup {None} : Saying(<<R!fix(v)>>)
  /\ \A v \in SUBSET Nmea : v \subseteq R!nmeaTypes \cup {"DEBUG"} => Saying(<<R!msg("nmea", v)>>)
<1>1. Saying(<<>>)
  <2>1. Len(<<>>) = 0
    OBVIOUS
  <2>. QED
    BY <2>1, Alone DEF Saying
<1>2. ASSUME NEW m \in ApiTaskOf, m.is \notin {"ssr", "openAdapter"},
             m.is = "nmea" => m.value \subseteq R!nmeaTypes \cup {"DEBUG"}
      PROVE  Saying(<<m>>)
  <2>1. <<m>> \in Seq(ApiTaskOf) /\ (\A k : Holds(<<m>>, k) <=> m.is = k)
    BY ONLY <1>2, Alone
  <2>2. \A n \in 1..Len(<<m>>) : <<m>>[n] = m
    OBVIOUS
  <2>. QED
    BY <1>2, <2>1, <2>2 DEF Saying
<1>3. R!msg("open", None) \in ApiTaskOf /\ R!msg("open", None).is = "open"
  BY DEF R!msg, ApiTaskOf
<1>4. \A v \in Interval \cup {None} : R!fix(v) \in ApiTaskOf /\ R!fix(v).is = "fix"
  BY DEF R!msg, R!fix, ApiTaskOf
<1>5. \A v \in SUBSET Nmea : /\ R!msg("nmea", v) \in ApiTaskOf
                             /\ R!msg("nmea", v).is = "nmea" /\ R!msg("nmea", v).value = v
  BY DEF R!msg, ApiTaskOf
<1>. QED
  BY <1>1, <1>2, <1>3, <1>4, <1>5

LEMMA SettledSame ==
  ASSUME RegTypes, engine' = engine, Holds(tasks', "up") <=> Holds(tasks, "up"),
         NEW s, Saying(s), apiTasks' = apiTasks \o s
  PROVE  /\ Settled' <=> Settled
         /\ apiTasks' \in Seq(ApiTaskOf)
         /\ \A k : Holds(apiTasks', k) <=> Holds(apiTasks, k) \/ Holds(s, k)
<1>1. apiTasks \in Seq(ApiTaskOf) /\ s \in Seq(ApiTaskOf)
  BY DEF RegTypes, Saying
<1>2. apiTasks' \in Seq(ApiTaskOf) /\ (\A k : Holds(apiTasks', k) <=> Holds(apiTasks, k) \/ Holds(s, k))
  BY ONLY <1>1, apiTasks' = apiTasks \o s, Joined
<1>. QED
  BY <1>2 DEF Settled, Saying

LEMMA CurrentKept ==
  ASSUME engine' = engine, conf' = conf, SUPL_MODE' = SUPL_MODE, locQwesFeatType' = locQwesFeatType
  PROVE  Current' = Current /\ (R!nmeaTypes)' = R!nmeaTypes
  BY DEF Current, R!getCapabilities, R!baseCapabilities, R!features, R!always, R!carrierCapabilities,
         R!sQwesFeatureMask, R!nmeaTypes, R!bit

LEMMA NmeaSame ==
  ASSUME RegTypes, NmeaSet, engine' = engine, conf' = conf, mNmeaMask' = mNmeaMask,
         capable' = capable, Holds(tasks', "up") <=> Holds(tasks, "up"),
         NEW s, Saying(s), apiTasks' = apiTasks \o s, Settled => LastIs(s, "nmea", AtLeast)
  PROVE  NmeaSet'
<1>1. /\ Settled' <=> Settled
      /\ \A k : Holds(apiTasks', k) <=> Holds(apiTasks, k) \/ Holds(s, k)
  BY SettledSame
<1>2. (R!nmeaTypes)' = R!nmeaTypes
  BY DEF R!nmeaTypes, R!bit, R!features
<1>3. AtLeast' = AtLeast
  BY <1>2 DEF AtLeast
<1>4. apiTasks \in Seq(ApiTaskOf) /\ s \in Seq(ApiTaskOf)
  BY DEF RegTypes, Saying
<1>5. Settled => LastIs(apiTasks', "nmea", AtLeast)
  <2>1. \A V : LastIs(s, "nmea", V) /\ (Holds(s, "nmea") \/ LastIs(apiTasks, "nmea", V)) =>
          LastIs(apiTasks', "nmea", V)
    BY ONLY <1>4, apiTasks' = apiTasks \o s, Joined
  <2>. QED
    BY <2>1 DEF NmeaSet
<1>6. \A n \in 1..Len(apiTasks') : apiTasks'[n].is = "nmea" =>
        apiTasks'[n].value \subseteq R!nmeaTypes \cup {"DEBUG"}
  <2>1. /\ Len(apiTasks) \in Nat /\ Len(s) \in Nat /\ Len(apiTasks') = Len(apiTasks) + Len(s)
        /\ \A n \in 1..Len(apiTasks) : apiTasks'[n] = apiTasks[n]
        /\ \A n \in 1..Len(s) : apiTasks'[Len(apiTasks) + n] = s[n]
    <3>. HIDE DEF ApiTaskOf
    <3>. QED
      BY <1>4
  <2> SUFFICES ASSUME NEW n \in 1..Len(apiTasks'), apiTasks'[n].is = "nmea"
               PROVE  apiTasks'[n].value \subseteq R!nmeaTypes \cup {"DEBUG"}
    OBVIOUS
  <2>2. CASE n \in 1..Len(apiTasks)
    BY <2>1, <2>2 DEF NmeaSet
  <2>3. CASE n \notin 1..Len(apiTasks)
    <3>1. n - Len(apiTasks) \in 1..Len(s) /\ Len(apiTasks) + (n - Len(apiTasks)) = n
      BY <2>1, <2>3
    <3>2. apiTasks'[n] = s[n - Len(apiTasks)]
      BY <2>1, <3>1
    <3>. QED
      BY <3>1, <3>2 DEF Saying
  <2>. QED
    BY <2>2, <2>3
<1>7. LastIs(apiTasks, "nmea", AtLeast)' <=> LastIs(apiTasks', "nmea", AtLeast)
  BY <1>3 DEF LastIs
<1>8. mNmeaMask' \in {{}, (R!nmeaTypes)'} /\ (~engine'.up => mNmeaMask' = {} /\ ~Holds(tasks', "up"))
      /\ engine'.nmea \subseteq (R!nmeaTypes)' \cup {"DEBUG"}
  BY <1>2 DEF NmeaSet
<1>9. Settled' => /\ mNmeaMask' = (R!nmeaTypes)' /\ capable'
                  /\ LastIs(apiTasks, "nmea", AtLeast)'
                  /\ Holds(apiTasks', "nmea") \/ engine'.nmea \in AtLeast'
  BY <1>1, <1>2, <1>3, <1>5, <1>7 DEF NmeaSet
<1>10. Holds(tasks, "up")' <=> Holds(tasks', "up")
  BY DEF Holds
<1>. QED
  BY <1>2, <1>6, <1>8, <1>9, <1>10 DEF NmeaSet

LEMMA RateSame ==
  ASSUME RegTypes, RateSet, engine' = engine, Holds(tasks', "up") <=> Holds(tasks, "up"),
         NEW s, Saying(s), apiTasks' = apiTasks \o s,
         LastIs(s, "fix", {Target'}), Holds(s, "fix") \/ Target' = Target,
         mSPEAlreadyRunningAtHighestInterval' => mNHzNeeded' /\ session' # None
  PROVE  RateSet'
<1>1. /\ Settled' <=> Settled
      /\ \A k : Holds(apiTasks', k) <=> Holds(apiTasks, k) \/ Holds(s, k)
  BY SettledSame
<1>2. apiTasks \in Seq(ApiTaskOf) /\ s \in Seq(ApiTaskOf)
  BY DEF RegTypes, Saying
<1>3. LastIs(apiTasks', "fix", {Target'})
  <2>1. \A V : LastIs(s, "fix", V) /\ (Holds(s, "fix") \/ LastIs(apiTasks, "fix", V)) =>
          LastIs(apiTasks', "fix", V)
    BY ONLY <1>2, apiTasks' = apiTasks \o s, Joined
  <2>2. Holds(s, "fix") \/ LastIs(apiTasks, "fix", {Target'})
    BY DEF RateSet
  <2>. QED
    BY <2>1, <2>2
<1>4. LastIs(apiTasks, "fix", {Target})' <=> LastIs(apiTasks', "fix", {Target'})
  BY DEF LastIs
<1>5. ~Holds(apiTasks', "fix") =>
        engine'.interval \in {Target'} \cup IF Settled' THEN {} ELSE {None}
  BY <1>1 DEF RateSet
<1>6. \A k : Holds(apiTasks, k)' <=> Holds(apiTasks', k)
  BY DEF Holds
<1>. QED
  BY <1>1, <1>3, <1>4, <1>5, <1>6 DEF RateSet

LEMMA ToldSame ==
  ASSUME ToldOrAsks, Settled' => Settled, Current' = Current, wasTold' = wasTold,
         mClientData' = mClientData, AddsAsk(tasks'),
         \A c \in Client : AsksAfter(tasks, 0, c) => AsksAfter(tasks', 0, c)
  PROVE  ToldOrAsks'
<1>1. AddsAsk(tasks)' <=> AddsAsk(tasks')
  BY DEF AddsAsk, AsksAfter
<1>2. \A c : AsksAfter(tasks, 0, c)' <=> AsksAfter(tasks', 0, c)
  BY DEF AsksAfter
<1>. QED
  BY <1>1, <1>2 DEF ToldOrAsks

LEMMA MaskSame ==
  ASSUME Masked, mEvtMask' = mEvtMask, mClientData' = mClientData, hub' = hub, changed' = changed,
         registered' = registered, odcpi' = odcpi, mNmeaMask' = mNmeaMask, wanted' = wanted,
         repeated' = repeated, conf' = conf, engine' = engine,
         \A k \in {"open", "ssr", "openAdapter"} : Holds(apiTasks, k) => Holds(apiTasks', k)
  PROVE  Masked'
<1>1. R!clientsMask(mClientData)' = R!clientsMask(mClientData)
  BY DEF R!clientsMask, R!someone, R!bit
<1>2. \A k : Holds(apiTasks, k)' <=> Holds(apiTasks', k)
  BY DEF Holds
<1>. QED
  BY <1>1, <1>2 DEF Masked, R!bit
------------------------------------------------------------------------------
(* Commands and the smaller messages.                                      *)

LEMMA RegInit == ASSUME ConfsFit, R!Init  PROVE RegInv
<1>. USE DEF R!Init
<1>1. /\ \A k : ~Holds(mPendingMsgs, k)
      /\ \A k : Holds(apiTasks, k) <=> k = "openAdapter"
      /\ tasks \in Seq(Task) /\ mPendingMsgs \in Seq(Later) /\ apiTasks \in Seq(ApiTaskOf)
      /\ Len(tasks) = 2 /\ tasks[1].is = "agps" /\ tasks[2].is = "hub"
  <2>1. R!msg("openAdapter", None) \in ApiTaskOf /\ R!msg("openAdapter", None).is = "openAdapter"
    BY DEF R!msg, ApiTaskOf
  <2>2. /\ R!msg("agps", None) \in Task /\ R!msg("agps", None).is = "agps"
        /\ R!msg("hub", None) \in Task /\ R!msg("hub", None).is = "hub"
    BY DEF R!msg, Task, Registered
  <2>. HIDE DEF Task, ApiTaskOf, Later
  <2>3. <<>> \in Seq(Later) /\ \A k : ~Holds(<<>>, k)
    BY Alone
  <2>4. apiTasks \in Seq(ApiTaskOf) /\ \A k : Holds(apiTasks, k) <=> R!msg("openAdapter", None).is = k
    BY <2>1, Alone
  <2>5. tasks \in Seq(Task) /\ Len(tasks) = 2 /\ tasks[1].is = "agps" /\ tasks[2].is = "hub"
    BY <2>2
  <2>. QED
    BY <2>1, <2>3, <2>4, <2>5
<1>2. \A n \in 1..Len(tasks) : tasks[n].is \in {"agps", "hub"}
  BY <1>1
<1>3. ~Settled
  BY DEF Settled, R!Down
<1>4. RegTypes
  BY <1>1 DEF RegTypes, R!Down
<1>5. HubOnce
  BY <1>1, <1>2, <1>4 DEF HubOnce, Holds, R!Down
<1>6. Masked
  BY <1>1 DEF Masked, R!clientsMask, R!someone, R!bit, R!Down
<1>7. NmeaSet
  <2>1. \A n \in 1..Len(apiTasks) : apiTasks[n].is # "nmea"
    BY <1>1 DEF Holds
  <2>2. ~Holds(tasks, "up")
    BY <1>2 DEF Holds
  <2>. QED
    BY <1>3, <2>1, <2>2 DEF NmeaSet, R!Down
<1>8. ToldOrAsks
  BY <1>2, <1>3 DEF ToldOrAsks, AddsAsk
<1>9. RateSet
  <2>1. \A n \in 1..Len(apiTasks) : apiTasks[n].is # "fix"
    BY <1>1 DEF Holds
  <2>. QED
    BY <1>3, <2>1, <1>4 DEF RateSet, LastIs, R!Down, ConfsFit, Target, Interval
<1>. QED
  BY <1>4, <1>5, <1>6, <1>7, <1>8, <1>9 DEF RegInv

\* Messages for the adapter alone.
LEMMA Commanded ==
  ASSUME RegInv, NEW s \in Seq(Task), R!command(s), ~Holds(s, "up"), AddsAsk(s),
         Holds(s, "rate") => hub.loaded
  PROVE  RegInv'
<1>1. /\ tasks' = tasks \o s
      /\ UNCHANGED <<conf, losses, R!wiring, capable, R!masks, R!fixes, hub, apiTasks, engine>>
  BY DEF R!command
<1>. USE DEF R!wiring, R!masks, R!fixes
<1>2. tasks \in Seq(Task) /\ apiTasks \in Seq(ApiTaskOf)
  BY DEF RegInv, RegTypes
<1>. HIDE DEF Task, ApiTaskOf, Later
<1>3. tasks' \in Seq(Task) /\ \A k : Holds(tasks', k) <=> Holds(tasks, k) \/ Holds(s, k)
  BY ONLY <1>1, <1>2, s \in Seq(Task), Joined
<1>4. /\ AddsAsk(tasks) /\ AddsAsk(s) => AddsAsk(tasks')
      /\ \A c : AsksAfter(tasks, 0, c) => AsksAfter(tasks', 0, c)
  BY ONLY <1>1, <1>2, s \in Seq(Task), AsksJoined
<1>5. apiTasks' = apiTasks \o <<>> /\ Saying(<<>>)
  BY <1>1, <1>2, Said
<1>6. /\ \A k, V : LastIs(<<>>, k, V)
      /\ \A k : ~Holds(<<>>, k)
  BY Alone
<1>7. Settled' <=> Settled
  BY <1>1, <1>3, <1>5, SettledSame DEF RegInv
<1>8. RegTypes'
  BY <1>1, <1>3 DEF RegInv, RegTypes
<1>9. HubOnce'
  <2>1. \A k : Holds(tasks, k)' <=> Holds(tasks', k)
    BY DEF Holds
  <2>. QED
    BY <1>1, <1>3, <2>1 DEF RegInv, HubOnce
<1>10. Masked'
  BY <1>1, MaskSame DEF RegInv
<1>11. NmeaSet'
  BY <1>1, <1>3, <1>5, <1>6, NmeaSame DEF RegInv
<1>12. ToldOrAsks'
  <2>1. Current' = Current
    BY <1>1, CurrentKept
  <2>2. AddsAsk(tasks)
    BY DEF RegInv, ToldOrAsks
  <2>. QED
    BY <1>1, <1>4, <1>7, <2>1, <2>2, ToldSame DEF RegInv
<1>13. RateSet'
  <2>1. Target' = Target
    BY <1>1 DEF Target
  <2>. QED
    BY <1>1, <1>3, <1>5, <1>6, <2>1, RateSame DEF RegInv, RateSet
<1>. QED
  BY <1>8, <1>9, <1>10, <1>11, <1>12, <1>13 DEF RegInv

LEMMA Commands ==
  ASSUME ConfsFit, RegInv,
         \/ \E c \in Client, callbacks \in Wish : R!createInstance(c, callbacks)
         \/ \E c \in Client : R!removeClient(c)
         \/ R!initOdcpiCommand
         \/ R!gnssUpdateConfigCommand({"MSB"})
         \/ \E interval \in {"slow", "fast"} : R!startTracking(interval)
         \/ R!stopTracking
         \/ \E map \in FeatureMaps : R!reportQwesCapabilities(map)
         \/ \E needed, measured \in BOOLEAN : R!updateNHzRequirement(needed, measured)
  PROVE  RegInv'
<1>0. ASSUME NEW m \in Task, m.is \notin {"up", "add"}, m.is = "rate" => hub.loaded, R!command(<<m>>)
      PROVE  RegInv'
  <2>1. <<m>> \in Seq(Task) /\ \A k : Holds(<<m>>, k) <=> m.is = k
    BY ONLY <1>0, Alone
  <2>2. AddsAsk(<<m>>)
    BY <1>0 DEF AddsAsk
  <2>. QED
    BY <1>0, <2>1, <2>2, Commanded
<1>1. ASSUME NEW c \in Client, NEW callbacks \in Wish, R!createInstance(c, callbacks)
      PROVE  RegInv'
  <2>. DEFINE a == R!msg("add", [client |-> c, callbacks |-> callbacks])
              b == R!msg("capabilities", c)
              s == <<a, b>>
  <2>1. a \in Task /\ b \in Task /\ a.is = "add" /\ a.value.client = c
        /\ b.is = "capabilities" /\ b.value = c
    BY DEF R!msg, Task, Later
  <2>2. R!command(s)
    BY <1>1 DEF R!createInstance
  <2>. HIDE DEF a, b, Task
  <2>3. s \in Seq(Task) /\ Len(s) = 2 /\ s[1] = a /\ s[2] = b
    BY <2>1
  <2>. HIDE DEF s
  <2>4. \A n \in 1..Len(s) : n = 1 \/ n = 2
    BY <2>3
  <2>5. ~Holds(s, "up") /\ ~Holds(s, "rate")
    BY <2>1, <2>3, <2>4 DEF Holds
  <2>6. AsksAfter(s, 1, c)
    <3>1. 2 \in 1..Len(s) /\ 2 > 1
      BY <2>3
    <3>. QED
      BY <2>1, <2>3, <3>1 DEF AsksAfter
  <2>7. AddsAsk(s)
    BY <2>1, <2>3, <2>4, <2>6 DEF AddsAsk
  <2>. QED
    BY <2>2, <2>3, <2>5, <2>7, Commanded
<1>2. ASSUME NEW c \in Client, R!removeClient(c)  PROVE RegInv'
  <2>1. R!msg("remove", c) \in Task /\ R!msg("remove", c).is = "remove"
    BY DEF R!msg, Task
  <2>. QED
    BY <1>0, <1>2, <2>1 DEF R!removeClient
<1>3. ASSUME R!initOdcpiCommand  PROVE RegInv'
  <2>1. R!msg("odcpi", None) \in Task /\ R!msg("odcpi", None).is = "odcpi"
    BY DEF R!msg, Task, Registered
  <2>. QED
    BY <1>0, <1>3, <2>1 DEF R!initOdcpiCommand
<1>4. ASSUME R!gnssUpdateConfigCommand({"MSB"})  PROVE RegInv'
  <2>1. R!msg("mode", {"MSB"}) \in Task /\ R!msg("mode", {"MSB"}).is = "mode"
    BY DEF R!msg, Task
  <2>. QED
    BY <1>0, <1>4, <2>1 DEF R!gnssUpdateConfigCommand
<1>5. ASSUME NEW interval \in {"slow", "fast"}, R!startTracking(interval)  PROVE RegInv'
  <2>1. R!msg("start", interval) \in Task /\ R!msg("start", interval).is = "start"
    BY DEF R!msg, Task, Later, Interval
  <2>. QED
    BY <1>0, <1>5, <2>1 DEF R!startTracking
<1>6. ASSUME R!stopTracking  PROVE RegInv'
  <2>1. R!msg("stop", None) \in Task /\ R!msg("stop", None).is = "stop"
    BY DEF R!msg, Task, Registered
  <2>. QED
    BY <1>0, <1>6, <2>1 DEF R!stopTracking
<1>7. ASSUME NEW map \in FeatureMaps, R!reportQwesCapabilities(map)  PROVE RegInv'
  <2>1. R!msg("qwes", map) \in Task /\ R!msg("qwes", map).is = "qwes"
    BY DEF R!msg, Task
  <2>. QED
    BY <1>0, <1>7, <2>1 DEF R!reportQwesCapabilities
<1>8. ASSUME NEW needed \in BOOLEAN, NEW measured \in BOOLEAN, R!updateNHzRequirement(needed, measured)
      PROVE  RegInv'
  <2>. DEFINE m == R!msg("rate", [fixes |-> needed, measurements |-> measured])
  <2>1. m \in Task /\ m.is = "rate"
    BY DEF R!msg, Task
  <2>2. hub.loaded /\ R!command(<<m>>)
    BY <1>8 DEF R!updateNHzRequirement
  <2>. HIDE DEF m
  <2>. QED
    BY <1>0, <2>1, <2>2
<1>. QED
  BY <1>1, <1>2, <1>3, <1>4, <1>5, <1>6, <1>7, <1>8

\* The next message of the adapter.
LEMMA TaskTaken ==
  ASSUME RegInv, NEW kind, kind # "up", R!take(kind)
  PROVE  /\ tasks # <<>> /\ Head(tasks) \in Task /\ Head(tasks).is = kind /\ tasks' = Tail(tasks)
         /\ tasks' \in Seq(Task) /\ UNCHANGED <<conf, commands, losses>>
         /\ R!taken = Head(tasks).value
         /\ \A k : Holds(tasks, k) <=> kind = k \/ Holds(tasks', k)
         /\ Holds(tasks', "up") <=> Holds(tasks, "up")
         /\ Holds(tasks', "rate") => hub.loaded
         /\ kind = "rate" => hub.loaded
         /\ AddsAsk(tasks')
         /\ \A c : AsksAfter(tasks, 0, c) /\ ~(kind = "capabilities" /\ R!taken = c) =>
              AsksAfter(tasks', 0, c)
         /\ kind = "add" => AsksAfter(tasks', 0, R!taken.client)
<1>1. /\ tasks # <<>> /\ Head(tasks).is = kind /\ tasks' = Tail(tasks)
      /\ UNCHANGED <<conf, commands, losses>> /\ R!taken = Head(tasks).value
  BY DEF R!take, R!bounds, R!taken
<1>2. tasks \in Seq(Task)
  BY DEF RegInv, RegTypes
<1>. HIDE DEF Task
<1>3. /\ Tail(tasks) \in Seq(Task) /\ Head(tasks) \in Task
      /\ \A k : Holds(tasks, k) <=> Head(tasks).is = k \/ Holds(Tail(tasks), k)
  BY ONLY <1>1, <1>2, Rest
<1>4. /\ AddsAsk(tasks) => AddsAsk(Tail(tasks))
      /\ \A c : AsksAfter(tasks, 0, c) /\ ~(Head(tasks).is = "capabilities" /\ Head(tasks).value = c) =>
           AsksAfter(Tail(tasks), 0, c)
      /\ AddsAsk(tasks) /\ Head(tasks).is = "add" => AsksAfter(Tail(tasks), 0, Head(tasks).value.client)
  BY ONLY <1>1, <1>2, AsksRest
<1>5. AddsAsk(tasks) /\ (Holds(tasks, "rate") => hub.loaded)
  BY DEF RegInv, ToldOrAsks, HubOnce
<1>. QED
  BY <1>1, <1>3, <1>4, <1>5
------------------------------------------------------------------------------
(* The messages of the adapter.                                            *)

\* What none of these messages but one changes.
LEMMA NothingMore ==
  ASSUME RegInv, NEW kind, kind # "up", R!take(kind), engine' = engine, NEW s, Saying(s),
         apiTasks' = apiTasks \o s
  PROVE  /\ Settled' <=> Settled
         /\ apiTasks' \in Seq(ApiTaskOf)
         /\ \A k : Holds(apiTasks', k) <=> Holds(apiTasks, k) \/ Holds(s, k)
         /\ \A k \in {"open", "ssr", "openAdapter"} : Holds(apiTasks, k) => Holds(apiTasks', k)
<1>1. Holds(tasks', "up") <=> Holds(tasks, "up")
  BY TaskTaken
<1>. QED
  BY <1>1, SettledSame DEF RegInv

LEMMA MaskOpened ==
  ASSUME RegInv, NEW kind, kind # "up", R!take(kind), engine' = engine, NEW s, Saying(s),
         apiTasks' = apiTasks \o s, mEvtMask' = mEvtMask \/ Holds(s, "open")
  PROVE  engine'.up /\ (\A k \in {"open", "ssr", "openAdapter"} : ~Holds(apiTasks', k)) =>
           engine'.mask = mEvtMask'
  BY NothingMore DEF RegInv, Masked

LEMMA SaidNothing ==
  ASSUME RegInv, UNCHANGED apiTasks
  PROVE  /\ apiTasks' = apiTasks \o <<>> /\ Saying(<<>>)
         /\ \A k : ~Holds(<<>>, k)
         /\ \A k, V : LastIs(<<>>, k, V)
<1>1. apiTasks \in Seq(ApiTaskOf)
  BY DEF RegInv, RegTypes
<1>. HIDE DEF ApiTaskOf
<1>2. apiTasks' = apiTasks \o <<>>
  BY <1>1
<1>. QED
  BY <1>2, Said, Alone

LEMMA SaidOpen ==
  ASSUME RegInv, apiTasks' = Append(apiTasks, R!msg("open", None))
  PROVE  \E s : /\ Saying(s) /\ apiTasks' = apiTasks \o s
                /\ \A k : Holds(s, k) <=> k = "open"
                /\ \A V : LastIs(s, "nmea", V) /\ LastIs(s, "fix", V)
<1>. DEFINE m == R!msg("open", None)
<1>1. m \in ApiTaskOf /\ m.is = "open"
  BY DEF R!msg, ApiTaskOf
<1>. HIDE DEF m
<1>2. apiTasks \in Seq(ApiTaskOf)
  BY DEF RegInv, RegTypes
<1>3. apiTasks' = apiTasks \o <<m>>
  <2>. HIDE DEF ApiTaskOf
  <2>. QED
    BY <1>1, <1>2 DEF m
<1>4. Saying(<<m>>)
  BY Said DEF m
<1>5. /\ \A k : Holds(<<m>>, k) <=> m.is = k
      /\ \A k, V : LastIs(<<m>>, k, V) <=> (m.is = k => m.value \in V)
  BY ONLY <1>1, Alone
<1>. QED
  BY <1>1, <1>3, <1>4, <1>5

\* The same of the sentences, the clients and the rate, if a message does not touch them.
LEMMA NmeaAfter ==
  ASSUME RegInv, NEW kind, kind # "up", R!take(kind), engine' = engine, NEW s, Saying(s),
         apiTasks' = apiTasks \o s, mNmeaMask' = mNmeaMask, capable' = capable,
         Settled => LastIs(s, "nmea", AtLeast)
  PROVE  NmeaSet'
  BY TaskTaken, NmeaSame DEF RegInv

LEMMA ToldAfter ==
  ASSUME RegInv, NEW kind, kind \notin {"up", "capabilities"}, R!take(kind), engine' = engine, NEW s, Saying(s),
         apiTasks' = apiTasks \o s, SUPL_MODE' = SUPL_MODE, locQwesFeatType' = locQwesFeatType,
         mClientData' = mClientData, wasTold' = wasTold
  PROVE  ToldOrAsks'
<1>1. /\ AddsAsk(tasks') /\ conf' = conf
      /\ \A c : AsksAfter(tasks, 0, c) => AsksAfter(tasks', 0, c)
  BY TaskTaken
<1>2. Current' = Current
  BY <1>1, CurrentKept
<1>3. Settled' <=> Settled
  BY NothingMore
<1>. QED
  BY <1>1, <1>2, <1>3, ToldSame DEF RegInv

LEMMA RateAfter ==
  ASSUME RegInv, NEW kind, kind # "up", R!take(kind), engine' = engine, NEW s, Saying(s),
         apiTasks' = apiTasks \o s, UNCHANGED R!fixes, ~Holds(s, "fix"), \A V : LastIs(s, "fix", V)
  PROVE  RateSet'
<1>1. Holds(tasks', "up") <=> Holds(tasks, "up")
  BY TaskTaken
<1>2. Target' = Target /\ UNCHANGED <<mNHzNeeded, mSPEAlreadyRunningAtHighestInterval, session>>
  BY DEF Target, R!fixes
<1>. QED
  BY <1>1, <1>2, RateSame DEF RegInv, RateSet

LEMMA AgpsStarts == ASSUME ConfsFit, RegInv, R!initAgps  PROVE RegInv'
<1>1. /\ R!take("agps") /\ registered' = conf.assisted
      /\ IF conf.assisted THEN R!updateEvtMask(mEvtMask \cup {"LOCATION_SERVER"})
                          ELSE UNCHANGED <<mEvtMask, apiTasks>>
      /\ UNCHANGED <<R!wiring, capable, R!fixes, hub, engine, mNmeaMask, odcpi, wanted, repeated,
                     changed>>
  BY DEF R!initAgps
<1>. USE DEF R!wiring
<1>2. conf.assisted \in BOOLEAN
  BY DEF ConfsFit, RegInv, RegTypes
<1>3. PICK s : /\ Saying(s) /\ apiTasks' = apiTasks \o s
               /\ \A k : Holds(s, k) => k = "open"
               /\ \A V : LastIs(s, "nmea", V) /\ LastIs(s, "fix", V)
               /\ mEvtMask' = mEvtMask \/ Holds(s, "open")
  <2>1. CASE conf.assisted
    BY <1>1, <2>1, SaidOpen DEF R!updateEvtMask
  <2>2. CASE ~conf.assisted
    BY <1>1, <2>2, SaidNothing
  <2>. QED
    BY <2>1, <2>2
<1>4. mEvtMask' = mEvtMask \cup R!bit(conf.assisted, "LOCATION_SERVER")
  BY <1>1, <1>2 DEF R!updateEvtMask, R!bit
<1>5. /\ tasks' \in Seq(Task) /\ conf' = conf
      /\ Holds(tasks', "rate") => hub.loaded
  BY <1>1, TaskTaken
<1>6. RegTypes'
  <2>1. apiTasks' \in Seq(ApiTaskOf)
    BY <1>1, <1>3, NothingMore
  <2>2. mEvtMask' \in SUBSET Event
    BY <1>4 DEF RegInv, RegTypes, R!bit, Event
  <2>. QED
    BY <1>1, <1>2, <1>5, <2>1, <2>2 DEF RegInv, RegTypes, R!fixes
<1>7. HubOnce'
  <2>1. \A k : Holds(tasks, k)' <=> Holds(tasks', k)
    BY DEF Holds
  <2>. QED
    BY <1>1, <1>4, <1>5, <2>1 DEF RegInv, HubOnce, R!bit
<1>8. Masked'
  <2>1. R!clientsMask(mClientData)' = R!clientsMask(mClientData)
    BY <1>1 DEF R!clientsMask, R!someone, R!bit
  <2>2. \A k : Holds(apiTasks, k)' <=> Holds(apiTasks', k)
    BY DEF Holds
  <2>3. engine'.up /\ (\A k \in {"open", "ssr", "openAdapter"} : ~Holds(apiTasks', k)) =>
          engine'.mask = mEvtMask'
    BY <1>1, <1>3, MaskOpened
  <2>. QED
    BY <1>1, <1>2, <1>4, <1>5, <2>1, <2>2, <2>3 DEF RegInv, Masked, R!bit
<1>9. NmeaSet' /\ ToldOrAsks' /\ RateSet'
  BY <1>1, <1>3, NmeaAfter, ToldAfter, RateAfter
<1>. QED
  BY <1>6, <1>7, <1>8, <1>9 DEF RegInv

LEMMA HubMade ==
  ASSUME ConfsFit, RegInv, R!initEngHubProxy
  PROVE  /\ hub' \in [firstTime : BOOLEAN, loaded : BOOLEAN, made : Nat] /\ ~hub'.firstTime
         /\ hub'.made <= 1 /\ (hub.loaded => hub'.loaded) /\ (changed => hub' = hub)
<1>1. conf.hub \in BOOLEAN
  BY DEF ConfsFit, RegInv, RegTypes
<1>2. /\ hub \in [firstTime : BOOLEAN, loaded : BOOLEAN, made : Nat]
      /\ hub.made <= 1 /\ (hub.firstTime => ~hub.loaded /\ hub.made = 0)
      /\ changed => ~hub.firstTime
  BY DEF RegInv, RegTypes, HubOnce
<1>3. CASE hub.firstTime
  BY <1>1, <1>2, <1>3 DEF R!initEngHubProxy
<1>4. CASE ~hub.firstTime
  BY <1>2, <1>4 DEF R!initEngHubProxy
<1>. QED
  BY <1>3, <1>4

LEMMA HubLoads == ASSUME ConfsFit, RegInv, R!MsgInitEngHubProxy  PROVE RegInv'
<1>1. /\ R!take("hub") /\ R!initEngHubProxy
      /\ UNCHANGED <<R!wiring, capable, R!masks, R!fixes, apiTasks, engine>>
  BY DEF R!MsgInitEngHubProxy
<1>. USE DEF R!wiring, R!masks
<1>2. /\ hub' \in [firstTime : BOOLEAN, loaded : BOOLEAN, made : Nat] /\ ~hub'.firstTime
      /\ hub'.made <= 1 /\ (hub.loaded => hub'.loaded) /\ (changed => hub' = hub)
  BY <1>1, HubMade
<1>3. /\ tasks' \in Seq(Task) /\ conf' = conf
      /\ Holds(tasks', "rate") => hub.loaded
  BY <1>1, TaskTaken
<1>4. /\ apiTasks' = apiTasks \o <<>> /\ Saying(<<>>)
      /\ \A k : ~Holds(<<>>, k)
      /\ \A k, V : LastIs(<<>>, k, V)
  BY <1>1, SaidNothing
<1>5. RegTypes'
  BY <1>1, <1>2, <1>3 DEF RegInv, RegTypes, R!fixes
<1>6. HubOnce'
  <2>1. \A k : Holds(tasks, k)' <=> Holds(tasks', k)
    BY DEF Holds
  <2>. QED
    BY <1>1, <1>2, <1>3, <2>1 DEF RegInv, HubOnce
<1>7. Masked'
  <2>1. R!clientsMask(mClientData)' = R!clientsMask(mClientData)
    BY <1>1 DEF R!clientsMask, R!someone, R!bit
  <2>2. \A k : Holds(apiTasks, k)' <=> Holds(apiTasks, k)
    BY <1>1 DEF Holds
  <2>3. hub'.loaded /\ changed <=> hub.loaded /\ changed
    BY <1>2
  <2>. QED
    BY <1>1, <1>3, <2>1, <2>2, <2>3 DEF RegInv, Masked, R!bit
<1>8. NmeaSet' /\ ToldOrAsks' /\ RateSet'
  BY <1>1, <1>4, NmeaAfter, ToldAfter, RateAfter
<1>. QED
  BY <1>5, <1>6, <1>7, <1>8 DEF RegInv
------------------------------------------------------------------------------
(* Clients come, go and ask.                                               *)

\* The events of the clients and the sentences for who reads data are sent again.
LEMMA ClientsSaved ==
  ASSUME ConfsFit, RegInv, NEW kind \in {"add", "remove"}, R!take(kind), NEW clients,
         DOMAIN clients = Client, R!saveClient(clients), DOMAIN wasTold' = Client
  PROVE  RegTypes' /\ HubOnce' /\ Masked' /\ NmeaSet' /\ RateSet' /\ (Settled' <=> Settled)
<1>1. /\ mClientData' = clients /\ changed' = TRUE /\ R!initEngHubProxy
      /\ R!updateClientsEventMask(clients, hub'.loaded)
      /\ UNCHANGED <<SUPL_MODE, locQwesFeatType, mPendingMsgs, capable, R!fixes, engine, mNmeaMask,
                     registered, odcpi, wanted, repeated>>
  BY DEF R!saveClient
<1>2. /\ mEvtMask' = R!clientsMask(clients)
           \cup (IF hub'.loaded THEN {"GNSS_MEASUREMENT", "EPHEMERIS"} \cup (mEvtMask \cap {"NHZ_MEASUREMENT"})
                 ELSE {})
           \cup R!bit(registered, "LOCATION_SERVER") \cup R!bit(odcpi, "WIFI")
      /\ apiTasks' = apiTasks
           \o (IF R!someone(clients, "data") THEN <<R!msg("nmea", mNmeaMask \cup {"DEBUG"})>> ELSE <<>>)
           \o <<R!msg("open", None)>>
  BY <1>1 DEF R!updateClientsEventMask
<1>3. /\ hub' \in [firstTime : BOOLEAN, loaded : BOOLEAN, made : Nat] /\ ~hub'.firstTime
      /\ hub'.made <= 1 /\ (hub.loaded => hub'.loaded)
  BY <1>1, HubMade
<1>4. PICK s : /\ Saying(s) /\ apiTasks' = apiTasks \o s
               /\ Holds(s, "open") /\ ~Holds(s, "fix")
               /\ \A V : LastIs(s, "fix", V)
               /\ Settled => LastIs(s, "nmea", AtLeast)
  <2>. DEFINE v == mNmeaMask \cup {"DEBUG"}
              n == R!msg("nmea", v)
              o == R!msg("open", None)
              a == IF R!someone(clients, "data") THEN <<n>> ELSE <<>>
  <2>1. v \in SUBSET Nmea /\ v \subseteq R!nmeaTypes \cup {"DEBUG"} /\ (Settled => v \in AtLeast)
    BY DEF RegInv, NmeaSet, AtLeast, R!nmeaTypes, R!bit, Nmea
  <2>2. Saying(<<n>>) /\ Saying(<<>>) /\ Saying(<<o>>)
    <3>. HIDE DEF v
    <3>. QED
      BY <2>1, Said
  <2>3. n.is = "nmea" /\ n.value = v /\ n \in ApiTaskOf /\ o.is = "open" /\ o \in ApiTaskOf
    <3>. HIDE DEF v
    <3>. QED
      BY <2>1 DEF R!msg, ApiTaskOf
  <2>4. apiTasks' = (apiTasks \o a) \o <<o>>
    BY <1>2
  <2>. HIDE DEF n, o, v
  <2>5. /\ \A k : Holds(<<n>>, k) <=> n.is = k
        /\ \A k, V : LastIs(<<n>>, k, V) <=> (n.is = k => n.value \in V)
    BY ONLY <2>3, Alone
  <2>6. /\ \A k : Holds(<<o>>, k) <=> o.is = k
        /\ \A k, V : LastIs(<<o>>, k, V) <=> (o.is = k => o.value \in V)
    BY ONLY <2>3, Alone
  <2>7. (\A k : ~Holds(<<>>, k)) /\ \A k, V : LastIs(<<>>, k, V)
    BY Alone
  <2>8. /\ Saying(a) /\ (\A k : Holds(a, k) => k = "nmea")
        /\ \A V : LastIs(a, "fix", V)
        /\ Settled => LastIs(a, "nmea", AtLeast)
    BY <2>1, <2>2, <2>3, <2>5, <2>7
  <2>. HIDE DEF a
  <2>9. apiTasks \in Seq(ApiTaskOf)
    BY DEF RegInv, RegTypes
  <2>10. /\ Saying(a \o <<o>>) /\ (apiTasks \o a) \o <<o>> = apiTasks \o (a \o <<o>>)
         /\ \A k : Holds(a \o <<o>>, k) <=> Holds(a, k) \/ Holds(<<o>>, k)
         /\ \A k, V : LastIs(<<o>>, k, V) /\ (Holds(<<o>>, k) \/ LastIs(a, k, V)) =>
              LastIs(a \o <<o>>, k, V)
    BY ONLY <2>2, <2>8, <2>9, SaidTwice
  <2>. WITNESS a \o <<o>>
  <2>. QED
    BY <2>3, <2>4, <2>6, <2>8, <2>10
<1>5. /\ tasks' \in Seq(Task) /\ conf' = conf
      /\ Holds(tasks', "rate") => hub.loaded
  BY TaskTaken
<1>6. RegTypes'
  <2>1. apiTasks' \in Seq(ApiTaskOf)
    BY <1>1, <1>4, NothingMore
  <2>2. mEvtMask' \in SUBSET Event
    BY <1>2 DEF RegInv, RegTypes, R!bit, R!clientsMask, Event
  <2>. QED
    BY <1>1, <1>3, <1>5, <2>1, <2>2 DEF RegInv, RegTypes, R!fixes
<1>7. "NHZ_MEASUREMENT" \in mEvtMask' <=> hub'.loaded /\ "NHZ_MEASUREMENT" \in mEvtMask
  BY <1>2 DEF R!bit, R!clientsMask
<1>8. HubOnce'
  <2>1. \A k : Holds(tasks, k)' <=> Holds(tasks', k)
    BY DEF Holds
  <2>. QED
    BY <1>1, <1>3, <1>5, <1>7, <2>1 DEF RegInv, HubOnce
<1>9. Masked'
  <2>1. R!clientsMask(mClientData)' = R!clientsMask(clients)
    BY <1>1 DEF R!clientsMask, R!someone, R!bit
  <2>2. \A k : Holds(apiTasks, k)' <=> Holds(apiTasks', k)
    BY DEF Holds
  <2>3. engine'.up /\ (\A k \in {"open", "ssr", "openAdapter"} : ~Holds(apiTasks', k)) =>
          engine'.mask = mEvtMask'
    BY <1>1, <1>4, MaskOpened
  <2>4. mEvtMask' \ {"NHZ_MEASUREMENT"} = R!clientsMask(clients)
           \cup (IF hub'.loaded THEN {"GNSS_MEASUREMENT", "EPHEMERIS"} ELSE {})
           \cup R!bit(registered, "LOCATION_SERVER") \cup R!bit(odcpi, "WIFI")
    BY <1>2 DEF R!bit, R!clientsMask
  <2>5. ~repeated => ("NHZ_MEASUREMENT" \in mEvtMask' <=> wanted)
    BY <1>3, <1>7 DEF RegInv, Masked, HubOnce
  <2>. QED
    BY <1>1, <1>5, <2>1, <2>2, <2>3, <2>4, <2>5 DEF RegInv, Masked, R!bit
<1>10. NmeaSet' /\ RateSet'
  BY <1>1, <1>4, NmeaAfter, RateAfter
<1>11. Settled' <=> Settled
  BY <1>1, <1>4, NothingMore
<1>. QED
  BY <1>6, <1>8, <1>9, <1>10, <1>11

LEMMA ClientComes == ASSUME ConfsFit, RegInv, R!MsgAddClient  PROVE RegInv'
<1>. DEFINE c == R!taken.client
            clients == [mClientData EXCEPT ![c] = R!taken.callbacks]
<1>1. R!take("add") /\ R!saveClient(clients) /\ UNCHANGED wasTold
  BY DEF R!MsgAddClient
<1>2. DOMAIN mClientData = Client /\ DOMAIN wasTold = Client
  BY DEF RegInv, RegTypes
<1>3. RegTypes' /\ HubOnce' /\ Masked' /\ NmeaSet' /\ RateSet' /\ (Settled' <=> Settled)
  BY <1>1, <1>2, ClientsSaved
<1>4. /\ AddsAsk(tasks') /\ conf' = conf /\ AsksAfter(tasks', 0, c)
      /\ \A d : AsksAfter(tasks, 0, d) => AsksAfter(tasks', 0, d)
  BY <1>1, TaskTaken
<1>5. Current' = Current
  BY <1>1, <1>4, CurrentKept DEF R!saveClient
<1>6. mClientData' = clients
  BY <1>1 DEF R!saveClient
<1>7. \A d \in Client : d # c => mClientData'[d] = mClientData[d]
  BY <1>2, <1>6
<1>8. ToldOrAsks'
  <2>1. AddsAsk(tasks)' <=> AddsAsk(tasks')
    BY DEF AddsAsk, AsksAfter
  <2>2. \A d : AsksAfter(tasks, 0, d)' <=> AsksAfter(tasks', 0, d)
    BY DEF AsksAfter
  <2>3. \A d \in Client : Settled' /\ mClientData'[d] # None =>
          wasTold'[d] \in Current' \/ AsksAfter(tasks', 0, d)
    <3>. HIDE DEF c, clients
    <3>. QED
      BY <1>1, <1>3, <1>4, <1>5, <1>7 DEF RegInv, ToldOrAsks
  <2>. QED
    BY <1>4, <2>1, <2>2, <2>3 DEF ToldOrAsks
<1>. QED
  BY <1>3, <1>8 DEF RegInv

LEMMA ClientGoes == ASSUME ConfsFit, RegInv, R!MsgRemoveClient  PROVE RegInv'
<1>. DEFINE c == R!taken
            clients == [mClientData EXCEPT ![c] = None]
<1>1. R!take("remove") /\ R!saveClient(clients) /\ wasTold' = [wasTold EXCEPT ![c] = None]
  BY DEF R!MsgRemoveClient
<1>2. DOMAIN mClientData = Client /\ DOMAIN wasTold = Client
  BY DEF RegInv, RegTypes
<1>3. RegTypes' /\ HubOnce' /\ Masked' /\ NmeaSet' /\ RateSet' /\ (Settled' <=> Settled)
  BY <1>1, <1>2, ClientsSaved
<1>4. /\ AddsAsk(tasks') /\ conf' = conf
      /\ \A d : AsksAfter(tasks, 0, d) => AsksAfter(tasks', 0, d)
  BY <1>1, TaskTaken
<1>5. Current' = Current
  BY <1>1, <1>4, CurrentKept DEF R!saveClient
<1>6. mClientData' = clients
  BY <1>1 DEF R!saveClient
<1>7. \A d \in Client : /\ d # c => mClientData'[d] = mClientData[d] /\ wasTold'[d] = wasTold[d]
                        /\ d = c => mClientData'[d] = None
  BY <1>1, <1>2, <1>6
<1>8. ToldOrAsks'
  <2>1. AddsAsk(tasks)' <=> AddsAsk(tasks')
    BY DEF AddsAsk, AsksAfter
  <2>2. \A d : AsksAfter(tasks, 0, d)' <=> AsksAfter(tasks', 0, d)
    BY DEF AsksAfter
  <2>3. \A d \in Client : Settled' /\ mClientData'[d] # None =>
          wasTold'[d] \in Current' \/ AsksAfter(tasks', 0, d)
    <3>. HIDE DEF c, clients
    <3>. QED
      BY <1>3, <1>4, <1>5, <1>7 DEF RegInv, ToldOrAsks
  <2>. QED
    BY <1>4, <2>1, <2>2, <2>3 DEF ToldOrAsks
<1>. QED
  BY <1>3, <1>8 DEF RegInv

LEMMA ToldAnew ==
  ASSUME RegInv, conf' = conf, engine' = engine, mClientData' = mClientData, AddsAsk(tasks'),
         R!broadcastCapabilities(SUPL_MODE', locQwesFeatType')
  PROVE  ToldOrAsks' /\ DOMAIN wasTold' = Client
<1>1. AddsAsk(tasks)' <=> AddsAsk(tasks')
  BY DEF AddsAsk, AsksAfter
<1>2. R!getCapabilities(SUPL_MODE, locQwesFeatType)' = R!getCapabilities(SUPL_MODE', locQwesFeatType')
  BY DEF R!getCapabilities, R!features, R!always, R!sQwesFeatureMask
<1>3. \A c \in Client : mClientData[c] # None => wasTold'[c] \in Current'
  BY <1>2 DEF Current, R!broadcastCapabilities
<1>. QED
  BY <1>1, <1>3 DEF ToldOrAsks, R!broadcastCapabilities

\* A message that changes neither registrations nor rates.
LEMMA NothingSaid ==
  ASSUME RegInv, NEW kind, kind # "up", R!take(kind), UNCHANGED <<R!masks, R!fixes, hub, apiTasks, engine>>,
         mClientData' = mClientData, capable' = capable
  PROVE  /\ HubOnce' /\ Masked' /\ NmeaSet' /\ RateSet' /\ (Settled' <=> Settled)
         /\ tasks' \in Seq(Task) /\ conf' = conf /\ AddsAsk(tasks')
         /\ DOMAIN wasTold' = Client /\ mPendingMsgs' \in Seq(Later) => RegTypes'
<1>. USE DEF R!masks
<1>1. /\ apiTasks' = apiTasks \o <<>> /\ Saying(<<>>)
      /\ \A k : ~Holds(<<>>, k)
      /\ \A k, V : LastIs(<<>>, k, V)
  BY SaidNothing
<1>2. /\ tasks' \in Seq(Task) /\ conf' = conf /\ AddsAsk(tasks')
      /\ Holds(tasks', "rate") => hub.loaded
  BY TaskTaken
<1>3. HubOnce'
  <2>1. \A k : Holds(tasks, k)' <=> Holds(tasks', k)
    BY DEF Holds
  <2>. QED
    BY <1>2, <2>1 DEF RegInv, HubOnce
<1>4. Masked'
  BY <1>2, MaskSame DEF RegInv
<1>5. NmeaSet' /\ RateSet'
  BY <1>1, NmeaAfter, RateAfter
<1>6. Settled' <=> Settled
  BY <1>1, NothingMore
<1>7. DOMAIN wasTold' = Client /\ mPendingMsgs' \in Seq(Later) => RegTypes'
  BY <1>2 DEF RegInv, RegTypes, R!fixes
<1>. QED
  BY <1>2, <1>3, <1>4, <1>5, <1>6, <1>7

LEMMA PutOff ==
  ASSUME RegInv, NEW kind \in {"capabilities", "start"}, R!take(kind),
         mPendingMsgs' = Append(mPendingMsgs, Head(tasks))
  PROVE  mPendingMsgs' \in Seq(Later)
<1>1. Head(tasks) \in Task /\ Head(tasks).is = kind
  BY TaskTaken
<1>2. Head(tasks) \in Later
  BY <1>1 DEF Task, Later, Registered
<1>3. mPendingMsgs \in Seq(Later)
  BY DEF RegInv, RegTypes
<1>. HIDE DEF Later
<1>. QED
  BY <1>2, <1>3

LEMMA ClientAsks == ASSUME ConfsFit, RegInv, R!MsgRequestCapabilities  PROVE RegInv'
<1>. DEFINE c == R!taken
<1>1. /\ R!take("capabilities")
      /\ IF ~capable THEN mPendingMsgs' = Append(mPendingMsgs, Head(tasks)) /\ UNCHANGED wasTold
         ELSE /\ wasTold' = IF mClientData[c] = None THEN wasTold
                            ELSE [wasTold EXCEPT ![c] = R!baseCapabilities]
              /\ UNCHANGED mPendingMsgs
      /\ UNCHANGED <<mClientData, SUPL_MODE, locQwesFeatType, capable, R!masks, R!fixes, hub,
                     apiTasks, engine>>
  BY DEF R!MsgRequestCapabilities
<1>2. /\ HubOnce' /\ Masked' /\ NmeaSet' /\ RateSet' /\ (Settled' <=> Settled)
      /\ tasks' \in Seq(Task) /\ conf' = conf /\ AddsAsk(tasks')
      /\ DOMAIN wasTold' = Client /\ mPendingMsgs' \in Seq(Later) => RegTypes'
  BY <1>1, NothingSaid
<1>3. \A d : AsksAfter(tasks, 0, d) /\ d # c => AsksAfter(tasks', 0, d)
  BY <1>1, TaskTaken
<1>. HIDE DEF c
<1>4. DOMAIN wasTold' = Client
  BY <1>1 DEF RegInv, RegTypes
<1>5. mPendingMsgs' \in Seq(Later)
  BY <1>1, PutOff DEF RegInv, RegTypes
<1>6. Current' = Current
  BY <1>1, <1>2, CurrentKept
<1>7. Settled => capable
  BY DEF RegInv, NmeaSet
<1>8. \A d \in Client : Settled /\ mClientData[d] # None =>
        wasTold'[d] \in Current \/ AsksAfter(tasks', 0, d)
  <2> SUFFICES ASSUME NEW d \in Client, Settled, mClientData[d] # None
               PROVE  wasTold'[d] \in Current \/ AsksAfter(tasks', 0, d)
    OBVIOUS
  <2>1. capable /\ DOMAIN wasTold = Client
    BY <1>7 DEF RegInv, RegTypes
  <2>2. CASE d = c
    <3>1. wasTold'[d] = R!baseCapabilities
      BY <1>1, <2>1, <2>2
    <3>. QED
      BY <3>1 DEF Current
  <2>3. CASE d # c
    <3>1. wasTold'[d] = wasTold[d]
      BY <1>1, <2>1, <2>3
    <3>. QED
      BY <1>3, <2>3, <3>1 DEF RegInv, ToldOrAsks
  <2>. QED
    BY <2>2, <2>3
<1>9. ToldOrAsks'
  <2>1. AddsAsk(tasks)' <=> AddsAsk(tasks')
    BY DEF AddsAsk, AsksAfter
  <2>2. \A d : AsksAfter(tasks, 0, d)' <=> AsksAfter(tasks', 0, d)
    BY DEF AsksAfter
  <2>. QED
    BY <1>1, <1>2, <1>6, <1>8, <2>1, <2>2 DEF ToldOrAsks
<1>. QED
  BY <1>2, <1>4, <1>5, <1>9 DEF RegInv

LEMMA ModeSet == ASSUME ConfsFit, RegInv, R!suplMode  PROVE RegInv'
<1>1. /\ R!take("mode") /\ SUPL_MODE' = R!taken
      /\ R!broadcastCapabilities(SUPL_MODE', locQwesFeatType')
      /\ UNCHANGED <<mClientData, locQwesFeatType, mPendingMsgs, capable, R!masks, R!fixes, hub,
                     apiTasks, engine>>
  BY DEF R!suplMode, R!broadcastCapabilities
<1>2. /\ HubOnce' /\ Masked' /\ NmeaSet' /\ RateSet' /\ conf' = conf /\ AddsAsk(tasks')
      /\ DOMAIN wasTold' = Client /\ mPendingMsgs' \in Seq(Later) => RegTypes'
  BY <1>1, NothingSaid
<1>3. ToldOrAsks' /\ DOMAIN wasTold' = Client
  BY <1>1, <1>2, ToldAnew
<1>. QED
  BY <1>1, <1>2, <1>3 DEF RegInv, RegTypes

LEMMA FeaturesSet == ASSUME ConfsFit, RegInv, R!setQwesFeatureStatus  PROVE RegInv'
<1>1. /\ R!take("qwes") /\ R!broadcastCapabilities(SUPL_MODE', locQwesFeatType')
      /\ UNCHANGED <<mClientData, SUPL_MODE, mPendingMsgs, capable, R!masks, R!fixes, hub,
                     apiTasks, engine>>
  BY DEF R!setQwesFeatureStatus, R!broadcastCapabilities
<1>2. /\ HubOnce' /\ Masked' /\ NmeaSet' /\ RateSet' /\ conf' = conf /\ AddsAsk(tasks')
      /\ DOMAIN wasTold' = Client /\ mPendingMsgs' \in Seq(Later) => RegTypes'
  BY <1>1, NothingSaid
<1>3. ToldOrAsks' /\ DOMAIN wasTold' = Client
  BY <1>1, <1>2, ToldAnew
<1>. QED
  BY <1>1, <1>2, <1>3 DEF RegInv, RegTypes

LEMMA OdcpiInitialized == ASSUME ConfsFit, RegInv, R!initOdcpi  PROVE RegInv'
<1>1. /\ R!take("odcpi") /\ odcpi' = TRUE /\ R!updateEvtMask(mEvtMask \cup {"WIFI"})
      /\ UNCHANGED <<R!wiring, capable, R!fixes, hub, engine, mNmeaMask, registered, wanted, repeated,
                     changed>>
  BY DEF R!initOdcpi
<1>. USE DEF R!wiring
<1>2. mEvtMask' = mEvtMask \cup {"WIFI"} /\ apiTasks' = Append(apiTasks, R!msg("open", None))
  BY <1>1 DEF R!updateEvtMask
<1>3. PICK s : /\ Saying(s) /\ apiTasks' = apiTasks \o s
               /\ \A k : Holds(s, k) <=> k = "open"
               /\ \A V : LastIs(s, "nmea", V) /\ LastIs(s, "fix", V)
  BY <1>2, SaidOpen
<1>4. /\ tasks' \in Seq(Task) /\ conf' = conf
      /\ Holds(tasks', "rate") => hub.loaded
  BY <1>1, TaskTaken
<1>5. RegTypes'
  <2>1. apiTasks' \in Seq(ApiTaskOf)
    BY <1>1, <1>3, NothingMore
  <2>2. mEvtMask' \in SUBSET Event
    BY <1>2 DEF RegInv, RegTypes, Event
  <2>. QED
    BY <1>1, <1>4, <2>1, <2>2 DEF RegInv, RegTypes, R!fixes
<1>6. HubOnce'
  <2>1. \A k : Holds(tasks, k)' <=> Holds(tasks', k)
    BY DEF Holds
  <2>. QED
    BY <1>1, <1>2, <1>4, <2>1 DEF RegInv, HubOnce
<1>7. Masked'
  <2>1. R!clientsMask(mClientData)' = R!clientsMask(mClientData)
    BY <1>1 DEF R!clientsMask, R!someone, R!bit
  <2>2. \A k : Holds(apiTasks, k)' <=> Holds(apiTasks', k)
    BY DEF Holds
  <2>3. engine'.up /\ (\A k \in {"open", "ssr", "openAdapter"} : ~Holds(apiTasks', k)) =>
          engine'.mask = mEvtMask'
    BY <1>1, <1>3, MaskOpened
  <2>. QED
    BY <1>1, <1>2, <1>4, <2>1, <2>2, <2>3 DEF RegInv, Masked, R!bit
<1>8. NmeaSet' /\ ToldOrAsks' /\ RateSet'
  BY <1>1, <1>3, NmeaAfter, ToldAfter, RateAfter
<1>. QED
  BY <1>5, <1>6, <1>7, <1>8 DEF RegInv
------------------------------------------------------------------------------
(* The rate of the fixes.                                                  *)

LEMMA SaidFix ==
  ASSUME NEW v \in Interval \cup {None}
  PROVE  /\ Saying(<<R!fix(v)>>)
         /\ \A k : Holds(<<R!fix(v)>>, k) <=> k = "fix"
         /\ \A V : LastIs(<<R!fix(v)>>, "nmea", V) /\ (LastIs(<<R!fix(v)>>, "fix", V) <=> v \in V)
<1>. DEFINE m == R!fix(v)
<1>1. m \in ApiTaskOf /\ m.is = "fix" /\ m.value = v
  BY DEF R!msg, R!fix, ApiTaskOf
<1>2. Saying(<<m>>)
  BY Said
<1>. HIDE DEF m
<1>3. /\ \A k : Holds(<<m>>, k) <=> m.is = k
      /\ \A k, V : LastIs(<<m>>, k, V) <=> (m.is = k => m.value \in V)
  BY ONLY <1>1, Alone
<1>4. /\ \A k : Holds(<<m>>, k) <=> k = "fix"
      /\ \A V : LastIs(<<m>>, "nmea", V) /\ (LastIs(<<m>>, "fix", V) <=> v \in V)
  BY <1>1, <1>3
<1>. QED
  BY <1>2, <1>4 DEF m

\* A session that runs is started again at the interval that is needed.
LEMMA Restarted ==
  ASSUME ConfsFit, RegInv, NEW needed \in BOOLEAN,
         NEW r, r = R!checkAndRestartSPESession(needed)
  PROVE  /\ Saying(r.sent) /\ r.already \in BOOLEAN
         /\ \A k : Holds(r.sent, k) <=> session # None /\ k = "fix"
         /\ \A V : LastIs(r.sent, "nmea", V)
         /\ LastIs(r.sent, "fix", {IF session = "slow" /\ needed THEN "fast" ELSE session})
         /\ r.already => needed /\ session # None
<1>1. session \in Interval \cup {None}
  BY DEF RegInv, RegTypes
<1>2. CASE session = None
  <2>1. r.sent = <<>> /\ r.already = FALSE
    BY <1>2 DEF R!checkAndRestartSPESession
  <2>2. (\A k : ~Holds(<<>>, k)) /\ \A k, V : LastIs(<<>>, k, V)
    BY Alone
  <2>. QED
    BY <1>2, <2>1, <2>2, Said
<1>3. CASE session # None
  <2>. DEFINE v == IF session = "slow" /\ needed THEN "fast" ELSE session
  <2>1. /\ r.sent = <<R!fix(v)>> /\ r.already \in BOOLEAN
        /\ r.already => needed
    BY <1>3 DEF R!checkAndRestartSPESession, R!checkAndSetSPEToRunforNHz
  <2>2. v \in Interval \cup {None}
    BY <1>1 DEF Interval
  <2>3. /\ Saying(<<R!fix(v)>>)
        /\ \A k : Holds(<<R!fix(v)>>, k) <=> k = "fix"
        /\ \A V : LastIs(<<R!fix(v)>>, "nmea", V) /\ (LastIs(<<R!fix(v)>>, "fix", V) <=> v \in V)
    <3>. HIDE DEF v
    <3>. QED
      BY ONLY <2>2, SaidFix
  <2>4. LastIs(r.sent, "fix", {v})
    BY <2>1, <2>3
  <2>. QED
    BY <1>3, <2>1, <2>3, <2>4
<1>. QED
  BY <1>2, <1>3

\* The interval of a session is all that a message changes.
LEMMA IntervalSaid ==
  ASSUME RegInv, NEW kind, kind \notin {"up", "capabilities"}, R!take(kind),
         UNCHANGED <<R!masks, hub, engine, capable, SUPL_MODE, locQwesFeatType, mClientData, wasTold>>,
         NEW s, Saying(s), apiTasks' = apiTasks \o s,
         \A k : Holds(s, k) => k = "fix", \A V : LastIs(s, "nmea", V),
         LastIs(s, "fix", {Target'}), Holds(s, "fix") \/ Target' = Target,
         mSPEAlreadyRunningAtHighestInterval' => mNHzNeeded' /\ session' # None,
         mPendingMsgs' \in Seq(Later), session' \in Interval \cup {None},
         {mSPEAlreadyRunningAtHighestInterval', mNHzNeeded'} \subseteq BOOLEAN
  PROVE  RegInv'
<1>. USE DEF R!masks
<1>1. /\ tasks' \in Seq(Task) /\ conf' = conf
      /\ Holds(tasks', "rate") => hub.loaded
      /\ Holds(tasks', "up") <=> Holds(tasks, "up")
  BY TaskTaken
<1>2. /\ apiTasks' \in Seq(ApiTaskOf)
      /\ \A k \in {"open", "ssr", "openAdapter"} : Holds(apiTasks, k) => Holds(apiTasks', k)
  BY NothingMore
<1>3. RegTypes'
  BY <1>1, <1>2 DEF RegInv, RegTypes
<1>4. HubOnce'
  <2>1. \A k : Holds(tasks, k)' <=> Holds(tasks', k)
    BY DEF Holds
  <2>. QED
    BY <1>1, <2>1 DEF RegInv, HubOnce
<1>5. Masked'
  BY <1>1, <1>2, MaskSame DEF RegInv
<1>6. NmeaSet' /\ ToldOrAsks'
  BY NmeaAfter, ToldAfter
<1>7. RateSet'
  BY <1>1, RateSame DEF RegInv
<1>. QED
  BY <1>3, <1>4, <1>5, <1>6, <1>7 DEF RegInv

LEMMA IntervalKept ==
  ASSUME RegInv, NEW kind, kind \notin {"up", "capabilities"}, R!take(kind),
         UNCHANGED <<R!masks, hub, engine, capable, SUPL_MODE, locQwesFeatType, mClientData, wasTold,
                     apiTasks, mNHzNeeded>>,
         Target' = Target, mSPEAlreadyRunningAtHighestInterval' => mNHzNeeded /\ session' # None,
         mPendingMsgs' \in Seq(Later), session' \in Interval \cup {None},
         mSPEAlreadyRunningAtHighestInterval' \in BOOLEAN
  PROVE  RegInv'
<1>1. /\ apiTasks' = apiTasks \o <<>> /\ Saying(<<>>)
      /\ \A k : ~Holds(<<>>, k)
      /\ \A k, V : LastIs(<<>>, k, V)
  BY SaidNothing
<1>2. {mSPEAlreadyRunningAtHighestInterval', mNHzNeeded'} \subseteq BOOLEAN
  BY DEF RegInv, RegTypes
<1>. QED
  BY <1>1, <1>2, IntervalSaid

LEMMA IntervalSent ==
  ASSUME RegInv, NEW kind, kind \notin {"up", "capabilities"}, R!take(kind),
         UNCHANGED <<R!masks, hub, engine, capable, SUPL_MODE, locQwesFeatType, mClientData, wasTold,
                     mNHzNeeded>>,
         Target' \in Interval \cup {None}, apiTasks' = Append(apiTasks, R!fix(Target')),
         mSPEAlreadyRunningAtHighestInterval' => mNHzNeeded /\ session' # None,
         mPendingMsgs' \in Seq(Later), session' \in Interval \cup {None},
         mSPEAlreadyRunningAtHighestInterval' \in BOOLEAN
  PROVE  RegInv'
<1>. DEFINE s == <<R!fix(Target')>>
<1>1. /\ Saying(s)
      /\ \A k : Holds(s, k) <=> k = "fix"
      /\ \A V : LastIs(s, "nmea", V) /\ (LastIs(s, "fix", V) <=> Target' \in V)
  BY SaidFix
<1>2. apiTasks' = apiTasks \o s
  <2>1. apiTasks \in Seq(ApiTaskOf) /\ s \in Seq(ApiTaskOf)
    BY <1>1 DEF RegInv, RegTypes, Saying
  <2>2. R!fix(Target') \in ApiTaskOf
    BY DEF R!fix, R!msg, ApiTaskOf
  <2>. HIDE DEF ApiTaskOf
  <2>. QED
    BY <2>1, <2>2
<1>3. {mSPEAlreadyRunningAtHighestInterval', mNHzNeeded'} \subseteq BOOLEAN
  BY DEF RegInv, RegTypes
<1>. HIDE DEF s
<1>. QED
  BY <1>1, <1>2, <1>3, IntervalSaid

LEMMA SessionStarts == ASSUME ConfsFit, RegInv, R!MsgStartTracking  PROVE RegInv'
<1>1. /\ R!take("start")
      /\ IF ~capable
         THEN /\ mPendingMsgs' = Append(mPendingMsgs, Head(tasks))
              /\ UNCHANGED <<session, mSPEAlreadyRunningAtHighestInterval, apiTasks>>
         ELSE /\ session' = R!taken /\ UNCHANGED mPendingMsgs
              /\ R!start(mSPEAlreadyRunningAtHighestInterval, mNHzNeeded, R!taken)
      /\ UNCHANGED <<mClientData, wasTold, SUPL_MODE, locQwesFeatType, capable, R!masks, mNHzNeeded,
                     hub, engine>>
  BY DEF R!MsgStartTracking
<1>2. /\ mPendingMsgs \in Seq(Later) /\ session \in Interval \cup {None} /\ None \notin Interval
      /\ mSPEAlreadyRunningAtHighestInterval \in BOOLEAN /\ mNHzNeeded \in BOOLEAN
      /\ mSPEAlreadyRunningAtHighestInterval => mNHzNeeded /\ session # None
  BY DEF RegInv, RegTypes, RateSet, ConfsFit
<1>3. CASE ~capable
  <2>1. mPendingMsgs' \in Seq(Later)
    BY <1>1, <1>3, PutOff
  <2>2. Target' = Target
    BY <1>1, <1>3 DEF Target
  <2>. QED
    BY <1>1, <1>2, <1>3, <2>1, <2>2, IntervalKept
<1>4. CASE capable
  <2>. DEFINE c == R!checkAndSetSPEToRunforNHz(mSPEAlreadyRunningAtHighestInterval, mNHzNeeded, R!taken)
  <2>1. /\ session' = R!taken /\ mPendingMsgs' = mPendingMsgs
        /\ mSPEAlreadyRunningAtHighestInterval' = c.already
        /\ apiTasks' = IF c.skip THEN apiTasks ELSE Append(apiTasks, R!fix(c.interval))
    BY <1>1, <1>4 DEF R!start
  <2>2. R!taken \in Interval
    <3>1. Head(tasks) \in Task /\ Head(tasks).is = "start" /\ R!taken = Head(tasks).value
      BY <1>1, TaskTaken
    <3>. QED
      BY <3>1 DEF Task, Later, Registered
  <2>3. c.already \in BOOLEAN /\ (c.already => mNHzNeeded) /\ (c.skip => Target' = Target)
    BY <1>1, <1>2, <2>1, <2>2 DEF R!checkAndSetSPEToRunforNHz, Target, Interval
  <2>4. ~c.skip => c.interval = Target' /\ Target' \in Interval \cup {None}
    BY <1>1, <1>2, <2>1, <2>2 DEF R!checkAndSetSPEToRunforNHz, Target, Interval
  <2>. HIDE DEF c
  <2>5. session' # None /\ session' \in Interval \cup {None}
    BY <1>2, <2>1, <2>2
  <2>6. CASE c.skip
    BY <1>1, <1>2, <2>1, <2>3, <2>5, <2>6, IntervalKept
  <2>7. CASE ~c.skip
    BY <1>1, <1>2, <2>1, <2>3, <2>4, <2>5, <2>7, IntervalSent
  <2>. QED
    BY <2>6, <2>7
<1>. QED
  BY <1>3, <1>4

LEMMA SessionStops == ASSUME ConfsFit, RegInv, R!MsgStopTracking  PROVE RegInv'
<1>1. /\ R!take("stop") /\ session' = None
      /\ IF session = None THEN UNCHANGED <<apiTasks, mSPEAlreadyRunningAtHighestInterval>>
         ELSE /\ apiTasks' = Append(apiTasks, R!fix(None))
              /\ mSPEAlreadyRunningAtHighestInterval' = FALSE
      /\ UNCHANGED <<R!wiring, capable, R!masks, mNHzNeeded, hub, engine>>
  BY DEF R!MsgStopTracking
<1>. USE DEF R!wiring
<1>2. /\ mPendingMsgs \in Seq(Later) /\ session \in Interval \cup {None} /\ None # "slow"
      /\ mSPEAlreadyRunningAtHighestInterval \in BOOLEAN
      /\ mSPEAlreadyRunningAtHighestInterval => mNHzNeeded /\ session # None
  BY DEF RegInv, RegTypes, RateSet, ConfsFit, Interval
<1>3. Target' = None
  BY <1>1, <1>2 DEF Target
<1>4. CASE session = None
  <2>1. Target' = Target
    BY <1>2, <1>3, <1>4 DEF Target
  <2>. QED
    BY <1>1, <1>2, <1>4, <2>1, IntervalKept
<1>5. CASE session # None
  BY <1>1, <1>2, <1>3, <1>5, IntervalSent
<1>. QED
  BY <1>4, <1>5

LEMMA RateNeeded == ASSUME ConfsFit, RegInv, R!updateNHzRequirementCb  PROVE RegInv'
<1>. DEFINE has == "NHZ_MEASUREMENT" \in mEvtMask
            mask == IF R!taken.measurements /\ ~has THEN mEvtMask \cup {"NHZ_MEASUREMENT"}
                    ELSE mEvtMask \ {"NHZ_MEASUREMENT"}
            restart == R!checkAndRestartSPESession(R!taken.fixes)
            o == R!msg("open", None)
<1>1. /\ R!take("rate")
      /\ mEvtMask' = mask /\ wanted' = R!taken.measurements
      /\ repeated' = (repeated \/ (R!taken.measurements /\ has))
      /\ mNHzNeeded' = R!taken.fixes
      /\ IF mNHzNeeded = R!taken.fixes
         THEN /\ apiTasks' = IF mask = mEvtMask THEN apiTasks ELSE Append(apiTasks, o)
              /\ UNCHANGED mSPEAlreadyRunningAtHighestInterval
         ELSE /\ apiTasks' = apiTasks \o (IF mask = mEvtMask THEN <<>> ELSE <<o>>) \o restart.sent
              /\ mSPEAlreadyRunningAtHighestInterval' = restart.already
      /\ UNCHANGED <<R!wiring, capable, mNmeaMask, registered, odcpi, changed, hub, session, engine>>
  BY DEF R!updateNHzRequirementCb
<1>. USE DEF R!wiring
<1>2. R!taken.fixes \in BOOLEAN /\ R!taken.measurements \in BOOLEAN
  <2>1. Head(tasks) \in Task /\ Head(tasks).is = "rate" /\ R!taken = Head(tasks).value
    BY <1>1, TaskTaken
  <2>. QED
    BY <2>1 DEF Task, Later, Registered
<1>3. /\ Saying(restart.sent) /\ restart.already \in BOOLEAN
      /\ \A k : Holds(restart.sent, k) <=> session # None /\ k = "fix"
      /\ \A V : LastIs(restart.sent, "nmea", V)
      /\ LastIs(restart.sent, "fix", {IF session = "slow" /\ R!taken.fixes THEN "fast" ELSE session})
      /\ restart.already => R!taken.fixes /\ session # None
  <2>. DEFINE needed == R!taken.fixes
  <2>1. needed \in BOOLEAN
    BY <1>2
  <2>. HIDE DEF needed, restart
  <2>2. restart = R!checkAndRestartSPESession(needed)
    BY DEF restart, needed
  <2>3. /\ Saying(restart.sent) /\ restart.already \in BOOLEAN
        /\ \A k : Holds(restart.sent, k) <=> session # None /\ k = "fix"
        /\ \A V : LastIs(restart.sent, "nmea", V)
        /\ LastIs(restart.sent, "fix", {IF session = "slow" /\ needed THEN "fast" ELSE session})
        /\ restart.already => needed /\ session # None
    BY <2>1, <2>2, Restarted
  <2>. QED
    BY <2>3 DEF needed
<1>4. Target' = IF session = "slow" /\ R!taken.fixes THEN "fast" ELSE session
  BY <1>1 DEF Target
<1>5. /\ mEvtMask' \ {"NHZ_MEASUREMENT"} = mEvtMask \ {"NHZ_MEASUREMENT"}
      /\ "NHZ_MEASUREMENT" \in mEvtMask' <=> R!taken.measurements /\ ~has
      /\ mEvtMask' \in SUBSET Event
      /\ "SATELLITE" \in mEvtMask' <=> "SATELLITE" \in mEvtMask
  BY <1>1 DEF RegInv, RegTypes, Event
<1>. HIDE DEF mask, restart
<1>6. o \in ApiTaskOf /\ o.is = "open" /\ Saying(<<o>>) /\ Saying(<<>>)
  BY Said DEF R!msg, ApiTaskOf
<1>. HIDE DEF o
<1>7. /\ \A k : Holds(<<o>>, k) <=> o.is = k
      /\ \A k, V : LastIs(<<o>>, k, V) <=> (o.is = k => o.value \in V)
      /\ \A k : ~Holds(<<>>, k)
      /\ \A k, V : LastIs(<<>>, k, V)
  <2>1. /\ \A k : Holds(<<o>>, k) <=> o.is = k
        /\ \A k, V : LastIs(<<o>>, k, V) <=> (o.is = k => o.value \in V)
    BY ONLY <1>6, Alone
  <2>. QED
    BY <2>1, Alone
<1>8. apiTasks \in Seq(ApiTaskOf)
  BY DEF RegInv, RegTypes
<1>. DEFINE a == IF mEvtMask' = mEvtMask THEN <<>> ELSE <<o>>
<1>9. /\ Saying(a) /\ (\A k : Holds(a, k) => k = "open")
      /\ mEvtMask' = mEvtMask \/ Holds(a, "open")
      /\ \A V : LastIs(a, "nmea", V) /\ LastIs(a, "fix", V)
  BY <1>6, <1>7
<1>10. PICK s : /\ Saying(s) /\ apiTasks' = apiTasks \o s
                /\ \A k : Holds(s, k) => k \in {"open", "fix"}
                /\ mEvtMask' = mEvtMask \/ Holds(s, "open")
                /\ \A V : LastIs(s, "nmea", V)
                /\ LastIs(s, "fix", {Target'}) /\ (Holds(s, "fix") \/ Target' = Target)
                /\ mSPEAlreadyRunningAtHighestInterval' \in BOOLEAN
                /\ mSPEAlreadyRunningAtHighestInterval' => mNHzNeeded' /\ session' # None
  <2>1. CASE mNHzNeeded = R!taken.fixes
    <3>1. apiTasks' = apiTasks \o a
      <4>1. apiTasks' = IF mEvtMask' = mEvtMask THEN apiTasks ELSE Append(apiTasks, o)
        BY <1>1, <2>1
      <4>. HIDE DEF ApiTaskOf
      <4>. QED
        BY <1>6, <1>8, <4>1
    <3>2. Target' = Target
      BY <1>1, <2>1 DEF Target
    <3>3. /\ mSPEAlreadyRunningAtHighestInterval' \in BOOLEAN
          /\ mSPEAlreadyRunningAtHighestInterval' => mNHzNeeded' /\ session' # None
      BY <1>1, <2>1 DEF RegInv, RegTypes, RateSet
    <3>. QED
      BY <1>9, <3>1, <3>2, <3>3
  <2>2. CASE mNHzNeeded # R!taken.fixes
    <3>. DEFINE b == restart.sent
    <3>1. apiTasks' = (apiTasks \o a) \o b /\ mSPEAlreadyRunningAtHighestInterval' = restart.already
      <4>1. (IF mask = mEvtMask THEN <<>> ELSE <<o>>) = a
        BY <1>1
      <4>2. apiTasks' = apiTasks \o (IF mask = mEvtMask THEN <<>> ELSE <<o>>) \o restart.sent
        BY <1>1, <2>2
      <4>. HIDE DEF a
      <4>3. apiTasks' = (apiTasks \o a) \o restart.sent
        BY <4>1, <4>2, Zenon
      <4>4. mSPEAlreadyRunningAtHighestInterval' = restart.already
        BY <1>1, <2>2
      <4>. QED
        BY <4>3, <4>4, Zenon
    <3>2. Holds(b, "fix") \/ Target' = Target
      BY <1>1, <1>3, <1>4 DEF Target, ConfsFit, Interval
    <3>. HIDE DEF a, b
    <3>3. Saying(a) /\ Saying(b)
      BY <1>3, <1>9 DEF b
    <3>4. /\ Saying(a \o b) /\ (apiTasks \o a) \o b = apiTasks \o (a \o b)
          /\ \A k : Holds(a \o b, k) <=> Holds(a, k) \/ Holds(b, k)
          /\ \A k, V : LastIs(b, k, V) /\ (Holds(b, k) \/ LastIs(a, k, V)) => LastIs(a \o b, k, V)
      BY ONLY <1>8, <3>3, SaidTwice
    <3>5. LastIs(b, "fix", {Target'}) /\ (\A V : LastIs(b, "nmea", V)) /\ (\A k : Holds(b, k) => k = "fix")
      BY <1>3, <1>4 DEF b
    <3>6. LastIs(a \o b, "fix", {Target'}) /\ \A V : LastIs(a \o b, "nmea", V)
      BY <1>9, <3>4, <3>5
    <3>. WITNESS a \o b
    <3>. QED
      BY <1>1, <1>3, <1>9, <3>1, <3>2, <3>4, <3>5, <3>6
  <2>. QED
    BY <2>1, <2>2
<1>11. /\ tasks' \in Seq(Task) /\ conf' = conf /\ hub.loaded
       /\ Holds(tasks', "up") <=> Holds(tasks, "up")
  BY <1>1, TaskTaken
<1>12. RegTypes'
  <2>1. apiTasks' \in Seq(ApiTaskOf)
    BY <1>1, <1>10, NothingMore
  <2>2. {wanted', repeated', mNHzNeeded', mSPEAlreadyRunningAtHighestInterval'} \subseteq BOOLEAN
    BY <1>1, <1>2, <1>10 DEF RegInv, RegTypes
  <2>. QED
    BY <1>1, <1>5, <1>11, <2>1, <2>2 DEF RegInv, RegTypes
<1>13. HubOnce'
  BY <1>1, <1>5, <1>11 DEF RegInv, HubOnce
<1>14. Masked'
  <2>1. R!clientsMask(mClientData)' = R!clientsMask(mClientData)
    BY <1>1 DEF R!clientsMask, R!someone, R!bit
  <2>2. \A k : Holds(apiTasks, k)' <=> Holds(apiTasks', k)
    BY DEF Holds
  <2>3. engine'.up /\ (\A k \in {"open", "ssr", "openAdapter"} : ~Holds(apiTasks', k)) =>
          engine'.mask = mEvtMask'
    BY <1>1, <1>10, MaskOpened
  <2>4. ~repeated' => ("NHZ_MEASUREMENT" \in mEvtMask' <=> wanted')
    BY <1>1, <1>5
  <2>5. mEvtMask' \ {"NHZ_MEASUREMENT"} =
          R!clientsMask(mClientData)
            \cup (IF hub.loaded /\ changed THEN {"GNSS_MEASUREMENT", "EPHEMERIS"} ELSE {})
            \cup R!bit(registered, "LOCATION_SERVER") \cup R!bit(odcpi, "WIFI")
    BY <1>5 DEF RegInv, Masked
  <2>6. registered => conf.assisted
    BY DEF RegInv, Masked
  <2>. QED
    BY <1>1, <1>11, <2>1, <2>2, <2>3, <2>4, <2>5, <2>6 DEF Masked, R!bit
<1>15. NmeaSet'
  BY <1>1, <1>10, NmeaAfter
<1>16. ToldOrAsks'
  BY <1>1, <1>10, ToldAfter
<1>17. RateSet'
  BY <1>1, <1>10, <1>11, RateSame DEF RegInv
<1>. QED
  BY <1>12, <1>13, <1>14, <1>15, <1>16, <1>17 DEF RegInv
------------------------------------------------------------------------------
(* The modem is there.                                                     *)

LEMMA PendingTaken ==
  ASSUME RegInv, tasks # <<>>, Head(tasks).is = "up", tasks' = Tail(tasks) \o mPendingMsgs
  PROVE  tasks' \in Seq(Task) /\ AddsAsk(tasks') /\ (Holds(tasks', "rate") => hub.loaded) /\ engine.up
<1>1. tasks \in Seq(Task) /\ mPendingMsgs \in Seq(Later)
  BY DEF RegInv, RegTypes
<1>2. /\ \A n \in 1..Len(mPendingMsgs) : mPendingMsgs[n].is \in {"capabilities", "start"}
      /\ mPendingMsgs \in Seq(Task)
  <2>1. Later \subseteq Task /\ \A m \in Later : m.is \in {"capabilities", "start"}
    BY DEF Task, Later
  <2>. HIDE DEF Later, Task
  <2>. QED
    BY <1>1, <2>1
<1>3. AddsAsk(mPendingMsgs) /\ ~Holds(mPendingMsgs, "rate")
  BY <1>2 DEF AddsAsk, Holds
<1>. HIDE DEF Task, Later
<1>4. /\ Tail(tasks) \in Seq(Task)
      /\ \A k : Holds(tasks, k) <=> Head(tasks).is = k \/ Holds(Tail(tasks), k)
  BY ONLY <1>1, tasks # <<>>, Rest
<1>5. AddsAsk(tasks) => AddsAsk(Tail(tasks))
  BY ONLY <1>1, tasks # <<>>, AsksRest
<1>6. /\ tasks' \in Seq(Task)
      /\ \A k : Holds(tasks', k) <=> Holds(Tail(tasks), k) \/ Holds(mPendingMsgs, k)
  BY ONLY <1>2, <1>4, tasks' = Tail(tasks) \o mPendingMsgs, Joined
<1>7. AddsAsk(Tail(tasks)) /\ AddsAsk(mPendingMsgs) => AddsAsk(tasks')
  BY ONLY <1>2, <1>4, tasks' = Tail(tasks) \o mPendingMsgs, AsksJoined
<1>8. AddsAsk(tasks) /\ (Holds(tasks, "rate") => hub.loaded) /\ (Holds(tasks, "up") => engine.up)
  BY DEF RegInv, ToldOrAsks, HubOnce, NmeaSet
<1>. QED
  BY <1>3, <1>4, <1>5, <1>6, <1>7, <1>8

\* What the adapter sends when it learns of the modem: it opens it again for sentences, and
\* sends the types of the sentences and the interval of the session.
LEMMA SessionsRestarted ==
  ASSUME ConfsFit, RegInv, R!MsgHandleEngineUpEvent
  PROVE  \E s : /\ Saying(s) /\ apiTasks' = apiTasks \o s
                /\ mEvtMask' = mEvtMask \/ Holds(s, "open")
                /\ LastIs(s, "nmea", AtLeast)
                /\ R!nmeaTypes # {} => Holds(s, "nmea")
                /\ LastIs(s, "fix", {Target}) /\ (session # None => Holds(s, "fix"))
<1>. DEFINE widened == mNmeaMask # R!nmeaTypes /\ R!nmeaTypes # {} /\ R!someone(mClientData, "nmea")
            restart == R!checkAndRestartSPESession(mNHzNeeded)
            o == R!msg("open", None)
            n == R!msg("nmea", R!nmeaTypes)
            a == IF widened THEN <<o>> ELSE <<>>
            b == IF R!nmeaTypes # {} THEN <<n>> ELSE <<>>
            c == restart.sent
<1>1. apiTasks' = ((apiTasks \o a) \o b) \o c /\ (mEvtMask' = mEvtMask \/ widened)
  BY DEF R!MsgHandleEngineUpEvent
<1>2. R!nmeaTypes \in SUBSET Nmea /\ R!nmeaTypes \in AtLeast
  BY DEF AtLeast, Nmea, R!nmeaTypes, R!bit
<1>3. /\ o \in ApiTaskOf /\ o.is = "open" /\ Saying(<<o>>) /\ Saying(<<>>)
      /\ n \in ApiTaskOf /\ n.is = "nmea" /\ n.value = R!nmeaTypes /\ Saying(<<n>>)
  BY <1>2, Said DEF R!msg, ApiTaskOf
<1>4. mNHzNeeded \in BOOLEAN /\ apiTasks \in Seq(ApiTaskOf)
  BY DEF RegInv, RegTypes
<1>. HIDE DEF o, n, restart
<1>5. restart = R!checkAndRestartSPESession(mNHzNeeded)
  BY DEF restart
<1>6. /\ Saying(c) /\ (\A k : Holds(c, k) <=> session # None /\ k = "fix")
      /\ \A V : LastIs(c, "nmea", V)
      /\ LastIs(c, "fix", {Target})
  BY <1>4, <1>5, Restarted DEF Target
<1>7. /\ \A k : Holds(<<o>>, k) <=> o.is = k
      /\ \A k, V : LastIs(<<o>>, k, V) <=> (o.is = k => o.value \in V)
  BY ONLY <1>3, Alone
<1>8. /\ \A k : Holds(<<n>>, k) <=> n.is = k
      /\ \A k, V : LastIs(<<n>>, k, V) <=> (n.is = k => n.value \in V)
  BY ONLY <1>3, Alone
<1>9. (\A k : ~Holds(<<>>, k)) /\ \A k, V : LastIs(<<>>, k, V)
  BY Alone
<1>10. /\ Saying(a) /\ (\A k : Holds(a, k) <=> widened /\ k = "open")
       /\ \A V : LastIs(a, "nmea", V) /\ LastIs(a, "fix", V)
  <2>. HIDE DEF widened
  <2>. QED
    BY <1>3, <1>7, <1>9
<1>11. /\ Saying(b) /\ (\A k : Holds(b, k) <=> R!nmeaTypes # {} /\ k = "nmea")
       /\ LastIs(b, "nmea", AtLeast) /\ (\A V : LastIs(b, "fix", V))
  BY <1>2, <1>3, <1>8, <1>9
<1>. HIDE DEF a, b, c, widened
<1>12. /\ Saying(a \o b) /\ (apiTasks \o a) \o b = apiTasks \o (a \o b)
       /\ \A k : Holds(a \o b, k) <=> Holds(a, k) \/ Holds(b, k)
       /\ \A k, V : LastIs(b, k, V) /\ (Holds(b, k) \/ LastIs(a, k, V)) => LastIs(a \o b, k, V)
  BY ONLY <1>4, <1>10, <1>11, SaidTwice
<1>. DEFINE d == a \o b
<1>13. /\ Saying(d \o c) /\ (apiTasks \o d) \o c = apiTasks \o (d \o c)
       /\ \A k : Holds(d \o c, k) <=> Holds(d, k) \/ Holds(c, k)
       /\ \A k, V : LastIs(c, k, V) /\ (Holds(c, k) \/ LastIs(d, k, V)) => LastIs(d \o c, k, V)
  <2>1. Saying(d)
    BY <1>12
  <2>. HIDE DEF d
  <2>. QED
    BY ONLY <1>4, <1>6, <2>1, SaidTwice
<1>14. apiTasks' = apiTasks \o (d \o c)
  <2>1. apiTasks' = ((apiTasks \o a) \o b) \o c
    BY <1>1, Zenon
  <2>2. (apiTasks \o a) \o b = apiTasks \o d
    BY <1>12, Zenon DEF d
  <2>3. (apiTasks \o d) \o c = apiTasks \o (d \o c)
    BY <1>13, Zenon
  <2>. HIDE DEF d
  <2>. QED
    BY <2>1, <2>2, <2>3, Zenon
<1>15. LastIs(d, "nmea", AtLeast) /\ LastIs(d, "fix", {Target}) /\ (Holds(d, "nmea") <=> R!nmeaTypes # {})
       /\ (Holds(d, "open") <=> widened)
  BY <1>10, <1>11, <1>12
<1>. HIDE DEF d
<1>16. LastIs(d \o c, "nmea", AtLeast) /\ LastIs(d \o c, "fix", {Target})
  BY <1>6, <1>13, <1>15
<1>. WITNESS d \o c
<1>. QED
  BY <1>1, <1>6, <1>13, <1>14, <1>15, <1>16

LEMMA EngineUpHandled == ASSUME ConfsFit, RegInv, R!MsgHandleEngineUpEvent  PROVE RegInv'
<1>. DEFINE widened == mNmeaMask # R!nmeaTypes /\ R!nmeaTypes # {} /\ R!someone(mClientData, "nmea")
            restart == R!checkAndRestartSPESession(mNHzNeeded)
<1>1. /\ tasks # <<>> /\ Head(tasks).is = "up" /\ tasks' = Tail(tasks) \o mPendingMsgs
      /\ capable' = TRUE /\ mPendingMsgs' = <<>>
      /\ R!broadcastCapabilities(SUPL_MODE', locQwesFeatType')
      /\ mNmeaMask' = R!nmeaTypes
      /\ mEvtMask' = IF widened THEN mEvtMask \cup {"NMEA_1HZ"} ELSE mEvtMask
      /\ mSPEAlreadyRunningAtHighestInterval' = restart.already
      /\ UNCHANGED <<mClientData, SUPL_MODE, locQwesFeatType, registered, odcpi, wanted, repeated,
                     changed, mNHzNeeded, session, hub, engine, conf>>
  BY DEF R!MsgHandleEngineUpEvent, R!bounds, R!broadcastCapabilities
<1>2. PICK s : /\ Saying(s) /\ apiTasks' = apiTasks \o s
               /\ mEvtMask' = mEvtMask \/ Holds(s, "open")
               /\ LastIs(s, "nmea", AtLeast)
               /\ R!nmeaTypes # {} => Holds(s, "nmea")
               /\ LastIs(s, "fix", {Target}) /\ (session # None => Holds(s, "fix"))
  BY SessionsRestarted
<1>3. restart.already \in BOOLEAN /\ (restart.already => mNHzNeeded /\ session # None)
  <2>1. mNHzNeeded \in BOOLEAN
    BY DEF RegInv, RegTypes
  <2>. HIDE DEF restart
  <2>2. restart = R!checkAndRestartSPESession(mNHzNeeded)
    BY DEF restart
  <2>. QED
    BY <2>1, <2>2, Restarted
<1>. HIDE DEF restart
<1>4. tasks' \in Seq(Task) /\ AddsAsk(tasks') /\ (Holds(tasks', "rate") => hub.loaded) /\ engine.up
  BY <1>1, PendingTaken
<1>5. apiTasks \in Seq(ApiTaskOf) /\ s \in Seq(ApiTaskOf)
  BY <1>2 DEF RegInv, RegTypes, Saying
<1>6. /\ apiTasks' \in Seq(ApiTaskOf)
      /\ \A k : Holds(apiTasks', k) <=> Holds(apiTasks, k) \/ Holds(s, k)
      /\ \A k, V : LastIs(s, k, V) /\ (Holds(s, k) \/ LastIs(apiTasks, k, V)) => LastIs(apiTasks', k, V)
  <2>1. apiTasks' = apiTasks \o s
    BY <1>2
  <2>. QED
    BY ONLY <1>5, <2>1, Joined
<1>7. (R!nmeaTypes)' = R!nmeaTypes
  BY <1>1 DEF R!nmeaTypes, R!bit, R!features
<1>8. RegTypes'
  <2>1. <<>> \in Seq(Later)
    OBVIOUS
  <2>2. mEvtMask' \in SUBSET Event
    BY <1>1 DEF RegInv, RegTypes, Event
  <2>3. DOMAIN wasTold' = Client
    BY <1>1 DEF R!broadcastCapabilities
  <2>. HIDE DEF widened
  <2>. QED
    BY <1>1, <1>3, <1>4, <1>6, <2>1, <2>2, <2>3 DEF RegInv, RegTypes
<1>9. HubOnce'
  <2>1. \A k : Holds(tasks, k)' <=> Holds(tasks', k)
    BY DEF Holds
  <2>2. /\ "SATELLITE" \in mEvtMask' <=> "SATELLITE" \in mEvtMask
        /\ "NHZ_MEASUREMENT" \in mEvtMask' <=> "NHZ_MEASUREMENT" \in mEvtMask
    BY <1>1
  <2>. QED
    BY <1>1, <1>4, <2>1, <2>2 DEF RegInv, HubOnce
<1>10. Masked'
  <2>1. mNmeaMask \in {{}, R!nmeaTypes} /\ registered => conf.assisted
    BY DEF RegInv, NmeaSet, Masked
  <2>2. R!clientsMask(mClientData)' =
          R!clientsMask(mClientData) \cup (IF widened THEN {"NMEA_1HZ"} ELSE {})
    BY <1>1, <2>1 DEF RegInv, NmeaSet, R!clientsMask, R!someone, R!bit
  <2>3. \A k : Holds(apiTasks, k)' <=> Holds(apiTasks', k)
    BY DEF Holds
  <2>4. engine'.up /\ (\A k \in {"open", "ssr", "openAdapter"} : ~Holds(apiTasks', k)) =>
          engine'.mask = mEvtMask'
    BY <1>1, <1>2, <1>6 DEF RegInv, Masked
  <2>5. mEvtMask' \ {"NHZ_MEASUREMENT"} = R!clientsMask(mClientData)'
           \cup (IF hub.loaded /\ changed THEN {"GNSS_MEASUREMENT", "EPHEMERIS"} ELSE {})
           \cup R!bit(registered, "LOCATION_SERVER") \cup R!bit(odcpi, "WIFI")
    <3>1. mEvtMask' \ {"NHZ_MEASUREMENT"} =
            (mEvtMask \ {"NHZ_MEASUREMENT"}) \cup (IF widened THEN {"NMEA_1HZ"} ELSE {})
      BY <1>1
    <3>. HIDE DEF widened
    <3>. QED
      BY <2>2, <3>1 DEF RegInv, Masked
  <2>6. ~repeated => ("NHZ_MEASUREMENT" \in mEvtMask' <=> wanted)
    BY <1>1 DEF RegInv, Masked
  <2>7. registered => conf.assisted
    BY DEF RegInv, Masked
  <2>. HIDE DEF widened
  <2>. QED
    BY <1>1, <2>3, <2>4, <2>5, <2>6, <2>7 DEF Masked, R!bit
<1>11. NmeaSet'
  <2>1. AtLeast' = AtLeast
    BY <1>7 DEF AtLeast
  <2>2. \A n \in 1..Len(apiTasks') : apiTasks'[n].is = "nmea" =>
          apiTasks'[n].value \subseteq R!nmeaTypes \cup {"DEBUG"}
    <3>1. \A n \in 1..Len(apiTasks) : apiTasks[n].is = "nmea" =>
            apiTasks[n].value \subseteq R!nmeaTypes \cup {"DEBUG"}
      BY DEF RegInv, NmeaSet
    <3>2. \A n \in 1..Len(s) : s[n].is = "nmea" => s[n].value \subseteq R!nmeaTypes \cup {"DEBUG"}
      BY <1>2 DEF Saying
    <3>3. /\ Len(apiTasks) \in Nat /\ Len(s) \in Nat /\ Len(apiTasks') = Len(apiTasks) + Len(s)
          /\ \A n \in 1..Len(apiTasks) : apiTasks'[n] = apiTasks[n]
          /\ \A n \in 1..Len(s) : apiTasks'[Len(apiTasks) + n] = s[n]
      <4>. HIDE DEF ApiTaskOf
      <4>. QED
        BY <1>2, <1>5
    <3>4. \A n \in 1..Len(apiTasks') : n \notin 1..Len(apiTasks) =>
            n - Len(apiTasks) \in 1..Len(s) /\ apiTasks'[n] = s[n - Len(apiTasks)]
      <4> SUFFICES ASSUME NEW n \in 1..Len(apiTasks'), n \notin 1..Len(apiTasks)
                   PROVE  n - Len(apiTasks) \in 1..Len(s) /\ apiTasks'[n] = s[n - Len(apiTasks)]
        OBVIOUS
      <4>1. n - Len(apiTasks) \in 1..Len(s) /\ Len(apiTasks) + (n - Len(apiTasks)) = n
        BY <3>3
      <4>. QED
        BY <3>3, <4>1
    <3>. QED
      BY <3>1, <3>2, <3>3, <3>4
  <2>3. LastIs(apiTasks', "nmea", AtLeast) /\ (Holds(apiTasks', "nmea") \/ engine.nmea \in AtLeast)
    <3>1. CASE R!nmeaTypes # {}
      BY <1>2, <1>6, <3>1
    <3>2. CASE R!nmeaTypes = {}
      <4>1. \A v : v \subseteq R!nmeaTypes \cup {"DEBUG"} => v \in AtLeast
        BY <3>2 DEF AtLeast, Nmea
      <4>2. engine.nmea \in AtLeast
        BY <4>1 DEF RegInv, NmeaSet
      <4>3. LastIs(apiTasks', "nmea", AtLeast)
        BY <2>2, <4>1 DEF LastIs
      <4>. QED
        BY <4>2, <4>3
    <3>. QED
      BY <3>1, <3>2
  <2>4. /\ LastIs(apiTasks, "nmea", AtLeast)' <=> LastIs(apiTasks', "nmea", AtLeast)
        /\ Holds(apiTasks, "nmea")' <=> Holds(apiTasks', "nmea")
    BY <2>1 DEF LastIs, Holds
  <2>5. engine'.nmea \subseteq R!nmeaTypes \cup {"DEBUG"} /\ engine'.up
    BY <1>1, <1>4 DEF RegInv, NmeaSet
  <2>6. engine' = engine
    BY <1>1
  <2>. QED
    BY <1>1, <1>7, <2>1, <2>2, <2>3, <2>4, <2>5, <2>6 DEF NmeaSet
<1>12. ToldOrAsks'
  BY <1>1, <1>4, ToldAnew
<1>13. RateSet'
  <2>1. Target' = Target
    BY <1>1 DEF Target
  <2>2. LastIs(apiTasks', "fix", {Target})
    BY <1>2, <1>6 DEF RegInv, RateSet
  <2>3. LastIs(apiTasks, "fix", {Target})' <=> LastIs(apiTasks', "fix", {Target})
    BY <2>1 DEF LastIs
  <2>4. ~Holds(apiTasks', "fix") => engine.interval = Target
    <3>1. session = None => Target = None
      BY DEF Target, ConfsFit, Interval
    <3>. QED
      BY <1>2, <1>6, <3>1 DEF RegInv, RateSet
  <2>5. Holds(apiTasks, "fix")' <=> Holds(apiTasks', "fix")
    BY DEF Holds
  <2>. QED
    BY <1>1, <1>3, <1>4, <2>1, <2>2, <2>3, <2>4, <2>5 DEF RateSet
<1>. QED
  BY <1>8, <1>9, <1>10, <1>11, <1>12, <1>13 DEF RegInv
------------------------------------------------------------------------------
(* The task of LocApiBase, and the modem.                                  *)

LEMMA ApiTaken ==
  ASSUME RegInv, NEW kind, R!takeApi(kind)
  PROVE  /\ apiTasks # <<>> /\ Head(apiTasks).is = kind /\ apiTasks' = Tail(apiTasks)
         /\ Head(apiTasks) \in ApiTaskOf /\ apiTasks' \in Seq(ApiTaskOf)
         /\ \A k : Holds(apiTasks, k) <=> kind = k \/ Holds(apiTasks', k)
         /\ \A k, V : LastIs(apiTasks, k, V) =>
              /\ LastIs(apiTasks', k, V)
              /\ kind = k /\ ~Holds(apiTasks', k) => Head(apiTasks).value \in V
         /\ \A n \in 1..Len(apiTasks') : apiTasks'[n].is = "nmea" =>
              apiTasks'[n].value \subseteq R!nmeaTypes \cup {"DEBUG"}
         /\ kind = "nmea" => Head(apiTasks).value \subseteq R!nmeaTypes \cup {"DEBUG"}
         /\ UNCHANGED <<conf, R!wiring, capable, R!masks, R!fixes, hub>>
<1>1. /\ apiTasks # <<>> /\ Head(apiTasks).is = kind /\ apiTasks' = Tail(apiTasks)
      /\ UNCHANGED <<conf, R!wiring, capable, R!masks, R!fixes, hub>>
  BY DEF R!takeApi, R!bounds
<1>2. apiTasks \in Seq(ApiTaskOf)
  BY DEF RegInv, RegTypes
<1>. HIDE DEF ApiTaskOf
<1>3. /\ Tail(apiTasks) \in Seq(ApiTaskOf) /\ Head(apiTasks) \in ApiTaskOf
      /\ \A k : Holds(apiTasks, k) <=> Head(apiTasks).is = k \/ Holds(Tail(apiTasks), k)
      /\ \A k, V : LastIs(apiTasks, k, V) =>
           /\ LastIs(Tail(apiTasks), k, V)
           /\ Head(apiTasks).is = k /\ ~Holds(Tail(apiTasks), k) => Head(apiTasks).value \in V
  BY ONLY <1>1, <1>2, Rest
<1>4. /\ \A n \in 1..Len(apiTasks') : n + 1 \in 1..Len(apiTasks) /\ apiTasks'[n] = apiTasks[n + 1]
      /\ 1 \in 1..Len(apiTasks) /\ Head(apiTasks) = apiTasks[1]
  BY <1>1, <1>2
<1>5. \A n \in 1..Len(apiTasks) : apiTasks[n].is = "nmea" =>
        apiTasks[n].value \subseteq R!nmeaTypes \cup {"DEBUG"}
  BY DEF RegInv, NmeaSet
<1>6. /\ \A n \in 1..Len(apiTasks') : apiTasks'[n].is = "nmea" =>
           apiTasks'[n].value \subseteq R!nmeaTypes \cup {"DEBUG"}
      /\ kind = "nmea" => Head(apiTasks).value \subseteq R!nmeaTypes \cup {"DEBUG"}
  BY <1>1, <1>4, <1>5
<1>. QED
  BY <1>1, <1>3, <1>6

\* What a message leaves of the modem and of the adapter.
LEMMA ModemSame ==
  ASSUME RegInv, NEW kind \in {"open", "nmea", "fix"}, R!takeApi(kind), tasks' = tasks,
         engine' \in [up : BOOLEAN, mask : SUBSET Event, nmea : SUBSET Nmea,
                      interval : Interval \cup {None}],
         engine'.up = engine.up, engine'.mask \in {engine.mask, mEvtMask},
         kind = "open" /\ engine.up => engine'.mask = mEvtMask, kind # "open" => engine'.mask = engine.mask,
         engine'.nmea = IF kind = "nmea" /\ engine.up THEN Head(apiTasks).value ELSE engine.nmea,
         engine'.interval = IF kind = "fix" /\ engine.up THEN Head(apiTasks).value ELSE engine.interval
  PROVE  RegInv'
<1>1. /\ apiTasks' \in Seq(ApiTaskOf) /\ apiTasks' = Tail(apiTasks)
      /\ \A k : Holds(apiTasks, k) <=> kind = k \/ Holds(apiTasks', k)
      /\ \A k, V : LastIs(apiTasks, k, V) =>
           /\ LastIs(apiTasks', k, V)
           /\ kind = k /\ ~Holds(apiTasks', k) => Head(apiTasks).value \in V
      /\ \A n \in 1..Len(apiTasks') : apiTasks'[n].is = "nmea" =>
           apiTasks'[n].value \subseteq R!nmeaTypes \cup {"DEBUG"}
      /\ kind = "nmea" => Head(apiTasks).value \subseteq R!nmeaTypes \cup {"DEBUG"}
      /\ UNCHANGED <<conf, R!wiring, capable, R!masks, R!fixes, hub>>
  BY ApiTaken
<1>. USE DEF R!wiring, R!masks, R!fixes
<1>2. /\ \A k : Holds(apiTasks, k)' <=> Holds(apiTasks', k)
      /\ \A k : Holds(tasks, k)' <=> Holds(tasks, k)
  BY DEF Holds
<1>3. Settled' <=> Settled
  BY <1>1, <1>2 DEF Settled
<1>4. (R!nmeaTypes)' = R!nmeaTypes
  BY <1>1 DEF R!nmeaTypes, R!bit, R!features
<1>5. AtLeast' = AtLeast
  BY <1>4 DEF AtLeast
<1>6. RegTypes'
  BY <1>1 DEF RegInv, RegTypes
<1>7. HubOnce'
  BY <1>1, <1>2 DEF RegInv, HubOnce
<1>8. Masked'
  <2>1. R!clientsMask(mClientData)' = R!clientsMask(mClientData)
    BY <1>1 DEF R!clientsMask, R!someone, R!bit
  <2>2. engine'.up /\ (\A k \in {"open", "ssr", "openAdapter"} : ~Holds(apiTasks', k)) =>
          engine'.mask = mEvtMask
    BY <1>1 DEF RegInv, Masked
  <2>. QED
    BY <1>1, <1>2, <2>1, <2>2 DEF RegInv, Masked, R!bit
<1>9. NmeaSet'
  <2>1. engine'.nmea \subseteq R!nmeaTypes \cup {"DEBUG"}
    BY <1>1 DEF RegInv, NmeaSet
  <2>2. \A k : LastIs(apiTasks, k, AtLeast)' <=> LastIs(apiTasks', k, AtLeast)
    BY <1>5 DEF LastIs
  <2>3. Settled => LastIs(apiTasks', "nmea", AtLeast)
    BY <1>1 DEF RegInv, NmeaSet
  <2>4. Settled => Holds(apiTasks', "nmea") \/ engine'.nmea \in AtLeast
    BY <1>1 DEF RegInv, NmeaSet, Settled
  <2>. QED
    BY <1>1, <1>2, <1>3, <1>4, <1>5, <2>1, <2>2, <2>3, <2>4 DEF RegInv, NmeaSet
<1>10. ToldOrAsks'
  <2>1. Current' = Current
    BY <1>1 DEF Current, R!getCapabilities, R!baseCapabilities, R!features, R!always,
                R!carrierCapabilities, R!sQwesFeatureMask
  <2>2. AddsAsk(tasks') /\ \A c \in Client : AsksAfter(tasks, 0, c) => AsksAfter(tasks', 0, c)
    BY DEF RegInv, ToldOrAsks
  <2>. QED
    BY <1>1, <1>3, <2>1, <2>2, ToldSame DEF RegInv
<1>11. RateSet'
  <2>1. Target' = Target
    BY <1>1 DEF Target
  <2>2. LastIs(apiTasks, "fix", {Target})' <=> LastIs(apiTasks', "fix", {Target})
    BY <2>1 DEF LastIs
  <2>3. LastIs(apiTasks, "fix", {Target})
    BY DEF RegInv, RateSet
  <2>4. ~Holds(apiTasks', "fix") => engine'.interval \in {Target} \cup IF Settled THEN {} ELSE {None}
    <3>1. CASE kind = "fix" /\ engine.up
      BY <1>1, <2>3, <3>1
    <3>2. CASE kind = "fix" /\ ~engine.up
      <4>1. engine.interval = None
        BY <3>2 DEF RegInv, RateSet
      <4>. QED
        BY <3>2, <4>1 DEF Settled
    <3>3. CASE kind # "fix"
      BY <1>1, <3>3 DEF RegInv, RateSet
    <3>. QED
      BY <3>1, <3>2, <3>3
  <2>. QED
    BY <1>1, <1>2, <1>3, <2>1, <2>2, <2>3, <2>4 DEF RegInv, RateSet
<1>. QED
  BY <1>6, <1>7, <1>8, <1>9, <1>10, <1>11 DEF RegInv

LEMMA ModemTold ==
  ASSUME RegInv, R!LocOpenMsg \/ R!LocSetNmeaMsg \/ R!startTimeBasedTracking
  PROVE  RegInv'
<1>. DEFINE Modem == [up : BOOLEAN, mask : SUBSET Event, nmea : SUBSET Nmea,
                      interval : Interval \cup {None}]
<1>0. engine \in Modem /\ mEvtMask \in SUBSET Event
  BY DEF RegInv, RegTypes
<1>1. CASE R!LocOpenMsg
  <2>1. /\ R!takeApi("open") /\ tasks' = tasks
        /\ engine' = IF engine.up THEN [engine EXCEPT !.mask = mEvtMask] ELSE engine
    BY <1>1 DEF R!LocOpenMsg, R!toModem
  <2>2. /\ engine' \in Modem /\ engine'.up = engine.up /\ engine'.mask \in {engine.mask, mEvtMask}
        /\ engine.up => engine'.mask = mEvtMask
        /\ engine'.nmea = engine.nmea /\ engine'.interval = engine.interval
    BY <1>0, <2>1
  <2>. QED
    BY <2>1, <2>2, ModemSame
<1>2. CASE R!LocSetNmeaMsg
  <2>1. /\ R!takeApi("nmea") /\ tasks' = tasks
        /\ engine' = IF engine.up THEN [engine EXCEPT !.nmea = Head(apiTasks).value] ELSE engine
    BY <1>2 DEF R!LocSetNmeaMsg, R!toModem
  <2>2. Head(apiTasks).value \in SUBSET Nmea
    <3>1. Head(apiTasks).is = "nmea" /\ Head(apiTasks) \in ApiTaskOf
      BY <2>1, ApiTaken
    <3>. QED
      BY <3>1 DEF ApiTaskOf
  <2>3. /\ engine' \in Modem /\ engine'.up = engine.up /\ engine'.mask = engine.mask
        /\ engine'.nmea = (IF engine.up THEN Head(apiTasks).value ELSE engine.nmea)
        /\ engine'.interval = engine.interval
    BY <1>0, <2>1, <2>2
  <2>. QED
    BY <2>1, <2>3, ModemSame
<1>3. CASE R!startTimeBasedTracking
  <2>1. /\ R!takeApi("fix") /\ tasks' = tasks
        /\ engine' = IF engine.up THEN [engine EXCEPT !.interval = Head(apiTasks).value] ELSE engine
    BY <1>3 DEF R!startTimeBasedTracking, R!toModem
  <2>2. Head(apiTasks).value \in Interval \cup {None}
    <3>1. Head(apiTasks).is = "fix" /\ Head(apiTasks) \in ApiTaskOf
      BY <2>1, ApiTaken
    <3>. QED
      BY <3>1 DEF ApiTaskOf
  <2>3. /\ engine' \in Modem /\ engine'.up = engine.up /\ engine'.mask = engine.mask
        /\ engine'.nmea = engine.nmea
        /\ engine'.interval = IF engine.up THEN Head(apiTasks).value ELSE engine.interval
    BY <1>0, <2>1, <2>2
  <2>. QED
    BY <2>1, <2>3, ModemSame
<1>. QED
  BY <1>1, <1>2, <1>3

\* The modem is opened for all that is asked for, and the adapter is to learn of it.
LEMMA ModemOpened == ASSUME ConfsFit, RegInv, R!handleEngineUpEvent  PROVE RegInv'
<1>. DEFINE up == R!msg("up", None)
<1>1. PICK kind \in {"openAdapter", "ssr"} :
        /\ R!takeApi(kind)
        /\ IF engine.up
           THEN engine' = [engine EXCEPT !.mask = mEvtMask] /\ tasks' = Append(tasks, up)
           ELSE UNCHANGED <<engine, tasks>>
  BY DEF R!handleEngineUpEvent
<1>2. /\ apiTasks' \in Seq(ApiTaskOf)
      /\ \A k : Holds(apiTasks, k) <=> kind = k \/ Holds(apiTasks', k)
      /\ \A k, V : LastIs(apiTasks, k, V) => LastIs(apiTasks', k, V)
      /\ \A n \in 1..Len(apiTasks') : apiTasks'[n].is = "nmea" =>
           apiTasks'[n].value \subseteq R!nmeaTypes \cup {"DEBUG"}
      /\ UNCHANGED <<conf, R!wiring, capable, R!masks, R!fixes, hub>>
  BY <1>1, ApiTaken
<1>. USE DEF R!wiring, R!masks, R!fixes
<1>3. /\ engine' \in [up : BOOLEAN, mask : SUBSET Event, nmea : SUBSET Nmea, interval : Interval \cup {None}]
      /\ engine'.up = engine.up /\ engine'.nmea = engine.nmea /\ engine'.interval = engine.interval
      /\ engine'.mask = IF engine.up THEN mEvtMask ELSE engine.mask
  BY <1>1 DEF RegInv, RegTypes
<1>4. tasks \in Seq(Task) /\ up \in Task /\ up.is = "up"
  BY DEF RegInv, RegTypes, Task, Registered, R!msg
<1>. HIDE DEF up
<1>5. /\ tasks' \in Seq(Task) /\ AddsAsk(tasks')
      /\ \A k : Holds(tasks', k) <=> Holds(tasks, k) \/ (engine.up /\ k = "up")
  <2>1. /\ <<up>> \in Seq(Task)
        /\ \A k : Holds(<<up>>, k) <=> up.is = k
    BY ONLY <1>4, Alone
  <2>2. AddsAsk(<<up>>)
    BY <1>4 DEF AddsAsk
  <2>3. engine.up => tasks' = tasks \o <<up>>
    <3>. HIDE DEF Task
    <3>. QED
      BY <1>1, <1>4
  <2>4. AddsAsk(tasks)
    BY DEF RegInv, ToldOrAsks
  <2>5. CASE engine.up
    <3>1. tasks' = tasks \o <<up>>
      BY <2>3, <2>5
    <3>2. /\ tasks' \in Seq(Task)
          /\ \A k : Holds(tasks', k) <=> Holds(tasks, k) \/ Holds(<<up>>, k)
      BY ONLY <1>4, <2>1, <3>1, Joined
    <3>3. AddsAsk(tasks) /\ AddsAsk(<<up>>) => AddsAsk(tasks')
      BY ONLY <1>4, <2>1, <3>1, AsksJoined
    <3>. QED
      BY <1>4, <2>1, <2>2, <2>4, <2>5, <3>2, <3>3
  <2>6. CASE ~engine.up
    BY <1>1, <1>4, <2>4, <2>6
  <2>. QED
    BY <2>5, <2>6
<1>6. /\ \A k : Holds(apiTasks, k)' <=> Holds(apiTasks', k)
      /\ \A k : Holds(tasks, k)' <=> Holds(tasks', k)
  BY DEF Holds
<1>7. ~Settled'
  BY <1>3, <1>5, <1>6 DEF Settled
<1>8. (R!nmeaTypes)' = R!nmeaTypes
  BY <1>2, <1>3 DEF R!nmeaTypes, R!bit, R!features
<1>9. RegTypes'
  BY <1>2, <1>3, <1>5 DEF RegInv, RegTypes
<1>10. HubOnce'
  <2>1. "SATELLITE" \in mEvtMask \cup engine'.mask => ~hub.firstTime
    BY <1>3 DEF RegInv, HubOnce
  <2>2. Holds(tasks', "rate") => hub.loaded
    BY <1>5 DEF RegInv, HubOnce
  <2>. QED
    BY <1>2, <1>6, <2>1, <2>2 DEF RegInv, HubOnce
<1>11. Masked'
  <2>1. R!clientsMask(mClientData)' = R!clientsMask(mClientData)
    BY <1>2 DEF R!clientsMask, R!someone, R!bit
  <2>2. engine'.up => engine'.mask = mEvtMask
    BY <1>3
  <2>. QED
    BY <1>2, <1>6, <2>1, <2>2 DEF RegInv, Masked, R!bit
<1>12. NmeaSet'
  <2>1. mNmeaMask \in {{}, R!nmeaTypes} /\ (~engine'.up => mNmeaMask = {} /\ ~Holds(tasks', "up"))
    BY <1>3, <1>5 DEF RegInv, NmeaSet
  <2>2. engine'.nmea \subseteq R!nmeaTypes \cup {"DEBUG"}
    BY <1>3 DEF RegInv, NmeaSet
  <2>. QED
    BY <1>2, <1>6, <1>7, <1>8, <2>1, <2>2 DEF NmeaSet
<1>13. ToldOrAsks'
  <2>1. AddsAsk(tasks)' <=> AddsAsk(tasks')
    BY DEF AddsAsk, AsksAfter
  <2>. QED
    BY <1>5, <1>7, <2>1 DEF ToldOrAsks
<1>14. RateSet'
  <2>1. Target' = Target
    BY <1>2 DEF Target
  <2>2. LastIs(apiTasks, "fix", {Target})' <=> LastIs(apiTasks', "fix", {Target})
    BY <2>1 DEF LastIs
  <2>3. LastIs(apiTasks', "fix", {Target})
    BY <1>2 DEF RegInv, RateSet
  <2>4. ~Holds(apiTasks', "fix") => engine.interval \in {Target, None}
    BY <1>2 DEF RegInv, RateSet
  <2>. QED
    BY <1>2, <1>3, <1>6, <1>7, <2>1, <2>2, <2>3, <2>4 DEF RegInv, RateSet
<1>. QED
  BY <1>9, <1>10, <1>11, <1>12, <1>13, <1>14 DEF RegInv

\* A modem that comes, the first time or again, knows of no registration.
LEMMA ModemLost == ASSUME ConfsFit, RegInv, R!handleEngineDownEvent  PROVE RegInv'
<1>. DEFINE ssr == R!msg("ssr", None)
<1>1. /\ engine' = [R!Down EXCEPT !.up = TRUE] /\ apiTasks' = Append(apiTasks, ssr)
      /\ UNCHANGED <<conf, R!wiring, capable, R!masks, R!fixes, hub, tasks>>
  BY DEF R!handleEngineDownEvent
<1>. USE DEF R!wiring, R!masks, R!fixes
<1>2. engine' = [up |-> TRUE, mask |-> {}, nmea |-> {}, interval |-> None]
  BY <1>1 DEF R!Down
<1>3. ssr \in ApiTaskOf /\ ssr.is = "ssr" /\ apiTasks \in Seq(ApiTaskOf)
  BY DEF RegInv, RegTypes, R!msg, ApiTaskOf
<1>. HIDE DEF ssr
<1>4. /\ <<ssr>> \in Seq(ApiTaskOf)
      /\ \A k : Holds(<<ssr>>, k) <=> ssr.is = k
      /\ \A k, V : LastIs(<<ssr>>, k, V) <=> (ssr.is = k => ssr.value \in V)
  BY ONLY <1>3, Alone
<1>5. apiTasks' = apiTasks \o <<ssr>>
  <2>. HIDE DEF ApiTaskOf
  <2>1. apiTasks' = Append(apiTasks, ssr) /\ ssr \in ApiTaskOf /\ apiTasks \in Seq(ApiTaskOf)
    BY ONLY <1>1, <1>3
  <2>. QED
    BY ONLY <2>1
<1>6. /\ apiTasks' \in Seq(ApiTaskOf)
      /\ \A k : Holds(apiTasks', k) <=> Holds(apiTasks, k) \/ Holds(<<ssr>>, k)
      /\ \A k, V : LastIs(<<ssr>>, k, V) /\ (Holds(<<ssr>>, k) \/ LastIs(apiTasks, k, V)) =>
           LastIs(apiTasks', k, V)
  BY ONLY <1>3, <1>4, <1>5, Joined
<1>7. /\ \A k : Holds(apiTasks, k)' <=> Holds(apiTasks', k)
      /\ \A k : Holds(tasks, k)' <=> Holds(tasks, k)
  BY <1>1 DEF Holds
<1>8. ~Settled' /\ Holds(apiTasks', "ssr")
  BY <1>3, <1>4, <1>6, <1>7 DEF Settled
<1>9. R!nmeaTypes \subseteq (R!nmeaTypes)' /\ (engine.up => (R!nmeaTypes)' = R!nmeaTypes)
  <2>1. conf' = conf /\ engine'.up
    BY <1>1, <1>2
  <2>2. (R!features)' = conf.features /\ R!features = IF engine.up THEN conf.features ELSE {}
    BY <2>1 DEF R!features
  <2>3. /\ R!bit("DEBUG_NMEA" \in R!features, "DEBUG") \subseteq R!bit("DEBUG_NMEA" \in conf.features, "DEBUG")
        /\ engine.up => R!bit("DEBUG_NMEA" \in R!features, "DEBUG") = R!bit("DEBUG_NMEA" \in conf.features, "DEBUG")
    BY <2>2 DEF R!bit
  <2>4. (R!nmeaTypes)' = R!bit(conf.general, "GENERAL") \cup R!bit("DEBUG_NMEA" \in conf.features, "DEBUG")
    BY <2>1, <2>2 DEF R!nmeaTypes, R!bit
  <2>5. R!nmeaTypes = R!bit(conf.general, "GENERAL") \cup R!bit("DEBUG_NMEA" \in R!features, "DEBUG")
    BY DEF R!nmeaTypes
  <2>. QED
    BY <2>3, <2>4, <2>5
<1>10. RegTypes'
  <2>1. engine' \in [up : BOOLEAN, mask : SUBSET Event, nmea : SUBSET Nmea, interval : Interval \cup {None}]
    BY <1>2
  <2>. QED
    BY <1>1, <1>6, <2>1 DEF RegInv, RegTypes
<1>11. HubOnce'
  BY <1>1, <1>2, <1>7 DEF RegInv, HubOnce
<1>12. Masked'
  <2>1. R!clientsMask(mClientData)' = R!clientsMask(mClientData)
    BY <1>1 DEF R!clientsMask, R!someone, R!bit
  <2>. QED
    BY <1>1, <1>7, <1>8, <2>1 DEF RegInv, Masked, R!bit
<1>13. NmeaSet'
  <2>1. mNmeaMask \in {{}, (R!nmeaTypes)'}
    BY <1>9 DEF RegInv, NmeaSet
  <2>2. \A n \in 1..Len(apiTasks') : apiTasks'[n].is = "nmea" =>
          apiTasks'[n].value \subseteq (R!nmeaTypes)' \cup {"DEBUG"}
    <3>1. /\ Len(apiTasks) \in Nat /\ Len(apiTasks') = Len(apiTasks) + 1
          /\ apiTasks'[Len(apiTasks) + 1] = ssr
          /\ \A n \in 1..Len(apiTasks) : apiTasks'[n] = apiTasks[n]
      <4>. HIDE DEF ApiTaskOf
      <4>. QED
        BY <1>1, <1>3
    <3>2. \A n \in 1..Len(apiTasks') : n \in 1..Len(apiTasks) \/ n = Len(apiTasks) + 1
      BY <3>1
    <3>3. \A n \in 1..Len(apiTasks) : apiTasks[n].is = "nmea" =>
            apiTasks[n].value \subseteq R!nmeaTypes \cup {"DEBUG"}
      BY DEF RegInv, NmeaSet
    <3>. QED
      BY <1>3, <1>9, <3>1, <3>2, <3>3
  <2>3. engine'.up /\ engine'.nmea = {}
    BY <1>2
  <2>. QED
    BY <1>1, <1>8, <2>1, <2>2, <2>3 DEF NmeaSet
<1>14. ToldOrAsks'
  <2>1. AddsAsk(tasks)' <=> AddsAsk(tasks)
    BY <1>1 DEF AddsAsk, AsksAfter
  <2>. QED
    BY <1>8, <2>1 DEF RegInv, ToldOrAsks
<1>15. RateSet'
  <2>1. Target' = Target
    BY <1>1 DEF Target
  <2>2. LastIs(apiTasks, "fix", {Target})' <=> LastIs(apiTasks', "fix", {Target})
    BY <2>1 DEF LastIs
  <2>3. LastIs(apiTasks', "fix", {Target})
    BY <1>3, <1>4, <1>6 DEF RegInv, RateSet
  <2>4. engine'.interval = None /\ engine'.up
    BY <1>2
  <2>. QED
    BY <1>1, <1>8, <2>1, <2>2, <2>3, <2>4 DEF RegInv, RateSet
<1>. QED
  BY <1>10, <1>11, <1>12, <1>13, <1>14, <1>15 DEF RegInv
------------------------------------------------------------------------------
(* Steps, and what follows.                                                *)

LEMMA RegNext == ASSUME ConfsFit, RegInv, R!Next  PROVE RegInv'
<1>1. \/ \/ \E c \in Client, callbacks \in Wish : R!createInstance(c, callbacks)
         \/ \E c \in Client : R!removeClient(c)
         \/ R!initOdcpiCommand
         \/ R!gnssUpdateConfigCommand({"MSB"})
         \/ \E interval \in {"slow", "fast"} : R!startTracking(interval)
         \/ R!stopTracking
         \/ \E map \in FeatureMaps : R!reportQwesCapabilities(map)
         \/ \E needed, measured \in BOOLEAN : R!updateNHzRequirement(needed, measured)
      \/ R!initAgps \/ R!MsgInitEngHubProxy \/ R!MsgAddClient \/ R!MsgRemoveClient
      \/ R!MsgRequestCapabilities \/ R!initOdcpi \/ R!suplMode \/ R!setQwesFeatureStatus
      \/ R!updateNHzRequirementCb \/ R!MsgStartTracking \/ R!MsgStopTracking
      \/ R!MsgHandleEngineUpEvent
      \/ (R!LocOpenMsg \/ R!LocSetNmeaMsg \/ R!startTimeBasedTracking)
      \/ R!handleEngineUpEvent \/ R!handleEngineDownEvent
  BY DEF R!Next
<1>. QED
  BY <1>1, Commands, AgpsStarts, HubLoads, ClientComes, ClientGoes, ClientAsks, OdcpiInitialized,
     ModeSet, FeaturesSet, RateNeeded, SessionStarts, SessionStops, EngineUpHandled, ModemTold,
     ModemOpened, ModemLost

LEMMA RegRests == ASSUME RegInv, UNCHANGED registrations  PROVE RegInv'
<1>. USE DEF registrations
<1>1. RegTypes'
  BY DEF RegInv, RegTypes
<1>2. (R!nmeaTypes)' = R!nmeaTypes
  BY DEF R!nmeaTypes, R!bit, R!features
<1>3. /\ Target' = Target /\ AtLeast' = AtLeast /\ (Settled' <=> Settled)
      /\ R!clientsMask(mClientData)' = R!clientsMask(mClientData)
  BY <1>2 DEF Target, AtLeast, Settled, Holds, R!clientsMask, R!someone, R!bit
<1>4. Current' = Current
  BY CurrentKept
<1>5. /\ \A k : Holds(tasks, k)' <=> Holds(tasks, k)
      /\ \A k : Holds(apiTasks, k)' <=> Holds(apiTasks, k)
      /\ LastIs(apiTasks, "nmea", AtLeast)' <=> LastIs(apiTasks, "nmea", AtLeast)
      /\ LastIs(apiTasks, "fix", {Target})' <=> LastIs(apiTasks, "fix", {Target})
      /\ AddsAsk(tasks)' <=> AddsAsk(tasks)
      /\ \A c : AsksAfter(tasks, 0, c)' <=> AsksAfter(tasks, 0, c)
  BY <1>3 DEF Holds, LastIs, AddsAsk, AsksAfter
<1>6. HubOnce' /\ Masked'
  BY <1>3, <1>5 DEF RegInv, HubOnce, Masked, R!bit
<1>7. NmeaSet' /\ RateSet'
  BY <1>2, <1>3, <1>5 DEF RegInv, NmeaSet, RateSet
<1>8. ToldOrAsks'
  BY <1>3, <1>4, <1>5 DEF RegInv, ToldOrAsks
<1>. QED
  BY <1>1, <1>6, <1>7, <1>8 DEF RegInv

LEMMA RegFollow == ASSUME ConfsFit, RegInv  PROVE R!RegistrationsFollow
<1>1. ASSUME R!atRest
      PROVE  /\ \A k : ~Holds(tasks, k) /\ ~Holds(apiTasks, k)
             /\ Settled /\ \A c : ~AsksAfter(tasks, 0, c)
  <2>1. tasks = <<>> /\ apiTasks = <<>> /\ engine.up
    BY <1>1 DEF R!atRest
  <2>2. \A k : ~Holds(<<>>, k)
    BY Alone
  <2>3. Len(<<>>) = 0
    OBVIOUS
  <2>. QED
    BY <2>1, <2>2, <2>3 DEF Settled, AsksAfter
<1>2. R!MaskIsUnion
  <2> SUFFICES ASSUME R!atRest
               PROVE  /\ engine.mask \ {"NHZ_MEASUREMENT"} =
                           R!clientsMask(mClientData)
                             \cup (IF hub.loaded /\ changed THEN {"GNSS_MEASUREMENT", "EPHEMERIS"} ELSE {})
                             \cup R!bit(registered, "LOCATION_SERVER") \cup R!bit(odcpi, "WIFI")
                      /\ ~repeated => ("NHZ_MEASUREMENT" \in engine.mask <=> wanted)
    BY DEF R!MaskIsUnion
  <2>1. engine.mask = mEvtMask
    BY <1>1 DEF RegInv, Masked, R!atRest
  <2>. QED
    BY <2>1 DEF RegInv, Masked
<1>3. R!NmeaFollows
  BY <1>1 DEF R!NmeaFollows, RegInv, NmeaSet, AtLeast
<1>4. R!ToldIsCurrent
  BY <1>1 DEF R!ToldIsCurrent, RegInv, ToldOrAsks, Current
<1>5. R!RateFollows
  BY <1>1 DEF R!RateFollows, RegInv, RateSet, Target
<1>6. R!OneHub
  BY DEF R!OneHub, RegInv, HubOnce
<1>. QED
  BY <1>2, <1>3, <1>4, <1>5, <1>6 DEF R!RegistrationsFollow

\* Once its tasks are idle the modem reports to the adapters that have clients; and what it
\* reports, the sentences and the interval of the fixes are what clients, configuration,
\* open interfaces, hub and session ask for, the clients were told what is so, and one hub
\* is made: however commands, reports, the messages postponed and the restarts of the modem
\* interleave (LocAdapterBase.cpp, LocApiBase.cpp, GnssAdapter.cpp).  For any clients,
\* callbacks, reports of features and configurations whose switches are on or off.
THEOREM MasksAreFollowed ==
  ASSUME ConfsFit  PROVE MCSpec => []MasksFollow
<1>. DEFINE Inv == IInv /\ SessionTypes /\ InLoaded /\ RegInv
<1>1. MCInit => Inv
  <2>1. Init => SessionTypes
    BY DEF Init, SessionTypes
  <2>. QED
    BY <2>1, InitHolds, LoadedHolds, RegInit DEF MCInit
<1>2. Inv /\ [MCNext]_<<part, lives, registrations>> => Inv'
  <2> SUFFICES ASSUME Inv, [MCNext]_<<part, lives, registrations>>  PROVE Inv'
    OBVIOUS
  <2>1. [Next]_vars
    BY DEF MCNext, lives, vars, sessionVars
  <2>2. R!Next \/ UNCHANGED registrations
    BY DEF MCNext
  <2>. QED
    BY <2>1, <2>2, NextHolds, SessionTypesHold, LoadedHolds, RegNext, RegRests
<1>3. Inv => MasksFollow
  <2> SUFFICES ASSUME Inv  PROVE MasksFollow
    OBVIOUS
  <2>1. MaskFollows
    BY DEF InLoaded, MaskFollows
  <2>. QED
    BY <2>1, RegFollow DEF MasksFollow
<1>. QED
  BY <1>1, <1>2, <1>3, PTL DEF MCSpec
==============================================================================
