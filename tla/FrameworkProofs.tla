---------------------------- MODULE FrameworkProofs ----------------------------
(***************************************************************************)
(* What holds of the tracking and of the batching session of the           *)
(* framework and of the reports it hears, for any constants: the           *)
(* invariants of the parts that Services_MC puts side by side.             *)
(***************************************************************************)
EXTENDS Services_MC, TLAPS
------------------------------------------------------------------------------
(* The tracking session.  The requests that wait for their answers are as  *)
(* many as the calls of the session on their way, in the mail of the       *)
(* adapter or behind the engine (Matched); a session that runs is the last *)
(* one and wanted, or its stop is on its way (Stopped); a wanted one runs, *)
(* or its start is on its way or failed (Started); the last change on its  *)
(* way, or the session, has the options set last (Options); and while      *)
(* answers have kept to their requests, what the framework was told is     *)
(* true but for the starts and stops that are due (Told).                  *)

\* The calls, and the requests that wait for their answers.
CallKind == {"start", "update", "stop"}
Asking == [fn : CallKind, session : G!Session]
Call == [fn : CallKind, session : G!Session, option : Option \cup {None}]

\* Sessions are numbered, and None stands for no options.
SessionsBounded == MaxSessions \in Nat /\ None \notin Option

TrackTypes ==
  /\ {obituary, started, mTracking, status, shifted, dropped, revived, lateDeath} \subseteq BOOLEAN
  /\ mTrackingOptions \in Option /\ session \in 0..MaxSessions
  /\ live \in [G!Session -> Option \cup {None}]
  /\ queue \in Seq(Asking) /\ calls \in Seq(Call) /\ engine \in Seq(Call)

\* A call of the session, in the mail of the adapter or behind the engine, and a
\* request that waits for its answer.
Is(x, fn) == x.fn = fn /\ x.session = session
Called(fn) == \E i \in 1..Len(calls) : Is(calls[i], fn)
Asked(fn) == \E i \in 1..Len(engine) : Is(engine[i], fn)
Due(fn) == \E i \in 1..Len(queue) : queue[i].fn = fn
Runs == session \in G!running

\* No call, answer or running session is of a session to come.
Messages ==
  /\ \A i \in 1..Len(calls) :
       calls[i].session <= session /\ (calls[i].fn # "stop" => calls[i].option \in Option)
  /\ \A i \in 1..Len(engine) :
       engine[i].session <= session /\ (engine[i].fn = "update" => engine[i].option \in Option)
  /\ \A s \in G!running : s <= session

\* The client tracks what the framework wants, or is to be told of its death.
Wanted ==
  /\ mTracking => session > 0 /\ (started \/ obituary)
  /\ started /\ ~lateDeath => mTracking

\* The calls after the a-th and those behind the engine after the b-th are of the
\* session, the others of earlier ones; each of the session has a request.
Split(a, b) ==
  /\ a \in 0..Len(calls) /\ b \in 0..Len(engine)
  /\ \A i \in 1..Len(calls) : calls[i].session = session <=> i > a
  /\ \A i \in 1..Len(engine) : engine[i].session = session <=> i > b
  /\ a > 0 => b = Len(engine)
  /\ Len(queue) = (Len(calls) - a) + (Len(engine) - b)
Matched == \E a, b \in Nat : Split(a, b)

\* The start of the session comes before its other calls.
StartFirst ==
  /\ \A i \in 1..Len(calls) : Is(calls[i], "start") =>
       /\ \A j \in 1..Len(calls) : j < i => calls[j].session # session
       /\ \A j \in 1..Len(engine) : engine[j].session # session
  /\ \A i, j \in 1..Len(engine) : Is(engine[i], "start") /\ Is(engine[j], "start") => i = j

\* What runs, or is to be started, is the wanted session or its stop follows.
Stopped ==
  /\ \A i \in 1..Len(calls) : calls[i].fn = "start" =>
       \/ calls[i].session = session /\ mTracking
       \/ \E j \in 1..Len(calls) :
            i < j /\ calls[j].fn = "stop" /\ calls[j].session = calls[i].session
  /\ ~revived => \A s \in G!running :
       \/ s = session /\ mTracking
       \/ \E j \in 1..Len(calls) : calls[j].fn = "stop" /\ calls[j].session = s

\* A wanted session runs or is to be started, unless that failed.
Started ==
  /\ mTracking => ~Called("stop")
  /\ mTracking /\ "start" \notin failed => Runs \/ Called("start")

\* The last change on its way has the options set last, or the session has.
Changes(x) == x.session = session /\ x.fn # "stop"
Options ==
  /\ \A i \in 1..Len(calls) :
       Changes(calls[i]) /\ (\A j \in 1..Len(calls) : i < j => ~Changes(calls[j])) =>
         calls[i].option = mTrackingOptions
  /\ Runs /\ failed = {} /\ (\A i \in 1..Len(calls) : ~Changes(calls[i])) =>
       live[session] = mTrackingOptions

\* While each answer went to its own request: a start on its way is the oldest
\* request; a stop on its way is due to be told; the status is true when neither
\* is due, and not yet set when a start is on its way.
Told == ~shifted /\ ~revived =>
  /\ Called("start") \/ Asked("start") => queue # <<>> /\ queue[1].fn = "start"
  /\ (Runs \/ Called("start")) /\ Called("stop") => Due("stop")
  /\ Asked("start") /\ ~Runs => Due("stop")
  /\ Asked("stop") => ~Runs
  /\ ~dropped => /\ Called("start") \/ Asked("start") => ~status
                 /\ ~Due("start") /\ ~Due("stop") => (status <=> Runs)
TrackInv ==
  TrackTypes /\ Messages /\ Wanted /\ Matched /\ StartFirst /\ Stopped /\ Started /\ Options /\ Told

------------------------------------------------------------------------------
(* Queues.                                                                 *)

LEMMA Pushed ==
  ASSUME NEW T, NEW q \in Seq(T), NEW x \in T
  PROVE  LET p == Append(q, x)
         IN /\ p \in Seq(T) /\ Len(q) \in Nat /\ Len(p) = Len(q) + 1
            /\ \A i \in 1..Len(q) : p[i] = q[i]
            /\ p[Len(q) + 1] = x
  OBVIOUS

LEMMA Popped ==
  ASSUME NEW T, NEW q \in Seq(T), q # <<>>
  PROVE  /\ Tail(q) \in Seq(T) /\ Len(q) \in Nat /\ Len(q) >= 1 /\ Len(Tail(q)) = Len(q) - 1
         /\ \A i \in 1..(Len(q) - 1) : Tail(q)[i] = q[i + 1]
         /\ Head(q) = q[1] /\ q[1] \in T
  OBVIOUS

LEMMA TrackInit == ASSUME SessionsBounded  PROVE G!Init => TrackInv
<1>. SUFFICES ASSUME G!Init  PROVE TrackInv
  OBVIOUS
<1>. USE DEF G!Init
<1>1. /\ calls = <<>> /\ engine = <<>> /\ queue = <<>>
      /\ Len(calls) = 0 /\ Len(engine) = 0 /\ Len(queue) = 0
      /\ calls \in Seq(Call) /\ engine \in Seq(Call) /\ queue \in Seq(Asking)
  OBVIOUS
<1>2. G!running = {} /\ live \in [G!Session -> Option \cup {None}]
  BY DEF G!running
<1>3. TrackTypes
  <2>1. session \in 0..MaxSessions
    BY DEF SessionsBounded
  <2>. QED
    BY Zenon, <1>1, <1>2, <2>1 DEF TrackTypes
<1>4. Matched
  <2>1. Split(0, 0)
    BY <1>1 DEF Split
  <2>. QED
    BY <2>1 DEF Matched
<1>5. Messages /\ Wanted /\ StartFirst
  BY <1>1, <1>2 DEF Messages, Wanted, StartFirst
<1>7. Stopped
  BY <1>1, <1>2 DEF Stopped
<1>6. ~Runs /\ \A fn : ~Called(fn) /\ ~Asked(fn)
  BY <1>1, <1>2 DEF Called, Asked, Runs
<1>8. Started /\ Options
  BY <1>1, <1>6 DEF Started, Options
<1>9. Told
  BY <1>1, <1>6 DEF Told
<1>. QED
  BY <1>3, <1>4, <1>5, <1>7, <1>8, <1>9 DEF TrackInv

\* What depends on the messages and the requests only.
LEMMA NothingSent ==
  ASSUME TrackInv, UNCHANGED <<session, queue, calls, engine, live>>
  PROVE  /\ Messages' /\ Matched' /\ StartFirst'
         /\ (mTracking' = mTracking) /\ (revived' = revived) => Stopped'
         /\ (mTrackingOptions' = mTrackingOptions) /\ (failed' = failed) => Options'
         /\ (mTracking' = mTracking) /\ (failed' = failed) => Started'
         /\ (UNCHANGED <<status, shifted, revived, dropped>>) => Told'
<1>1. Messages' /\ StartFirst'
  BY DEF TrackInv, Messages, StartFirst, Is, G!running
<1>2. Matched'
  <2>1. PICK a \in Nat, b \in Nat : Split(a, b)
    BY DEF TrackInv, Matched
  <2>2. Split(a, b)'
    BY <2>1 DEF Split
  <2>. QED
    BY <2>2 DEF Matched
<1>3. (mTracking' = mTracking) /\ (revived' = revived) => Stopped'
  BY DEF TrackInv, Stopped, G!running
<1>4. (mTrackingOptions' = mTrackingOptions) /\ (failed' = failed) => Options'
  BY DEF TrackInv, Options, Changes, Runs, G!running
<1>5. (mTracking' = mTracking) /\ (failed' = failed) => Started'
  BY DEF TrackInv, Started, Called, Is, Runs, G!running
<1>6. UNCHANGED <<status, shifted, revived, dropped>> => Told'
  BY DEF TrackInv, Told, Called, Asked, Due, Is, Runs, G!running
<1>. QED
  BY <1>1, <1>2, <1>3, <1>4, <1>5, <1>6
------------------------------------------------------------------------------
(* What the messages do to the requests of the session.                    *)

\* A call of the session, with its request.
LEMMA CallAdded ==
  ASSUME TrackInv, NEW m \in Call, NEW r \in Asking, m.session = session, m.fn # "start",
         m.fn # "stop" => m.option \in Option,
         calls' = Append(calls, m), queue' = Append(queue, r),
         UNCHANGED <<session, engine, live>>
  PROVE  Messages' /\ Matched' /\ StartFirst'
<1>1. /\ Len(calls) \in Nat /\ Len(calls') = Len(calls) + 1 /\ Len(engine) \in Nat
      /\ \A i \in 1..Len(calls) : calls'[i] = calls[i]
      /\ calls'[Len(calls) + 1] = m
  BY Pushed DEF TrackInv, TrackTypes
<1>2. Len(queue') = Len(queue) + 1 /\ Len(queue) \in Nat
  BY DEF TrackInv, TrackTypes
<1>3. Messages'
  <2>1. G!running' = G!running
    BY DEF G!running
  <2>2. session \in Nat
    BY DEF TrackInv, TrackTypes
  <2>. QED
    BY <1>1, <2>1, <2>2 DEF TrackInv, Messages
<1>4. Matched'
  <2>1. PICK a \in Nat, b \in Nat : Split(a, b)
    BY DEF TrackInv, Matched
  <2>2. \A i \in 1..Len(calls') : calls'[i].session = session <=> i > a
    BY <1>1, <2>1 DEF Split
  <2>3. a \in 0..Len(calls') /\ Len(queue') = (Len(calls') - a) + (Len(engine') - b)
    BY <1>1, <1>2, <2>1 DEF Split
  <2>4. Split(a, b)'
    BY <2>1, <2>2, <2>3 DEF Split
  <2>. QED
    BY <2>4 DEF Matched
<1>5. StartFirst'
  BY <1>1 DEF TrackInv, StartFirst, Is
<1>. QED
  BY <1>3, <1>4, <1>5

\* A call is taken by the task; the engine is asked.
LEMMA CallAsked ==
  ASSUME TrackInv, NEW m \in Call, calls # <<>>, calls' = Tail(calls),
         m.fn = Head(calls).fn, m.session = Head(calls).session,
         m.fn = "update" => m.option \in Option,
         engine' = Append(engine, m), UNCHANGED <<session, queue>>,
         \A s \in G!running' : s \in G!running \/ s = m.session
  PROVE  Messages' /\ Matched' /\ StartFirst'
<1>1. /\ Len(engine) \in Nat /\ Len(engine') = Len(engine) + 1
      /\ \A i \in 1..Len(engine) : engine'[i] = engine[i]
      /\ engine'[Len(engine) + 1] = m
  BY Pushed DEF TrackInv, TrackTypes
<1>2. /\ Len(calls) \in Nat /\ Len(calls) >= 1 /\ Len(calls') = Len(calls) - 1
      /\ \A i \in 1..Len(calls') : calls'[i] = calls[i + 1]
      /\ m.fn = calls[1].fn /\ m.session = calls[1].session
  BY Popped DEF TrackInv, TrackTypes
<1>3. Len(queue) \in Nat
  BY DEF TrackInv, TrackTypes
<1>4. Messages'
  BY <1>1, <1>2 DEF TrackInv, Messages
<1>5. Matched'
  <2>1. PICK a \in Nat, b \in Nat : Split(a, b)
    BY DEF TrackInv, Matched
  <2>2. CASE a > 0
    <3>1. Split(a - 1, b + 1)'
      BY <1>1, <1>2, <1>3, <2>1, <2>2 DEF Split
    <3>2. a - 1 \in Nat /\ b + 1 \in Nat
      BY <2>2
    <3>. QED
      BY <3>1, <3>2 DEF Matched
  <2>3. CASE a = 0
    <3>1. Split(0, b)'
      BY <1>1, <1>2, <1>3, <2>1, <2>3 DEF Split
    <3>. QED
      BY <3>1 DEF Matched
  <2>. QED
    BY <2>2, <2>3
<1>6. StartFirst'
  <2>1. \A i \in 1..Len(calls') : i + 1 \in 1..Len(calls) /\ calls'[i] = calls[i + 1]
    BY <1>2
  <2>2. \A i \in 1..Len(engine') : i \in 1..Len(engine) \/ i = Len(engine) + 1
    BY <1>1
  <2>3. 1 \in 1..Len(calls)
    BY <1>2
  <2>4. ASSUME NEW i \in 1..Len(calls'), Is(calls'[i], "start")
        PROVE  /\ \A j \in 1..Len(calls') : j < i => calls'[j].session # session
               /\ \A j \in 1..Len(engine') : engine'[j].session # session
    <3>1. Is(calls[i + 1], "start") /\ i + 1 \in 1..Len(calls) /\ 1 < i + 1
      BY <2>1, <2>4
    <3>2. /\ \A j \in 1..Len(calls) : j < i + 1 => calls[j].session # session
          /\ \A j \in 1..Len(engine) : engine[j].session # session
      BY <3>1 DEF TrackInv, StartFirst
    <3>. QED
      BY <1>1, <1>2, <2>1, <2>2, <2>3, <3>1, <3>2
  <2>5. ASSUME NEW i \in 1..Len(engine'), NEW j \in 1..Len(engine'),
               Is(engine'[i], "start"), Is(engine'[j], "start")
        PROVE  i = j
    <3>1. Is(m, "start") => \A k \in 1..Len(engine) : engine[k].session # session
      BY <1>2, <2>3 DEF TrackInv, StartFirst, Is
    <3>. QED
      BY <1>1, <2>2, <2>5, <3>1 DEF TrackInv, StartFirst, Is
  <2>. QED
    BY <2>4, <2>5 DEF StartFirst, Is
<1>. QED
  BY <1>4, <1>5, <1>6

\* The request of an answer of the session is there.
LEMMA Requested ==
  ASSUME TrackInv,
         \/ calls # <<>> /\ calls[1].session = session
         \/ engine # <<>> /\ engine[1].session = session
  PROVE  queue # <<>>
<1>1. Len(calls) \in Nat /\ Len(engine) \in Nat /\ (calls # <<>> => Len(calls) >= 1)
      /\ (engine # <<>> => Len(engine) >= 1)
  BY Popped DEF TrackInv, TrackTypes
<1>2. PICK a \in Nat, b \in Nat : Split(a, b)
  BY DEF TrackInv, Matched
<1>3. Len(queue) > 0
  BY <1>1, <1>2 DEF Split
<1>. QED
  BY <1>3 DEF TrackInv, TrackTypes

\* A call is taken by the task and answered at once.
LEMMA CallAnswered ==
  ASSUME TrackInv, calls # <<>>, calls' = Tail(calls), UNCHANGED <<session, engine>>,
         queue' = IF calls[1].session # session \/ queue = <<>> THEN queue ELSE Tail(queue),
         \A s \in G!running' : s \in G!running \/ s = calls[1].session
  PROVE  Messages' /\ Matched' /\ StartFirst'
<1>1. /\ Len(calls) \in Nat /\ Len(calls) >= 1 /\ Len(calls') = Len(calls) - 1
      /\ \A i \in 1..Len(calls') : calls'[i] = calls[i + 1]
  BY Popped DEF TrackInv, TrackTypes
<1>2. Len(queue) \in Nat /\ Len(engine) \in Nat
      /\ (queue # <<>> => Len(queue) >= 1 /\ Len(Tail(queue)) = Len(queue) - 1)
  BY Popped DEF TrackInv, TrackTypes
<1>3. calls[1].session = session => queue # <<>>
  BY Requested
<1>4. Messages'
  BY <1>1 DEF TrackInv, Messages
<1>5. Matched'
  <2>1. PICK a \in Nat, b \in Nat : Split(a, b)
    BY DEF TrackInv, Matched
  <2>2. CASE a > 0
    <3>1. Split(a - 1, b)'
      BY <1>1, <1>2, <2>1, <2>2 DEF Split
    <3>2. a - 1 \in Nat
      BY <2>2
    <3>. QED
      BY <3>1, <3>2 DEF Matched
  <2>3. CASE a = 0
    <3>1. Split(0, b)'
      BY <1>1, <1>2, <1>3, <2>1, <2>3 DEF Split
    <3>. QED
      BY <3>1 DEF Matched
  <2>. QED
    BY <2>2, <2>3
<1>6. StartFirst'
  BY <1>1 DEF TrackInv, StartFirst, Is
<1>. QED
  BY <1>4, <1>5, <1>6

LEMMA AnswerOfBefore ==
  ASSUME NEW a \in Nat, NEW b \in Nat, Split(a, b), b > 0,
         Len(calls) \in Nat, Len(engine) \in Nat, Len(engine') = Len(engine) - 1,
         \A i \in 1..Len(engine') : engine'[i] = engine[i + 1],
         UNCHANGED <<session, calls, queue>>
  PROVE  Split(a, b - 1)'
<1>1. b - 1 \in 0..Len(engine') /\ (a > 0 => b - 1 = Len(engine'))
  BY DEF Split
<1>2. \A i \in 1..Len(engine') : engine'[i].session = session <=> i > b - 1
  <2>1. \A i \in 1..Len(engine') : i + 1 \in 1..Len(engine) /\ (i > b - 1 <=> i + 1 > b)
    OBVIOUS
  <2>. QED
    BY <2>1 DEF Split
<1>3. Len(queue) = (Len(calls) - a) + (Len(engine') - (b - 1))
  BY DEF Split
<1>. QED
  BY <1>1, <1>2, <1>3 DEF Split

\* The engine answers.
LEMMA EngineAnswered ==
  ASSUME TrackInv, engine # <<>>, engine' = Tail(engine), UNCHANGED <<session, calls>>,
         queue' = IF engine[1].session # session \/ queue = <<>> THEN queue ELSE Tail(queue),
         \A s \in G!running' : s \in G!running \/ s = engine[1].session
  PROVE  Messages' /\ Matched' /\ StartFirst'
<1>1. /\ Len(engine) \in Nat /\ Len(engine) >= 1 /\ Len(engine') = Len(engine) - 1
      /\ \A i \in 1..Len(engine') : engine'[i] = engine[i + 1]
  BY Popped DEF TrackInv, TrackTypes
<1>2. Len(queue) \in Nat /\ Len(calls) \in Nat
      /\ (queue # <<>> => Len(queue) >= 1 /\ Len(Tail(queue)) = Len(queue) - 1)
  BY Popped DEF TrackInv, TrackTypes
<1>3. engine[1].session = session => queue # <<>>
  BY Requested
<1>4. Messages'
  BY <1>1 DEF TrackInv, Messages
<1>5. Matched'
  <2>1. PICK a \in Nat, b \in Nat : Split(a, b)
    BY DEF TrackInv, Matched
  <2>2. CASE b > 0
    <3>0. \A i \in 1..Len(engine) : engine[i].session = session <=> i > b
      BY <2>1 DEF Split
    <3>1. engine[1].session # session /\ queue' = queue
      BY <1>1, <2>2, <3>0
    <3>5. Split(a, b - 1)'
      BY <1>1, <1>2, <2>1, <2>2, <3>1, AnswerOfBefore
    <3>2. b - 1 \in Nat
      BY <2>2
    <3>. QED
      BY <3>2, <3>5 DEF Matched
  <2>3. CASE b = 0
    <3>1. Split(a, 0)'
      BY <1>1, <1>2, <1>3, <2>1, <2>3 DEF Split
    <3>. QED
      BY <3>1 DEF Matched
  <2>. QED
    BY <2>2, <2>3
<1>6. StartFirst'
  BY <1>1 DEF TrackInv, StartFirst, Is
<1>. QED
  BY <1>4, <1>5, <1>6
------------------------------------------------------------------------------
(* The framework.                                                          *)

LEMMA CallbackSet == ASSUME TrackInv, G!setCallback  PROVE TrackInv'
<1>. USE DEF G!setCallback, G!client, G!clientHistory
<1>1. TrackTypes' /\ Wanted'
  BY DEF TrackInv, TrackTypes, Wanted
<1>2. Messages' /\ Matched' /\ StartFirst' /\ Stopped' /\ Started' /\ Options' /\ Told'
  BY NothingSent
<1>. QED
  BY <1>1, <1>2 DEF TrackInv

LEMMA FrameworkGone == ASSUME TrackInv, G!frameworkDies  PROVE TrackInv'
<1>. USE DEF G!frameworkDies, G!client, G!clientHistory
<1>1. TrackTypes' /\ Wanted'
  BY Zenon DEF TrackInv, TrackTypes, Wanted
<1>2. Messages' /\ Matched' /\ StartFirst' /\ Stopped' /\ Started' /\ Options' /\ Told'
  BY NothingSent
<1>. QED
  BY <1>1, <1>2 DEF TrackInv

\* A stop of the session, by the framework or upon its death.
LEMMA StopsTracking ==
  ASSUME SessionsBounded, TrackInv, G!stopTracking, session > 0,
         UNCHANGED <<mTrackingOptions, session, engine, live, status, failed, shifted, dropped,
                     revived>>
  PROVE  /\ ~mTracking' /\ queue' \in Seq(Asking) /\ calls' \in Seq(Call)
         /\ Messages' /\ Matched' /\ StartFirst' /\ Stopped' /\ Options' /\ Told'
<1>. DEFINE m == [fn |-> "stop", session |-> session, option |-> None]
            r == [fn |-> "stop", session |-> session]
<1>1. /\ calls' = Append(calls, m) /\ queue' = Append(queue, r) /\ ~mTracking'
  BY DEF G!stopTracking, G!call
<1>2. m \in Call /\ r \in Asking /\ m.session = session /\ m.fn = "stop" /\ r.fn = "stop"
  BY DEF TrackInv, TrackTypes, Call, Asking, CallKind, G!Session, SessionsBounded
<1>. HIDE DEF m, r
<1>3. Messages' /\ Matched' /\ StartFirst'
  BY <1>1, <1>2, CallAdded
<1>4. /\ calls' \in Seq(Call) /\ Len(calls) \in Nat /\ Len(calls') = Len(calls) + 1
      /\ \A i \in 1..Len(calls) : calls'[i] = calls[i]
      /\ calls'[Len(calls) + 1] = m
  BY <1>1, <1>2, Pushed DEF TrackInv, TrackTypes
<1>5. /\ queue' \in Seq(Asking) /\ Len(queue) \in Nat /\ Len(queue') = Len(queue) + 1
      /\ \A i \in 1..Len(queue) : queue'[i] = queue[i]
      /\ queue'[Len(queue) + 1] = r
  BY <1>1, <1>2, Pushed DEF TrackInv, TrackTypes
<1>6. Runs' = Runs /\ G!running' = G!running
  BY DEF Runs, G!running
<1>7. Stopped'
  <2>1. ASSUME NEW i \in 1..Len(calls'), calls'[i].fn = "start"
        PROVE \E j \in 1..Len(calls') :
                i < j /\ calls'[j].fn = "stop" /\ calls'[j].session = calls'[i].session
    <3>1. i \in 1..Len(calls) /\ calls[i].fn = "start"
      BY <1>2, <1>4, <2>1
    <3>2. CASE calls[i].session = session
      BY <1>2, <1>4, <3>1, <3>2
    <3>3. CASE calls[i].session # session
      <4>1. PICK j \in 1..Len(calls) : i < j /\ calls[j].fn = "stop" /\ calls[j].session = calls[i].session
        BY <3>1, <3>3 DEF TrackInv, Stopped
      <4>. QED
        BY <1>4, <3>1, <4>1
    <3>. QED
      BY <3>2, <3>3
  <2>2. ASSUME ~revived, NEW s \in G!running
        PROVE \E j \in 1..Len(calls') : calls'[j].fn = "stop" /\ calls'[j].session = s
    <3>1. CASE s = session
      BY <1>2, <1>4, <3>1
    <3>2. CASE s # session
      <4>1. PICK j \in 1..Len(calls) : calls[j].fn = "stop" /\ calls[j].session = s
        BY <2>2, <3>2 DEF TrackInv, Stopped
      <4>. QED
        BY <1>4, <4>1
    <3>. QED
      BY <3>1, <3>2
  <2>. QED
    BY <1>6, <2>1, <2>2 DEF Stopped
<1>8. Options'
  <2>1. ASSUME NEW i \in 1..Len(calls'), calls'[i].session = session, calls'[i].fn # "stop",
               \A j \in 1..Len(calls') :
                 i < j => ~(calls'[j].session = session /\ calls'[j].fn # "stop")
        PROVE  calls'[i].option = mTrackingOptions
    <3>1. i \in 1..Len(calls) /\ calls'[i] = calls[i]
      BY <1>2, <1>4, <2>1
    <3>2. \A j \in 1..Len(calls) : i < j => ~Changes(calls[j])
      BY <1>4, <2>1 DEF Changes
    <3>. QED
      BY <2>1, <3>1, <3>2 DEF TrackInv, Options, Changes
  <2>2. (\A i \in 1..Len(calls') : ~(calls'[i].session = session /\ calls'[i].fn # "stop")) =>
          \A i \in 1..Len(calls) : ~Changes(calls[i])
    BY <1>4 DEF Changes
  <2>. QED
    BY <1>6, <2>1, <2>2 DEF TrackInv, Options, Changes
<1>9. Told'
  <2>1. (Called("start")' => Called("start")) /\ Due("stop")'
    BY <1>2, <1>4, <1>5 DEF Called, Is, Due
  <2>2. Asked("start")' = Asked("start") /\ Asked("stop")' = Asked("stop")
    BY DEF Asked, Is
  <2>3. queue' # <<>> /\ (queue # <<>> => queue'[1] = queue[1]) /\ (queue = <<>> => queue'[1] = r)
    BY <1>5
  <2>. QED
    BY <1>2, <1>6, <2>1, <2>2, <2>3 DEF TrackInv, Told
<1>. QED
  BY <1>1, <1>3, <1>4, <1>5, <1>7, <1>8, <1>9

LEMMA TrackStops == ASSUME SessionsBounded, TrackInv, G!stop  PROVE TrackInv'
<1>. USE DEF G!stop, G!clientHistory
<1>1. CASE session > 0
  <2>1. /\ ~mTracking' /\ queue' \in Seq(Asking) /\ calls' \in Seq(Call)
        /\ Messages' /\ Matched' /\ StartFirst' /\ Stopped' /\ Options' /\ Told'
    BY <1>1, StopsTracking
  <2>2. mTracking' = FALSE
    BY <1>1 DEF G!stopTracking
  <2>3. TrackTypes' /\ Wanted' /\ Started'
    BY Zenon, <2>1, <2>2 DEF TrackInv, TrackTypes, Wanted, Started
  <2>. QED
    BY <2>1, <2>3 DEF TrackInv
<1>2. CASE ~(session > 0)
  <2>. USE DEF G!stopTracking
  <2>1. TrackTypes' /\ Wanted'
    BY Zenon, <1>2 DEF TrackInv, TrackTypes, Wanted
  <2>2. Messages' /\ Matched' /\ StartFirst' /\ Stopped' /\ Started' /\ Options' /\ Told'
    BY <1>2, NothingSent
  <2>. QED
    BY <2>1, <2>2 DEF TrackInv
<1>. QED
  BY <1>1, <1>2

LEMMA FrameworkMissed == ASSUME SessionsBounded, TrackInv, G!serviceDied  PROVE TrackInv'
<1>. USE DEF G!serviceDied
<1>1. CASE session > 0
  <2>1. /\ ~mTracking' /\ queue' \in Seq(Asking) /\ calls' \in Seq(Call)
        /\ Messages' /\ Matched' /\ StartFirst' /\ Stopped' /\ Options' /\ Told'
    BY <1>1, StopsTracking
  <2>2. mTracking' = FALSE
    BY <1>1 DEF G!stopTracking
  <2>3. TrackTypes' /\ Wanted' /\ Started'
    BY Zenon, <2>1, <2>2 DEF TrackInv, TrackTypes, Wanted, Started
  <2>. QED
    BY <2>1, <2>3 DEF TrackInv
<1>2. CASE ~(session > 0)
  <2>. USE DEF G!stopTracking
  <2>1. TrackTypes' /\ Wanted'
    BY Zenon, <1>2 DEF TrackInv, TrackTypes, Wanted
  <2>2. Messages' /\ Matched' /\ StartFirst' /\ Stopped' /\ Started' /\ Options' /\ Told'
    BY <1>2, NothingSent
  <2>. QED
    BY <2>1, <2>2 DEF TrackInv
<1>. QED
  BY <1>1, <1>2

LEMMA ModeSet ==
  ASSUME SessionsBounded, TrackInv, NEW option \in Option, G!setPositionMode(option)
  PROVE TrackInv'
<1>. DEFINE m == [fn |-> "update", session |-> session, option |-> option]
            r == [fn |-> "update", session |-> session]
<1>1. /\ mTrackingOptions' = option
      /\ UNCHANGED <<started, obituary, mTracking, session, engine, live, status, G!clientHistory>>
  BY DEF G!setPositionMode
<1>2. CASE session > 0
  <2>1. calls' = Append(calls, m) /\ queue' = Append(queue, r)
    BY <1>2 DEF G!setPositionMode, G!call
  <2>2. /\ m \in Call /\ r \in Asking /\ m.session = session /\ m.fn = "update"
        /\ m.option = option /\ r.fn = "update"
    BY <1>2 DEF TrackInv, TrackTypes, Call, Asking, CallKind, G!Session, SessionsBounded
  <2>. HIDE DEF m, r
  <2>3. Messages' /\ Matched' /\ StartFirst'
    BY <1>1, <2>1, <2>2, CallAdded
  <2>4. /\ calls' \in Seq(Call) /\ Len(calls) \in Nat /\ Len(calls') = Len(calls) + 1
        /\ \A i \in 1..Len(calls) : calls'[i] = calls[i]
        /\ calls'[Len(calls) + 1] = m
    BY <2>1, <2>2, Pushed DEF TrackInv, TrackTypes
  <2>5. /\ queue' \in Seq(Asking) /\ Len(queue) \in Nat /\ Len(queue') = Len(queue) + 1
        /\ \A i \in 1..Len(queue) : queue'[i] = queue[i]
        /\ queue'[Len(queue) + 1] = r
    BY <2>1, <2>2, Pushed DEF TrackInv, TrackTypes
  <2>6. Runs' = Runs /\ G!running' = G!running
    BY <1>1 DEF Runs, G!running
  <2>7. TrackTypes' /\ Wanted'
    BY <1>1, <2>4, <2>5 DEF TrackInv, TrackTypes, Wanted, G!clientHistory
  <2>8. Stopped'
    BY <1>1, <2>2, <2>4, <2>6 DEF TrackInv, Stopped, G!clientHistory
  <2>9. /\ Called("start")' <=> Called("start")
        /\ Called("stop")' <=> Called("stop")
    BY <1>1, <2>2, <2>4 DEF Called, Is
  <2>10. Started'
    BY <1>1, <2>6, <2>9 DEF TrackInv, Started, G!clientHistory
  <2>11. Options'
    <3>1. calls'[Len(calls')].session = session' /\ calls'[Len(calls')].fn # "stop" /\ Len(calls') \in 1..Len(calls')
      BY <1>1, <2>2, <2>4
    <3>2. calls'[Len(calls')].option = mTrackingOptions'
      BY <1>1, <2>2, <2>4
    <3>. QED
      BY <2>4, <3>1, <3>2 DEF Options, Changes
  <2>12. /\ Asked("start")' <=> Asked("start")
         /\ Asked("stop")' <=> Asked("stop")
    BY <1>1 DEF Asked, Is
  <2>13. /\ Due("start")' <=> Due("start")
         /\ Due("stop")' <=> Due("stop")
         /\ queue # <<>> => queue' # <<>> /\ queue'[1] = queue[1]
    BY <2>2, <2>5 DEF Due
  <2>14. Told'
    BY <1>1, <2>6, <2>9, <2>12, <2>13 DEF TrackInv, Told, G!clientHistory
  <2>. QED
    BY <2>3, <2>7, <2>8, <2>10, <2>11, <2>14 DEF TrackInv
<1>3. CASE ~(session > 0)
  <2>1. calls' = calls /\ queue' = queue
    BY <1>3 DEF G!setPositionMode
  <2>2. TrackTypes' /\ Wanted'
    BY <1>1, <2>1 DEF TrackInv, TrackTypes, Wanted, G!clientHistory
  <2>3. Messages' /\ Matched' /\ StartFirst' /\ Stopped' /\ Started' /\ Told'
    BY <1>1, <2>1, NothingSent DEF G!clientHistory
  <2>4. ~Runs' /\ \A i \in 1..Len(calls) : calls[i].session # session
    <3>1. \A i \in 1..Len(calls) : calls[i] \in Call
      BY DEF TrackInv, TrackTypes
    <3>. QED
      BY <1>1, <1>3, <3>1 DEF Runs, G!running, G!Session, Call
  <2>5. Options'
    BY <1>1, <2>1, <2>4 DEF Options, Changes
  <2>. QED
    BY <2>2, <2>3, <2>5 DEF TrackInv
<1>. QED
  BY <1>2, <1>3

\* A session begins.
LEMMA TrackStarts == ASSUME SessionsBounded, TrackInv, G!start  PROVE TrackInv'
<1>1. CASE mTracking
  <2>1. TrackTypes' /\ Wanted'
    BY <1>1 DEF G!start, G!client, TrackInv, TrackTypes, Wanted
  <2>2. Messages' /\ Matched' /\ StartFirst' /\ Stopped' /\ Started' /\ Options' /\ Told'
    BY <1>1, NothingSent DEF G!start, G!client
  <2>. QED
    BY <2>1, <2>2 DEF TrackInv
<1>2. CASE ~mTracking
  <2>. DEFINE m == [fn |-> "start", session |-> session + 1, option |-> mTrackingOptions]
              r == [fn |-> "start", session |-> session + 1]
  <2>1. /\ session < MaxSessions /\ session' = session + 1 /\ queue' = <<r>>
        /\ calls' = Append(calls, m) /\ mTracking' = TRUE /\ started' = TRUE
        /\ failed' = {} /\ dropped' = (dropped \/ queue # <<>>)
        /\ UNCHANGED <<mTrackingOptions, obituary, engine, live, status, shifted, revived,
                       lateDeath>>
    BY <1>2 DEF G!start, G!call
  <2>2. session + 1 \in G!Session /\ session \in Nat
    BY <2>1 DEF TrackInv, TrackTypes, G!Session, SessionsBounded
  <2>3. /\ m \in Call /\ r \in Asking /\ m.session = session + 1 /\ m.fn = "start"
        /\ m.option = mTrackingOptions /\ m.option \in Option /\ r.fn = "start"
    BY <2>2 DEF TrackInv, TrackTypes, Call, Asking, CallKind
  <2>. HIDE DEF m, r
  <2>4. /\ calls' \in Seq(Call) /\ Len(calls) \in Nat /\ Len(calls') = Len(calls) + 1
        /\ \A i \in 1..Len(calls) : calls'[i] = calls[i]
        /\ calls'[Len(calls) + 1] = m
    BY <2>1, <2>3, Pushed DEF TrackInv, TrackTypes
  <2>5. /\ queue' \in Seq(Asking) /\ Len(queue') = 1 /\ queue'[1] = r /\ queue' # <<>>
    BY <2>1, <2>3
  <2>6. G!running' = G!running
    BY <2>1 DEF G!running
  <2>7. TrackTypes'
    <3>1. session' \in 0..MaxSessions
      BY <2>1, <2>2 DEF G!Session
    <3>2. dropped' \in BOOLEAN
      BY <2>1 DEF TrackInv, TrackTypes
    <3>. QED
      BY <2>1, <2>4, <2>5, <3>1, <3>2 DEF TrackInv, TrackTypes
  <2>8. Wanted'
    BY <2>1, <2>2 DEF Wanted
  <2>9. /\ \A i \in 1..Len(calls) : calls'[i].session # session'
        /\ \A i \in 1..Len(engine) : engine[i].session # session'
        /\ ~Runs'
    <3>1. \A i \in 1..Len(calls) : calls[i] \in Call
      BY DEF TrackInv, TrackTypes
    <3>2. \A i \in 1..Len(engine) : engine[i] \in Call
      BY DEF TrackInv, TrackTypes
    <3>. QED
      BY <2>1, <2>2, <2>4, <2>6, <3>1, <3>2 DEF TrackInv, Messages, Runs, Call, G!Session, G!running
  <2>10. Messages'
    <3>1. \A i \in 1..Len(calls) : calls[i] \in Call
      BY DEF TrackInv, TrackTypes
    <3>2. \A i \in 1..Len(engine) : engine[i] \in Call
      BY DEF TrackInv, TrackTypes
    <3>3. \A s \in G!Session : s \in Nat
      BY DEF G!Session
    <3>4. \A s \in G!running : s \in G!Session
      BY DEF G!running
    <3>. QED
      BY <2>1, <2>2, <2>3, <2>4, <2>6, <3>1, <3>2, <3>3, <3>4 DEF TrackInv, Messages, Call
  <2>11. Matched'
    <3>1. Len(engine) \in Nat /\ engine' = engine
      BY <2>1 DEF TrackInv, TrackTypes
    <3>2. PICK k \in Nat, e \in Nat : k = Len(calls) /\ e = Len(engine)
      BY <2>4, <3>1
    <3>3. Split(k, e)'
      BY <2>1, <2>3, <2>4, <2>5, <2>9, <3>1, <3>2 DEF Split
    <3>. QED
      BY <3>3 DEF Matched
  <2>12. StartFirst'
    BY <2>1, <2>4, <2>9 DEF StartFirst, Is
  <2>19. /\ \A i \in 1..Len(calls') : i \in 1..Len(calls) \/ i = Len(calls) + 1
         /\ Len(calls) + 1 \in 1..Len(calls') /\ 1..Len(calls) \subseteq 1..Len(calls')
    BY <2>4
  <2>13. Stopped'
    <3>1. ASSUME NEW i \in 1..Len(calls), calls[i].fn = "start"
          PROVE  \E j \in 1..Len(calls') :
                   i < j /\ calls'[j].fn = "stop" /\ calls'[j].session = calls'[i].session
      BY <1>2, <2>4, <2>19, <3>1 DEF TrackInv, Stopped
    <3>2. ASSUME ~revived, NEW s \in G!running
          PROVE  \E j \in 1..Len(calls') : calls'[j].fn = "stop" /\ calls'[j].session = s
      BY <1>2, <2>4, <2>19, <3>2 DEF TrackInv, Stopped
    <3>3. calls'[Len(calls) + 1].session = session' /\ mTracking'
      BY <2>1, <2>3, <2>4
    <3>. QED
      BY <2>1, <2>4, <2>6, <2>19, <3>1, <3>2, <3>3 DEF Stopped
  <2>14. /\ Called("start")' /\ ~Called("stop")'
         /\ ~Asked("start")' /\ ~Asked("stop")'
    <3>1. Called("start")'
      BY <2>1, <2>3, <2>4, <2>19 DEF Called, Is
    <3>2. ~Called("stop")'
      BY <2>1, <2>3, <2>4, <2>9, <2>19 DEF Called, Is
    <3>. QED
      BY <2>1, <2>9, <3>1, <3>2 DEF Asked, Is
  <2>15. Started'
    BY <2>14 DEF Started
  <2>16. Options'
    BY <2>1, <2>3, <2>4, <2>9 DEF Options, Changes
  <2>17. Told'
    <3>1. ~shifted /\ ~revived /\ ~dropped /\ queue = <<>> => ~status
      <4>1. Runs => Called("stop") \/ revived
        BY <1>2 DEF TrackInv, Stopped, Runs, Called, Is
      <4>2. queue = <<>> => ~Due("start") /\ ~Due("stop")
        BY DEF Due
      <4>. QED
        BY <4>1, <4>2 DEF TrackInv, Told
    <3>2. Due("start")'
      BY <2>3, <2>5 DEF Due
    <3>. QED
      BY Zenon, <2>1, <2>3, <2>5, <2>9, <2>14, <3>1, <3>2 DEF Told
  <2>. QED
    BY <2>7, <2>8, <2>10, <2>11, <2>12, <2>13, <2>15, <2>16, <2>17 DEF TrackInv
<1>. QED
  BY <1>1, <1>2

------------------------------------------------------------------------------
(* The task of the adapter.                                                *)

\* An answer takes the oldest request of the session, and the framework is told
\* of a session by an answer to a start or to a stop.
LEMMA Answers ==
  ASSUME TrackInv, NEW fn, NEW ok \in BOOLEAN, G!respond(fn, session, ok), queue # <<>>
  PROVE  /\ queue' = Tail(queue) /\ queue' \in Seq(Asking)
         /\ status' \in BOOLEAN /\ shifted' \in BOOLEAN /\ dropped' \in BOOLEAN
         /\ ~shifted' => ~shifted /\ queue[1].fn = fn /\ (fn = "stop" => ok)
         /\ ~shifted' /\ ok /\ fn # "update" => (status' <=> fn = "start")
         /\ ~shifted' /\ (~ok \/ fn = "update") => UNCHANGED <<status, dropped>>
         /\ \A f : Due(f) /\ queue[1].fn # f => Due(f)'
<1>1. /\ queue' = Tail(queue)
      /\ shifted' = (shifted \/ fn # Head(queue).fn \/ (fn = "stop" /\ ~ok))
      /\ IF ok /\ Head(queue).fn # "update"
         THEN status' = (Head(queue).fn = "start") /\ dropped' = FALSE
         ELSE UNCHANGED <<status, dropped>>
  BY DEF G!respond, G!answerHead
<1>2. /\ Tail(queue) \in Seq(Asking) /\ Len(queue) \in Nat /\ Len(queue) >= 1
      /\ Len(Tail(queue)) = Len(queue) - 1
      /\ \A i \in 1..(Len(queue) - 1) : Tail(queue)[i] = queue[i + 1]
      /\ Head(queue) = queue[1]
  BY Popped DEF TrackInv, TrackTypes
<1>3. ASSUME NEW f, Due(f), queue[1].fn # f  PROVE Due(f)'
  <2>1. PICK i \in 1..Len(queue) : queue[i].fn = f
    BY <1>3 DEF Due
  <2>2. i - 1 \in 1..(Len(queue) - 1) /\ i = (i - 1) + 1
    BY <1>2, <1>3, <2>1
  <2>3. Tail(queue)[i - 1] = queue[i]
    BY <1>2, <2>2
  <2>. QED
    BY Zenon, <1>1, <1>2, <2>1, <2>2, <2>3 DEF Due
<1>4. status' \in BOOLEAN /\ shifted' \in BOOLEAN /\ dropped' \in BOOLEAN
  BY Zenon, <1>1 DEF TrackInv, TrackTypes
<1>5. ~shifted' => ~shifted /\ queue[1].fn = fn /\ (fn = "stop" => ok)
  BY Zenon, <1>1, <1>2
<1>6. ~shifted' /\ ok /\ fn # "update" => (status' <=> fn = "start")
  BY Zenon, <1>1, <1>2
<1>7. ~shifted' /\ (~ok \/ fn = "update") => UNCHANGED <<status, dropped>>
  BY <1>1, <1>2
<1>. QED
  BY <1>1, <1>2, <1>3, <1>4, <1>5, <1>6, <1>7

\* What a message makes of its session, and when it is refused.
After(c) ==
  IF c.fn = "start" \/ (c.fn = "update" /\ live[c.session] # None) THEN c.option ELSE None
Refused(c) == c.fn # "start" /\ live[c.session] = None
Taking(c) ==
  /\ calls # <<>> /\ c = calls[1] /\ c \in Call /\ calls' = Tail(calls)
  /\ live' = [live EXCEPT ![c.session] = After(c)]
  /\ \/ G!respond(c.fn, c.session, ~Refused(c)) /\ UNCHANGED engine
     \/ /\ ~Refused(c) /\ engine' = Append(engine, [c EXCEPT !.option = live[c.session]])
        /\ G!untold
  /\ UNCHANGED <<G!adapterOnly, failed, revived, lateDeath>>

LEMMA Replies ==
  ASSUME NEW c, G!answersOrAsks(c, TRUE)
  PROVE  \/ G!respond(c.fn, c.session, TRUE) /\ UNCHANGED engine
         \/ engine' = Append(engine, [c EXCEPT !.option = live[c.session]]) /\ G!untold
  BY Zenon DEF G!answersOrAsks

LEMMA Handles ==
  ASSUME TrackInv, G!MsgStartTracking \/ G!MsgUpdateTracking \/ G!MsgStopTracking
  PROVE  Taking(Head(calls))
<1>. DEFINE c == Head(calls)
<1>1. calls # <<>> /\ calls' = Tail(calls)
  BY Zenon DEF G!MsgStartTracking, G!MsgUpdateTracking, G!MsgStopTracking, G!next
<1>2. c = calls[1] /\ c \in Call
  BY <1>1, Popped DEF TrackInv, TrackTypes
<1>3. c.session \in G!Session /\ live \in [G!Session -> Option \cup {None}]
  BY <1>2 DEF Call, TrackInv, TrackTypes
<1>4. CASE G!MsgStartTracking
  <2>1. c.fn = "start" /\ live' = [live EXCEPT ![c.session] = c.option]
    BY <1>4 DEF G!MsgStartTracking, G!next
  <2>2. (G!respond(c.fn, c.session, TRUE) /\ UNCHANGED engine)
        \/ (engine' = Append(engine, [c EXCEPT !.option = live[c.session]]) /\ G!untold)
    <3>1. G!answersOrAsks(c, TRUE)
      BY Zenon, <1>4 DEF G!MsgStartTracking
    <3>. QED
      BY Zenon, <3>1, Replies
  <2>3. ~Refused(c)
    BY <2>1 DEF Refused
  <2>. QED
    BY Zenon, <1>1, <1>2, <1>4, <2>1, <2>2, <2>3 DEF Taking, After, G!MsgStartTracking
<1>5. CASE G!MsgUpdateTracking
  <2>1. c.fn = "update"
    BY <1>5 DEF G!MsgUpdateTracking, G!next
  <2>2. CASE live[c.session] = None
    <3>1. Refused(c) /\ After(c) = None
      BY <2>1, <2>2 DEF Refused, After
    <3>2. G!respond(c.fn, c.session, ~Refused(c)) /\ UNCHANGED <<live, engine>>
      BY Zenon, <1>5, <2>1, <2>2, <3>1 DEF G!MsgUpdateTracking
    <3>3. live' = [live EXCEPT ![c.session] = After(c)]
      BY <1>3, <2>2, <3>1, <3>2
    <3>. QED
      BY Zenon, <1>1, <1>2, <1>5, <3>2, <3>3 DEF Taking, G!MsgUpdateTracking
  <2>3. CASE live[c.session] # None
    <3>1. ~Refused(c) /\ After(c) = c.option
      BY <2>1, <2>3 DEF Refused, After
    <3>2. live' = [live EXCEPT ![c.session] = c.option]
      BY <1>5, <2>3 DEF G!MsgUpdateTracking
    <3>3. (G!respond(c.fn, c.session, TRUE) /\ UNCHANGED engine)
          \/ (engine' = Append(engine, [c EXCEPT !.option = live[c.session]]) /\ G!untold)
      <4>1. G!answersOrAsks(c, TRUE)
        BY Zenon, <1>5, <2>3 DEF G!MsgUpdateTracking
      <4>. QED
        BY Zenon, <4>1, Replies
    <3>. QED
      BY Zenon, <1>1, <1>2, <1>5, <3>1, <3>2, <3>3 DEF Taking, G!MsgUpdateTracking
  <2>. QED
    BY <2>2, <2>3
<1>6. CASE G!MsgStopTracking
  <2>1. c.fn = "stop" /\ After(c) = None
    BY <1>6 DEF G!MsgStopTracking, G!next, After
  <2>2. CASE live[c.session] = None
    <3>1. Refused(c)
      BY <2>1, <2>2 DEF Refused
    <3>2. G!respond(c.fn, c.session, ~Refused(c)) /\ UNCHANGED <<live, engine>>
      BY Zenon, <1>6, <2>1, <2>2, <3>1 DEF G!MsgStopTracking
    <3>3. live' = [live EXCEPT ![c.session] = After(c)]
      BY <1>3, <2>1, <2>2, <3>2
    <3>. QED
      BY Zenon, <1>1, <1>2, <1>6, <3>2, <3>3 DEF Taking, G!MsgStopTracking
  <2>3. CASE live[c.session] # None
    <3>1. ~Refused(c)
      BY <2>3 DEF Refused
    <3>2. live' = [live EXCEPT ![c.session] = None]
      BY <1>6, <2>3 DEF G!MsgStopTracking
    <3>3. (G!respond(c.fn, c.session, TRUE) /\ UNCHANGED engine)
          \/ (engine' = Append(engine, [c EXCEPT !.option = live[c.session]]) /\ G!untold)
      <4>1. G!answersOrAsks(c, TRUE)
        BY Zenon, <1>6, <2>3 DEF G!MsgStopTracking
      <4>. QED
        BY Zenon, <4>1, Replies
    <3>. QED
      BY Zenon, <1>1, <1>2, <1>6, <2>1, <3>1, <3>2, <3>3 DEF Taking, G!MsgStopTracking
  <2>. QED
    BY <2>2, <2>3
<1>. QED
  BY <1>4, <1>5, <1>6

\* What a message does, whether it is answered at once or not.
LEMMA Taken ==
  ASSUME SessionsBounded, TrackInv, NEW c, Taking(c)
  PROVE  /\ Len(calls) \in Nat /\ Len(calls) >= 1 /\ c = calls[1]
         /\ calls' \in Seq(Call) /\ Len(calls') = Len(calls) - 1
         /\ \A i \in 1..Len(calls') : calls'[i] = calls[i + 1]
         /\ \A j \in 1..Len(calls) : j # 1 => j - 1 \in 1..Len(calls') /\ calls'[j - 1] = calls[j]
         /\ c \in Call /\ c.session \in G!Session /\ c.fn \in CallKind
         /\ c.fn # "stop" => c.option \in Option /\ c.option # None
         /\ live' \in [G!Session -> Option \cup {None}]
         /\ \A s \in G!Session : live'[s] = IF s = c.session THEN After(c) ELSE live[s]
         /\ c.session \in G!running' <=> After(c) # None
         /\ \A s \in G!Session : s # c.session => (s \in G!running' <=> s \in G!running)
<1>1. /\ Len(calls) \in Nat /\ Len(calls) >= 1 /\ c = calls[1] /\ calls' = Tail(calls)
      /\ calls' \in Seq(Call) /\ Len(calls') = Len(calls) - 1 /\ c \in Call
      /\ \A i \in 1..Len(calls') : calls'[i] = calls[i + 1]
  BY Popped DEF TrackInv, TrackTypes, Taking
<1>2. \A j \in 1..Len(calls) : j # 1 => j - 1 \in 1..Len(calls') /\ calls'[j - 1] = calls[j]
  BY <1>1
<1>3. c.session \in G!Session /\ c.fn \in CallKind /\ c.option \in Option \cup {None}
  BY <1>1 DEF Call
<1>4. c.fn # "stop" => c.option \in Option /\ c.option # None
  BY <1>1 DEF TrackInv, Messages, SessionsBounded
<1>5. After(c) \in Option \cup {None}
  BY <1>3 DEF After
<1>6. live' = [live EXCEPT ![c.session] = After(c)] /\ live \in [G!Session -> Option \cup {None}]
  BY DEF Taking, TrackInv, TrackTypes
<1>7. /\ live' \in [G!Session -> Option \cup {None}]
      /\ \A s \in G!Session : live'[s] = IF s = c.session THEN After(c) ELSE live[s]
  BY <1>3, <1>5, <1>6
<1>8. /\ c.session \in G!running' <=> After(c) # None
      /\ \A s \in G!Session : s # c.session => (s \in G!running' <=> s \in G!running)
  BY <1>3, <1>7 DEF G!running
<1>. QED
  BY <1>1, <1>2, <1>3, <1>4, <1>7, <1>8

LEMMA TakenMessages ==
  ASSUME SessionsBounded, TrackInv, NEW c, Taking(c)
  PROVE  TrackTypes' /\ Messages' /\ Wanted' /\ Matched' /\ StartFirst'
<1>1. /\ c = calls[1] /\ c \in Call /\ calls' \in Seq(Call) /\ c.session \in G!Session
      /\ live' \in [G!Session -> Option \cup {None}]
  BY Taken
<1>2. \A s \in G!running' : s \in G!running \/ s = c.session
  BY Taken DEF G!running
<1>3. /\ calls # <<>> /\ calls' = Tail(calls) /\ Head(calls) = c
      /\ UNCHANGED <<session, mTrackingOptions, mTracking, obituary, started, lateDeath, revived>>
  BY <1>1, Popped DEF Taking, G!adapterOnly, TrackInv, TrackTypes
<1>4. Wanted'
  BY <1>3 DEF TrackInv, Wanted
<1>5. CASE G!respond(c.fn, c.session, ~Refused(c)) /\ UNCHANGED engine
  <2>1. queue' = IF calls[1].session # session \/ queue = <<>> THEN queue ELSE Tail(queue)
    BY <1>1, <1>5 DEF G!respond, G!untold, G!answerHead
  <2>2. Messages' /\ Matched' /\ StartFirst'
    BY <1>1, <1>2, <1>3, <1>5, <2>1, CallAnswered
  <2>3. queue' \in Seq(Asking)
    BY <2>1, Popped DEF TrackInv, TrackTypes
  <2>4. {status', shifted', dropped'} \subseteq BOOLEAN
    BY Zenon, <1>5 DEF G!respond, G!untold, G!answerHead, TrackInv, TrackTypes
  <2>5. TrackTypes'
    BY <1>1, <1>3, <1>5, <2>3, <2>4 DEF TrackInv, TrackTypes
  <2>. QED
    BY <1>4, <2>2, <2>5
<1>6. CASE ~Refused(c) /\ engine' = Append(engine, [c EXCEPT !.option = live[c.session]])
           /\ G!untold
  <2>. DEFINE m == [c EXCEPT !.option = live[c.session]]
  <2>1. live[c.session] \in Option \cup {None} /\ (c.fn = "update" => live[c.session] \in Option)
    BY <1>1, <1>6 DEF Refused, TrackInv, TrackTypes
  <2>2. /\ m \in Call /\ m.fn = c.fn /\ m.session = c.session
        /\ (m.fn = "update" => m.option \in Option)
    BY <1>1, <2>1 DEF Call
  <2>3. engine' = Append(engine, m) /\ queue' = queue /\ UNCHANGED <<status, shifted, dropped>>
    BY <1>6 DEF G!untold
  <2>. HIDE DEF m
  <2>4. Messages' /\ Matched' /\ StartFirst'
    BY <1>2, <1>3, <2>2, <2>3, CallAsked
  <2>5. engine' \in Seq(Call)
    BY <2>2, <2>3 DEF TrackInv, TrackTypes
  <2>6. TrackTypes'
    BY <1>1, <1>3, <2>3, <2>5 DEF TrackInv, TrackTypes
  <2>. QED
    BY <1>4, <2>4, <2>6
<1>. QED
  BY <1>5, <1>6 DEF Taking

LEMMA TakenStops ==
  ASSUME SessionsBounded, TrackInv, NEW c, Taking(c)  PROVE Stopped' /\ Started' /\ Options'
<1>1. UNCHANGED <<session, mTracking, mTrackingOptions, failed, revived>>
  BY DEF Taking, G!adapterOnly
<1>2. /\ Len(calls) \in Nat /\ Len(calls) >= 1 /\ c = calls[1]
      /\ Len(calls') = Len(calls) - 1 /\ c.session \in G!Session /\ c.fn \in CallKind
      /\ \A i \in 1..Len(calls') : calls'[i] = calls[i + 1]
      /\ \A j \in 1..Len(calls) : j # 1 => j - 1 \in 1..Len(calls') /\ calls'[j - 1] = calls[j]
  BY Taken
<1>3. /\ c.fn # "stop" => c.option \in Option /\ c.option # None
      /\ c.session \in G!running' <=> After(c) # None
      /\ \A s \in G!Session : s # c.session => (s \in G!running' <=> s \in G!running)
      /\ \A s \in G!Session : live'[s] = IF s = c.session THEN After(c) ELSE live[s]
  BY Taken
<1>4. G!running \subseteq G!Session /\ G!running' \subseteq G!Session
      /\ (c.session \in G!running <=> live[c.session] # None)
  BY <1>2 DEF G!running
<1>5. Stopped'
  <2>1. ASSUME NEW i \in 1..Len(calls'), calls'[i].fn = "start"
        PROVE  \/ calls'[i].session = session /\ mTracking
               \/ \E j \in 1..Len(calls') :
                    i < j /\ calls'[j].fn = "stop" /\ calls'[j].session = calls'[i].session
    <3>1. i + 1 \in 1..Len(calls) /\ calls[i + 1].fn = "start" /\ calls'[i] = calls[i + 1]
      BY <1>2, <2>1
    <3>2. CASE ~(calls[i + 1].session = session /\ mTracking)
      <4>1. PICK j \in 1..Len(calls) :
              i + 1 < j /\ calls[j].fn = "stop" /\ calls[j].session = calls[i + 1].session
        BY <3>1, <3>2 DEF TrackInv, Stopped
      <4>2. j # 1 /\ i < j - 1
        BY <4>1
      <4>. QED
        BY <1>2, <3>1, <4>1, <4>2
    <3>. QED
      BY <3>1, <3>2
  <2>2. ASSUME ~revived, NEW s \in G!running', ~(s = session /\ mTracking)
        PROVE  \E j \in 1..Len(calls') : calls'[j].fn = "stop" /\ calls'[j].session = s
    <3>1. ASSUME NEW j \in 1..Len(calls), j # 1, calls[j].fn = "stop", calls[j].session = s
          PROVE  \E k \in 1..Len(calls') : calls'[k].fn = "stop" /\ calls'[k].session = s
      BY <1>2, <3>1
    <3>2. CASE s = c.session /\ c.fn = "start"
      <4>1. PICK j \in 1..Len(calls) : 1 < j /\ calls[j].fn = "stop" /\ calls[j].session = s
        <5>1. 1 \in 1..Len(calls)
          BY <1>2
        <5>. QED
          BY <1>2, <2>2, <3>2, <5>1 DEF TrackInv, Stopped
      <4>. QED
        BY <3>1, <4>1
    <3>3. CASE ~(s = c.session /\ c.fn = "start")
      <4>1. s \in G!running
        BY <1>3, <1>4, <2>2, <3>3 DEF After
      <4>2. PICK j \in 1..Len(calls) : calls[j].fn = "stop" /\ calls[j].session = s
        BY <2>2, <4>1 DEF TrackInv, Stopped
      <4>3. j # 1
        BY <1>2, <1>3, <2>2, <3>3, <4>2 DEF After
      <4>. QED
        BY <3>1, <4>2, <4>3
    <3>. QED
      BY <3>2, <3>3
  <2>. QED
    BY <1>1, <2>1, <2>2 DEF Stopped
<1>6. \A f : Called(f)' => Called(f)
  BY <1>1, <1>2 DEF Called, Is
<1>7. \A f : Called(f) => Called(f)' \/ Is(c, f)
  <2>. SUFFICES ASSUME NEW f, Called(f), ~Is(c, f)  PROVE Called(f)'
    OBVIOUS
  <2>1. PICK j \in 1..Len(calls) : Is(calls[j], f)
    BY DEF Called
  <2>2. j # 1
    BY <1>2, <2>1
  <2>3. j - 1 \in 1..Len(calls') /\ calls'[j - 1] = calls[j]
    BY <1>2, <2>2
  <2>. QED
    BY <1>1, <2>1, <2>3 DEF Called, Is
<1>. DEFINE New(i) == calls'[i].session = session /\ calls'[i].fn # "stop"
<1>8. Started'
  <2>1. mTracking' => ~Called("stop")'
    BY <1>1, <1>6 DEF TrackInv, Started
  <2>2. ASSUME mTracking, "start" \notin failed, ~Called("start")'  PROVE Runs'
    <3>1. CASE c.session = session
      <4>1. c.fn # "stop"
        <5>1. 1 \in 1..Len(calls) /\ calls[1] = c
          BY <1>2
        <5>2. Is(c, "stop") => Called("stop")
          BY <5>1 DEF Called
        <5>. QED
          BY <2>2, <3>1, <5>2 DEF TrackInv, Started, Is
      <4>2. Runs \/ Is(c, "start")
        BY <1>7, <2>2 DEF TrackInv, Started
      <4>3. After(c) # None
        BY <1>2, <1>3, <1>4, <3>1, <4>1, <4>2 DEF After, Is, Runs, CallKind
      <4>. QED
        BY <1>1, <1>3, <3>1, <4>3 DEF Runs
    <3>2. CASE c.session # session
      <4>1. Runs
        BY <1>7, <2>2, <3>2 DEF TrackInv, Started, Is
      <4>. QED
        BY <1>1, <1>3, <1>4, <3>2, <4>1 DEF Runs
    <3>. QED
      BY <3>1, <3>2
  <2>. QED
    BY <1>1, <2>1, <2>2 DEF Started
<1>9. Options'
  <2>1. ASSUME NEW i \in 1..Len(calls'), New(i),
               \A j \in 1..Len(calls') : i < j => ~New(j)
        PROVE  calls'[i].option = mTrackingOptions
    <3>1. i + 1 \in 1..Len(calls) /\ calls'[i] = calls[i + 1] /\ Changes(calls[i + 1])
      BY <1>1, <1>2, <2>1 DEF Changes
    <3>2. ASSUME NEW j \in 1..Len(calls), i + 1 < j  PROVE ~Changes(calls[j])
      <4>1. j # 1 /\ j - 1 \in 1..Len(calls') /\ calls'[j - 1] = calls[j] /\ i < j - 1
        BY <1>2, <3>2
      <4>. QED
        BY <1>1, <2>1, <4>1 DEF Changes
    <3>. QED
      BY <3>1, <3>2 DEF TrackInv, Options
  <2>2. ASSUME Runs', failed = {}, \A i \in 1..Len(calls') : ~New(i)
        PROVE  live'[session] = mTrackingOptions
    <3>1. ASSUME NEW j \in 1..Len(calls), j # 1  PROVE ~Changes(calls[j])
      BY Zenon, <1>1, <1>2, <2>2, <3>1 DEF Changes
    <3>2. CASE c.session = session
      <4>1. After(c) # None
        BY <1>1, <1>3, <2>2, <3>2 DEF Runs
      <4>2. Changes(c) /\ After(c) = c.option
        BY <3>2, <4>1 DEF Changes, After
      <4>3. /\ 1 \in 1..Len(calls) /\ calls[1] = c
            /\ \A j \in 1..Len(calls) : 1 < j => ~Changes(calls[j])
        BY <1>2, <3>1
      <4>4. c.option = mTrackingOptions
        BY <4>2, <4>3 DEF TrackInv, Options
      <4>. QED
        BY <1>2, <1>3, <3>2, <4>2, <4>4
    <3>3. CASE c.session # session
      <4>1. Runs /\ session \in G!Session
        BY <1>1, <1>3, <1>4, <2>2, <3>3 DEF Runs
      <4>2. \A j \in 1..Len(calls) : ~Changes(calls[j])
        BY <1>2, <3>1, <3>3 DEF Changes
      <4>3. live[session] = mTrackingOptions
        BY <2>2, <4>1, <4>2 DEF TrackInv, Options
      <4>. QED
        BY <1>3, <3>3, <4>1, <4>3
    <3>. QED
      BY <3>2, <3>3
  <2>3. \A i \in 1..Len(calls') :
          New(i) /\ (\A j \in 1..Len(calls') : i < j => ~New(j)) =>
            calls'[i].option = mTrackingOptions'
    BY <1>1, <2>1
  <2>4. Runs' /\ failed' = {} /\ (\A i \in 1..Len(calls') : ~New(i)) =>
          live'[session'] = mTrackingOptions'
    BY <1>1, <2>2
  <2>. QED
    BY <1>1, <2>3, <2>4 DEF Options, Changes
<1>. QED
  BY <1>5, <1>8, <1>9

\* What is called and asked of the session, before and after a message.
LEMMA TakenCalls ==
  ASSUME SessionsBounded, TrackInv, NEW c, Taking(c)
  PROVE  /\ \A f : Called(f)' => Called(f)
         /\ \A f : Called(f) => Called(f)' \/ Is(c, f)
         /\ c.session = session =>
              /\ Called(c.fn) /\ ~Called("start")'
              /\ c.fn = "start" => ~Asked("start") /\ ~Asked("stop")
         /\ (Runs' <=> IF c.session = session THEN After(c) # None ELSE Runs)
         /\ c.session = session => (Runs <=> live[c.session] # None)
<1>1. UNCHANGED session
  BY DEF Taking, G!adapterOnly
<1>2. /\ Len(calls) \in Nat /\ Len(calls) >= 1 /\ c = calls[1]
      /\ Len(calls') = Len(calls) - 1 /\ c.session \in G!Session
      /\ \A i \in 1..Len(calls') : calls'[i] = calls[i + 1]
      /\ \A j \in 1..Len(calls) : j # 1 => j - 1 \in 1..Len(calls') /\ calls'[j - 1] = calls[j]
  BY Taken
<1>3. /\ c.session \in G!running' <=> After(c) # None
      /\ \A s \in G!Session : s # c.session => (s \in G!running' <=> s \in G!running)
  BY Taken
<1>4. G!running \subseteq G!Session /\ G!running' \subseteq G!Session
      /\ (c.session \in G!running <=> live[c.session] # None)
  BY <1>2 DEF G!running
<1>5. \A f : Called(f)' => Called(f)
  BY <1>1, <1>2 DEF Called, Is
<1>6. \A f : Called(f) => Called(f)' \/ Is(c, f)
  <2>. SUFFICES ASSUME NEW f, Called(f), ~Is(c, f)  PROVE Called(f)'
    OBVIOUS
  <2>1. PICK j \in 1..Len(calls) : Is(calls[j], f)
    BY DEF Called
  <2>2. j # 1
    BY <1>2, <2>1
  <2>3. j - 1 \in 1..Len(calls') /\ calls'[j - 1] = calls[j]
    BY <1>2, <2>2
  <2>. QED
    BY <1>1, <2>1, <2>3 DEF Called, Is
<1>7. 1 \in 1..Len(calls) /\ calls[1] = c
  BY <1>2
<1>8. ASSUME c.session = session  PROVE Called(c.fn) /\ ~Called("start")'
  <2>1. Called(c.fn)
    BY <1>7, <1>8 DEF Called, Is
  <2>2. ASSUME NEW i \in 1..Len(calls'), Is(calls'[i], "start")  PROVE FALSE
    <3>1. i + 1 \in 1..Len(calls) /\ 1 < i + 1 /\ Is(calls[i + 1], "start")
      BY <1>2, <2>2
    <3>2. calls[1].session # session
      BY <1>7, <3>1 DEF TrackInv, StartFirst
    <3>. QED
      BY <1>7, <1>8, <3>2
  <2>. QED
    BY <1>1, <2>1, <2>2 DEF Called, Is
<1>9. ASSUME c.session = session, c.fn = "start"  PROVE ~Asked("start") /\ ~Asked("stop")
  <2>1. Is(calls[1], "start")
    BY <1>7, <1>9 DEF Is
  <2>2. \A j \in 1..Len(engine) : engine[j].session # session
    BY <1>7, <2>1 DEF TrackInv, StartFirst
  <2>. QED
    BY <2>2 DEF Asked, Is
<1>10. Runs' <=> IF c.session = session THEN After(c) # None ELSE Runs
  BY <1>1, <1>3, <1>4 DEF Runs
<1>11. c.session = session => (Runs <=> live[c.session] # None)
  BY <1>4 DEF Runs
<1>. QED
  BY <1>5, <1>6, <1>8, <1>9, <1>10, <1>11

\* The requests at rest: what Told says of them when no answer was given to another.
Heads ==
  /\ Called("start") \/ Asked("start") => queue # <<>> /\ queue[1].fn = "start"
  /\ (Runs \/ Called("start")) /\ Called("stop") => Due("stop")
  /\ Asked("start") /\ ~Runs => Due("stop")
  /\ Asked("stop") => ~Runs
Truth ==
  ~dropped => /\ Called("start") \/ Asked("start") => ~status
              /\ ~Due("start") /\ ~Due("stop") => (status <=> Runs)

LEMMA TakenAtOnce ==
  ASSUME SessionsBounded, TrackInv, NEW c, Taking(c), c.session = session,
         G!respond(c.fn, c.session, ~Refused(c)) /\ UNCHANGED engine
  PROVE  Told'
<1>. SUFFICES ASSUME ~shifted', ~revived'  PROVE Heads' /\ Truth'
  BY DEF Told, Heads, Truth
<1>1. /\ UNCHANGED <<session, revived>>
  BY DEF Taking, G!adapterOnly
<1>2. queue # <<>>
  BY Taken, Requested DEF Taking
<1>3. c.fn \in CallKind /\ (c.fn # "stop" => c.option # None)
  BY Taken
<1>4. /\ ~shifted /\ queue[1].fn = c.fn /\ (c.fn = "stop" => ~Refused(c))
      /\ ~Refused(c) /\ c.fn # "update" => (status' <=> c.fn = "start")
      /\ (Refused(c) \/ c.fn = "update") => UNCHANGED <<status, dropped>>
      /\ \A f : Due(f) /\ queue[1].fn # f => Due(f)'
  <2>1. Refused(c) \in BOOLEAN
    BY DEF Refused
  <2>2. PICK ok \in BOOLEAN : ok <=> ~Refused(c)
    BY Zenon, <2>1
  <2>3. G!respond(c.fn, session, ok)
    BY <2>2 DEF G!respond, G!answerHead, G!untold
  <2>. QED
    BY <1>2, <2>2, <2>3, Answers
<1>5. /\ Called("start") \/ Asked("start") => queue[1].fn = "start"
      /\ (Runs \/ Called("start")) /\ Called("stop") => Due("stop")
      /\ Asked("start") /\ ~Runs => Due("stop")
      /\ Asked("stop") => ~Runs
      /\ ~dropped /\ ~Due("start") /\ ~Due("stop") => (status <=> Runs)
  BY <1>1, <1>4 DEF TrackInv, Told
<1>6. /\ Called("stop")' => Called("stop")
      /\ Called(c.fn) /\ ~Called("start")'
      /\ c.fn = "start" => ~Asked("start") /\ ~Asked("stop")
      /\ (Runs' <=> After(c) # None)
      /\ (Runs <=> live[c.session] # None)
  BY TakenCalls
<1>7. (Asked("start")' <=> Asked("start")) /\ (Asked("stop")' <=> Asked("stop"))
  BY <1>1 DEF Asked, Is
<1>8. /\ c.fn = "start" => Runs' /\ ~Refused(c)
      /\ c.fn = "update" => (Runs' <=> Runs)
      /\ c.fn = "stop" => ~Runs' /\ Runs
  BY <1>3, <1>4, <1>6 DEF After, Refused
<1>9. c.fn \in {"start", "update", "stop"}
  BY <1>3 DEF CallKind
<1>10. ~Asked("start")'
  BY <1>4, <1>5, <1>6, <1>7
<1>11. Heads'
  <2>1. Runs' /\ Called("stop")' => Due("stop")'
    BY <1>4, <1>5, <1>6, <1>8, <1>9
  <2>2. Asked("stop")' => ~Runs'
    BY <1>5, <1>6, <1>7, <1>8, <1>9
  <2>. QED
    BY <1>6, <1>10, <2>1, <2>2 DEF Heads
<1>12. Truth'
  <2>1. c.fn = "update" /\ ~Due("start")' /\ ~Due("stop")' /\ ~dropped' => (status' <=> Runs')
    BY <1>4, <1>5, <1>8
  <2>2. c.fn # "update" => (status' <=> Runs')
    BY <1>4, <1>8, <1>9
  <2>. QED
    BY <1>6, <1>10, <2>1, <2>2 DEF Truth
<1>. QED
  BY <1>11, <1>12

LEMMA TakenAndAsked ==
  ASSUME SessionsBounded, TrackInv, NEW c, Taking(c), c.session = session, ~Refused(c),
         engine' = Append(engine, [c EXCEPT !.option = live[c.session]]), G!untold
  PROVE  Told'
<1>. SUFFICES ASSUME ~shifted', ~revived'  PROVE Heads' /\ Truth'
  BY DEF Told, Heads, Truth
<1>1. UNCHANGED <<session, queue, status, shifted, dropped, revived>>
  BY DEF Taking, G!adapterOnly, G!untold
<1>3. c.fn \in CallKind /\ (c.fn # "stop" => c.option # None) /\ c \in Call
  BY Taken
<1>5. /\ Called("start") \/ Asked("start") => queue # <<>> /\ queue[1].fn = "start"
      /\ (Runs \/ Called("start")) /\ Called("stop") => Due("stop")
      /\ Asked("start") /\ ~Runs => Due("stop")
      /\ Asked("stop") => ~Runs
      /\ ~dropped /\ (Called("start") \/ Asked("start")) => ~status
      /\ ~dropped /\ ~Due("start") /\ ~Due("stop") => (status <=> Runs)
  BY <1>1 DEF TrackInv, Told
<1>6. /\ Called("stop")' => Called("stop")
      /\ Called(c.fn) /\ ~Called("start")'
      /\ c.fn = "start" => ~Asked("start") /\ ~Asked("stop")
      /\ (Runs' <=> After(c) # None)
      /\ (Runs <=> live[c.session] # None)
  BY TakenCalls
<1>7. \A f : Asked(f)' => Asked(f) \/ c.fn = f
  <2>1. PICK m : m = [c EXCEPT !.option = live[c.session]]
    OBVIOUS
  <2>2. m.fn = c.fn /\ m.session = session
    BY <1>3, <2>1 DEF Call
  <2>3. /\ Len(engine) \in Nat /\ Len(engine') = Len(engine) + 1
        /\ \A i \in 1..Len(engine) : engine'[i] = engine[i]
        /\ engine'[Len(engine) + 1] = m
    <3>1. m \in Call
      BY Zenon, <1>3, <2>1, Taken DEF Call, TrackInv, TrackTypes
    <3>. QED
      BY <2>1, <3>1, Pushed DEF TrackInv, TrackTypes
  <2>. QED
    BY <1>1, <2>2, <2>3 DEF Asked, Is
<1>8. /\ c.fn = "start" => Runs'
      /\ c.fn = "update" => Runs' /\ Runs
      /\ c.fn = "stop" => ~Runs' /\ Runs
  BY <1>3, <1>6 DEF After, Refused
<1>9. c.fn \in {"start", "update", "stop"}
  BY <1>3 DEF CallKind
<1>10. (Due("start")' <=> Due("start")) /\ (Due("stop")' <=> Due("stop"))
  BY <1>1 DEF Due
<1>11. Asked("start")' => Asked("start") \/ Called("start")
  BY <1>6, <1>7
<1>12. queue # <<>> /\ queue[1].fn = "start" => Due("start")
  <2>1. queue # <<>> => 1 \in 1..Len(queue)
    BY Popped DEF TrackInv, TrackTypes
  <2>. QED
    BY <2>1 DEF Due
<1>13. Heads'
  <2>1. Called("start")' \/ Asked("start")' => queue' # <<>> /\ queue'[1].fn = "start"
    BY <1>1, <1>5, <1>6, <1>11
  <2>2. Runs' /\ Called("stop")' => Due("stop")'
    BY <1>5, <1>6, <1>8, <1>9, <1>10
  <2>3. Asked("start")' /\ ~Runs' => Due("stop")'
    BY <1>5, <1>6, <1>7, <1>8, <1>9, <1>10
  <2>4. Asked("stop")' => ~Runs'
    BY <1>5, <1>6, <1>7, <1>8, <1>9
  <2>. QED
    BY <1>6, <2>1, <2>2, <2>3, <2>4 DEF Heads
<1>14. Truth'
  <2>1. ~dropped' /\ (Called("start")' \/ Asked("start")') => ~status'
    BY <1>1, <1>5, <1>6, <1>11
  <2>2. ~dropped' /\ ~Due("start")' /\ ~Due("stop")' => (status' <=> Runs')
    BY <1>1, <1>5, <1>6, <1>8, <1>9, <1>10, <1>12
  <2>. QED
    BY <2>1, <2>2 DEF Truth
<1>. QED
  BY <1>13, <1>14

LEMMA TakenOfBefore ==
  ASSUME SessionsBounded, TrackInv, NEW c, Taking(c), c.session # session  PROVE Told'
<1>1. UNCHANGED <<session, queue, status, shifted, dropped, revived>>
  BY DEF Taking, G!adapterOnly, G!untold, G!respond
<1>2. /\ Called("start")' <=> Called("start")
      /\ Called("stop")' <=> Called("stop")
      /\ Runs' <=> Runs
  BY TakenCalls DEF Is
<1>3. \A f : Asked(f)' <=> Asked(f)
  <2>1. CASE UNCHANGED engine
    BY <1>1, <2>1 DEF Asked, Is
  <2>2. CASE engine' = Append(engine, [c EXCEPT !.option = live[c.session]])
    <3>1. PICK m : m = [c EXCEPT !.option = live[c.session]]
      BY Zenon
    <3>2. m \in Call /\ m.session # session
      <4>1. c \in Call /\ c.session \in G!Session
        BY Taken
      <4>2. live[c.session] \in Option \cup {None}
        BY <4>1 DEF TrackInv, TrackTypes
      <4>. QED
        BY <3>1, <4>1, <4>2 DEF Call
    <3>3. /\ Len(engine) \in Nat /\ Len(engine') = Len(engine) + 1
          /\ \A i \in 1..Len(engine) : engine'[i] = engine[i]
          /\ engine'[Len(engine) + 1] = m
      BY <2>2, <3>1, <3>2, Pushed DEF TrackInv, TrackTypes
    <3>. QED
      BY <1>1, <3>2, <3>3 DEF Asked, Is
  <2>. QED
    BY <2>1, <2>2 DEF Taking
<1>4. (Due("start")' <=> Due("start")) /\ (Due("stop")' <=> Due("stop"))
  BY <1>1 DEF Due
<1>. QED
  BY <1>1, <1>2, <1>3, <1>4 DEF TrackInv, Told

LEMMA TaskHandles == ASSUME SessionsBounded, TrackInv, NEW c, Taking(c)  PROVE TrackInv'
<1>1. Told'
  BY Zenon, TakenAtOnce, TakenAndAsked, TakenOfBefore DEF Taking
<1>. QED
  BY <1>1, TakenMessages, TakenStops DEF TrackInv

\* What an answer of the engine does.
LEMMA EngineSays ==
  ASSUME SessionsBounded, TrackInv, NEW ok \in BOOLEAN, G!engineAnswers(ok)
  PROVE  LET e == engine[1]
         IN /\ engine # <<>> /\ engine' = Tail(engine) /\ engine' \in Seq(Call)
            /\ e \in Call /\ e.fn \in CallKind /\ e.session \in G!Session
            /\ G!respond(e.fn, e.session, ok)
            /\ UNCHANGED <<session, calls, mTracking, mTrackingOptions, started, obituary,
                           lateDeath>>
            /\ live' \in [G!Session -> Option \cup {None}]
            /\ \A s \in G!Session : s # e.session => live'[s] = live[s]
            /\ failed' = IF ok \/ e.session # session THEN failed ELSE failed \cup {e.fn}
            /\ revived' \in BOOLEAN /\ (revived => revived')
            /\ ~revived' /\ e.fn = "update" /\ ~ok => live[e.session] # None
            /\ e.fn = "start" /\ ~ok => live'[e.session] = None
            /\ e.fn = "update" /\ ~ok => live'[e.session] # None
            /\ e.fn = "stop" \/ ok => live' = live
<1>1. /\ engine # <<>> /\ engine' = Tail(engine) /\ engine' \in Seq(Call)
      /\ Head(engine) = engine[1] /\ engine[1] \in Call /\ 1 \in 1..Len(engine)
  BY Popped DEF G!engineAnswers, TrackInv, TrackTypes
<1>. DEFINE e == engine[1]
<1>2. e.fn \in CallKind /\ e.session \in G!Session /\ (e.fn = "update" => e.option \in Option)
  BY <1>1 DEF Call, TrackInv, Messages
<1>3. /\ G!respond(e.fn, e.session, ok)
      /\ UNCHANGED <<session, calls, mTracking, mTrackingOptions, started, obituary, lateDeath>>
      /\ failed' = IF ok \/ e.session # session THEN failed ELSE failed \cup {e.fn}
      /\ revived' = (revived \/ (e.fn = "update" /\ ~ok /\ live[e.session] = None))
  BY Zenon, <1>1 DEF G!engineAnswers, G!adapterOnly
<1>4. revived' \in BOOLEAN /\ (revived => revived')
      /\ (~revived' /\ e.fn = "update" /\ ~ok => live[e.session] # None)
  BY Zenon, <1>3 DEF TrackInv, TrackTypes
<1>5. live' = CASE e.fn = "start" /\ ~ok -> [live EXCEPT ![e.session] = None]
                [] e.fn = "update" /\ ~ok -> [live EXCEPT ![e.session] = e.option]
                [] OTHER -> live
  BY Zenon, <1>1 DEF G!engineAnswers
<1>6. live \in [G!Session -> Option \cup {None}]
  BY DEF TrackInv, TrackTypes
<1>7. CASE e.fn = "start" /\ ~ok
  <2>1. live' = [live EXCEPT ![e.session] = None]
    BY <1>5, <1>7
  <2>2. /\ live' \in [G!Session -> Option \cup {None}] /\ live'[e.session] = None
        /\ \A s \in G!Session : s # e.session => live'[s] = live[s]
    BY <1>2, <1>6, <2>1
  <2>. QED
    BY <1>1, <1>2, <1>3, <1>4, <1>7, <2>2
<1>8. CASE e.fn = "update" /\ ~ok
  <2>1. live' = [live EXCEPT ![e.session] = e.option]
    BY <1>5, <1>8
  <2>2. /\ live' \in [G!Session -> Option \cup {None}] /\ live'[e.session] # None
        /\ \A s \in G!Session : s # e.session => live'[s] = live[s]
    BY <1>2, <1>6, <1>8, <2>1 DEF SessionsBounded
  <2>. QED
    BY <1>1, <1>2, <1>3, <1>4, <1>8, <2>2
<1>9. CASE e.fn \notin {"start", "update"} \/ ok
  <2>1. live' = live
    BY <1>5, <1>9
  <2>. QED
    BY <1>1, <1>2, <1>3, <1>4, <1>6, <1>9, <2>1
<1>. QED
  BY <1>2, <1>7, <1>8, <1>9 DEF CallKind

LEMMA EngineTells ==
  ASSUME SessionsBounded, TrackInv, NEW ok \in BOOLEAN, G!engineAnswers(ok), engine[1].session = session
  PROVE  Told'
<1>. DEFINE e == engine[1]
<1>. SUFFICES ASSUME ~shifted', ~revived'  PROVE Heads' /\ Truth'
  BY DEF Told, Heads, Truth
<1>1. /\ engine # <<>> /\ engine' = Tail(engine) /\ e.fn \in CallKind /\ e.session \in G!Session
      /\ G!respond(e.fn, session, ok)
      /\ UNCHANGED <<session, calls>>
      /\ live' \in [G!Session -> Option \cup {None}]
      /\ ~revived
      /\ e.fn = "update" /\ ~ok => live[session] # None
      /\ e.fn = "start" /\ ~ok => live'[session] = None
      /\ e.fn = "update" /\ ~ok => live'[session] # None
      /\ e.fn = "stop" \/ ok => live' = live
  BY EngineSays
<1>2. /\ Len(engine) \in Nat /\ Len(engine) >= 1 /\ Len(engine') = Len(engine) - 1
      /\ \A i \in 1..Len(engine') : engine'[i] = engine[i + 1]
  BY <1>1, Popped DEF TrackInv, TrackTypes
<1>3. queue # <<>>
  BY <1>1, Requested
<1>4. /\ ~shifted /\ queue[1].fn = e.fn /\ (e.fn = "stop" => ok)
      /\ ok /\ e.fn # "update" => (status' <=> e.fn = "start")
      /\ (~ok \/ e.fn = "update") => UNCHANGED <<status, dropped>>
      /\ \A f : Due(f) /\ queue[1].fn # f => Due(f)'
  BY <1>1, <1>3, Answers
<1>5. /\ Called("start") \/ Asked("start") => queue[1].fn = "start"
      /\ (Runs \/ Called("start")) /\ Called("stop") => Due("stop")
      /\ Asked("start") /\ ~Runs => Due("stop")
      /\ Asked("stop") => ~Runs
      /\ ~dropped /\ Asked("start") => ~status
      /\ ~dropped /\ ~Due("start") /\ ~Due("stop") => (status <=> Runs)
  BY <1>1, <1>4 DEF TrackInv, Told
<1>6. Asked(e.fn) /\ \A f : Asked(f)' => Asked(f)
  <2>1. 1 \in 1..Len(engine)
    BY <1>2
  <2>2. Asked(e.fn)
    BY <2>1 DEF Asked, Is
  <2>3. \A f : Asked(f)' => Asked(f)
    BY <1>1, <1>2 DEF Asked, Is
  <2>. QED
    BY <2>2, <2>3
<1>7. ~Called("start")' /\ ~Called("start")
  <2>1. ASSUME NEW i \in 1..Len(calls), Is(calls[i], "start")  PROVE FALSE
    <3>1. engine[1].session # session
      BY <1>2, <2>1 DEF TrackInv, StartFirst
    <3>. QED
      BY <3>1
  <2>. QED
    BY <1>1, <2>1 DEF Called, Is
<1>8. (Called("stop")' <=> Called("stop")) /\ (Due("stop") /\ e.fn # "stop" => Due("stop")')
      /\ (Due("start") /\ e.fn # "start" => Due("start")')
  BY <1>1, <1>4 DEF Called, Is
<1>9. ~Asked("start")'
  <2>1. CASE e.fn = "start"
    <3>1. ASSUME NEW i \in 1..Len(engine'), Is(engine'[i], "start")  PROVE FALSE
      <4>1. /\ i + 1 \in 1..Len(engine) /\ Is(engine[i + 1], "start") /\ i + 1 # 1
            /\ 1 \in 1..Len(engine) /\ Is(engine[1], "start")
        BY <1>2, <2>1, <3>1 DEF Is
      <4>. QED
        BY <4>1 DEF TrackInv, StartFirst
    <3>. QED
      BY <1>1, <3>1 DEF Asked, Is
  <2>2. CASE e.fn # "start"
    BY <1>4, <1>5, <1>6, <2>2
  <2>. QED
    BY <2>1, <2>2
<1>10. /\ (Runs <=> live[session] # None) /\ (Runs' <=> live'[session] # None)
  BY <1>1 DEF Runs, G!running
<1>11. e.fn \in {"start", "update", "stop"}
  BY <1>1 DEF CallKind
<1>12. /\ e.fn = "start" /\ ~ok => ~Runs'
       /\ ~(e.fn = "start" /\ ~ok) => (Runs' <=> Runs)
  BY <1>1, <1>10, <1>11
<1>13. Heads'
  <2>1. Runs' /\ Called("stop")' => Due("stop")'
    BY <1>5, <1>6, <1>8, <1>11, <1>12
  <2>2. Asked("stop")' => ~Runs'
    BY <1>5, <1>6, <1>12
  <2>. QED
    BY <1>7, <1>9, <2>1, <2>2 DEF Heads
<1>14. Truth'
  <2>1. CASE e.fn = "start" /\ ok
    BY <1>4, <1>5, <1>6, <1>7, <1>8, <1>9, <1>12, <2>1 DEF Truth
  <2>2. CASE e.fn = "start" /\ ~ok
    BY <1>4, <1>5, <1>6, <1>7, <1>9, <1>12, <2>2 DEF Truth
  <2>3. CASE e.fn = "stop"
    BY <1>4, <1>5, <1>6, <1>7, <1>9, <1>12, <2>3 DEF Truth
  <2>4. CASE e.fn = "update"
    BY <1>4, <1>5, <1>7, <1>8, <1>9, <1>12, <2>4 DEF Truth
  <2>. QED
    BY <1>11, <2>1, <2>2, <2>3, <2>4
<1>. QED
  BY <1>13, <1>14

LEMMA EngineTellsBefore ==
  ASSUME SessionsBounded, TrackInv, NEW ok \in BOOLEAN, G!engineAnswers(ok), engine[1].session # session
  PROVE  Told'
<1>1. /\ UNCHANGED <<session, calls, queue, status, shifted, dropped>>
      /\ engine # <<>> /\ engine' = Tail(engine) /\ (revived => revived')
      /\ \A s \in G!Session : s # engine[1].session => live'[s] = live[s]
  BY EngineSays DEF G!respond, G!untold
<1>2. /\ Len(engine) \in Nat /\ Len(engine) >= 1 /\ Len(engine') = Len(engine) - 1
      /\ \A i \in 1..Len(engine') : engine'[i] = engine[i + 1]
      /\ \A j \in 1..Len(engine) : j # 1 => j - 1 \in 1..Len(engine') /\ engine'[j - 1] = engine[j]
  <2>1. /\ Len(engine) \in Nat /\ Len(engine) >= 1 /\ Len(engine') = Len(engine) - 1
        /\ \A i \in 1..Len(engine') : engine'[i] = engine[i + 1]
    BY <1>1, Popped DEF TrackInv, TrackTypes
  <2>. QED
    BY <2>1
<1>3. Runs' <=> Runs
  BY <1>1 DEF Runs, G!running
<1>4. \A f : Asked(f)' <=> Asked(f)
  <2>1. ASSUME NEW f, Asked(f)  PROVE Asked(f)'
    <3>1. PICK j \in 1..Len(engine) : Is(engine[j], f)
      BY <2>1 DEF Asked
    <3>2. j # 1
      BY <3>1 DEF Is
    <3>3. j - 1 \in 1..Len(engine') /\ engine'[j - 1] = engine[j]
      BY <1>2, <3>2
    <3>. QED
      BY <1>1, <3>1, <3>3 DEF Asked, Is
  <2>2. ASSUME NEW f, Asked(f)'  PROVE Asked(f)
    BY <1>1, <1>2, <2>2 DEF Asked, Is
  <2>. QED
    BY <2>1, <2>2
<1>5. /\ (Called("start")' <=> Called("start")) /\ (Called("stop")' <=> Called("stop"))
      /\ (Due("start")' <=> Due("start")) /\ (Due("stop")' <=> Due("stop"))
  BY <1>1 DEF Called, Due, Is
<1>. QED
  BY <1>1, <1>3, <1>4, <1>5 DEF TrackInv, Told

LEMMA EngineAnswers ==
  ASSUME SessionsBounded, TrackInv, NEW ok \in BOOLEAN, G!engineAnswers(ok)
  PROVE TrackInv'
<1>. DEFINE e == engine[1]
<1>1. /\ engine # <<>> /\ engine' = Tail(engine) /\ engine' \in Seq(Call)
      /\ e.fn \in CallKind /\ e.session \in G!Session /\ G!respond(e.fn, e.session, ok)
      /\ UNCHANGED <<session, calls, mTracking, mTrackingOptions, started, obituary, lateDeath>>
      /\ live' \in [G!Session -> Option \cup {None}]
      /\ \A s \in G!Session : s # e.session => live'[s] = live[s]
      /\ failed' = IF ok \/ e.session # session THEN failed ELSE failed \cup {e.fn}
      /\ revived' \in BOOLEAN /\ (revived => revived')
      /\ ~revived' /\ e.fn = "update" /\ ~ok => live[e.session] # None
      /\ e.fn = "start" /\ ~ok => live'[e.session] = None
      /\ e.fn = "update" /\ ~ok => live'[e.session] # None
      /\ e.fn = "stop" \/ ok => live' = live
  BY EngineSays
<1>2. queue' = IF engine[1].session # session \/ queue = <<>> THEN queue ELSE Tail(queue)
  BY <1>1 DEF G!respond, G!untold, G!answerHead
<1>3. \A s \in G!running' : s \in G!running \/ s = e.session
  BY <1>1 DEF G!running
<1>4. Messages' /\ Matched' /\ StartFirst'
  BY <1>1, <1>2, <1>3, EngineAnswered
<1>5. TrackTypes'
  <2>1. queue' \in Seq(Asking)
    BY <1>2, Popped DEF TrackInv, TrackTypes
  <2>2. {status', shifted', dropped'} \subseteq BOOLEAN
    BY Zenon, <1>1 DEF G!respond, G!untold, G!answerHead, TrackInv, TrackTypes
  <2>. QED
    BY <1>1, <2>1, <2>2 DEF TrackInv, TrackTypes
<1>6. Wanted'
  BY <1>1 DEF TrackInv, Wanted
<1>7. Stopped'
  <2>1. ~revived' => \A s \in G!running' : s \in G!running
    BY <1>1, <1>3 DEF G!running, CallKind
  <2>. QED
    BY <1>1, <2>1 DEF TrackInv, Stopped
<1>8. Runs /\ "start" \notin failed' => Runs'
  BY <1>1 DEF Runs, G!running, CallKind
<1>9. Started'
  <2>1. Called("stop")' <=> Called("stop")
    BY <1>1 DEF Called, Is
  <2>2. Called("start")' <=> Called("start")
    BY <1>1 DEF Called, Is
  <2>3. "start" \notin failed' => "start" \notin failed
    BY <1>1
  <2>. QED
    BY <1>1, <1>8, <2>1, <2>2, <2>3 DEF TrackInv, Started
<1>10. Options'
  <2>1. failed' = {} => failed = {} /\ (ok \/ e.session # session)
    BY Zenon, <1>1
  <2>2. Runs' /\ failed' = {} => Runs /\ live'[session] = live[session]
    BY Zenon, <1>1, <2>1 DEF Runs, G!running
  <2>. QED
    BY <1>1, <2>1, <2>2 DEF TrackInv, Options, Changes
<1>11. Told'
  BY EngineTells, EngineTellsBefore
<1>. QED
  BY <1>4, <1>5, <1>6, <1>7, <1>9, <1>10, <1>11 DEF TrackInv
------------------------------------------------------------------------------
LEMMA TrackNext == ASSUME SessionsBounded, TrackInv, G!Next  PROVE TrackInv'
  BY CallbackSet, TrackStarts, TrackStops, FrameworkGone, FrameworkMissed, ModeSet, EngineAnswers,
     Handles, TaskHandles DEF G!Next

LEMMA TrackUnchanged == ASSUME TrackInv, UNCHANGED G!vars  PROVE TrackInv'
<1>. USE DEF G!vars, G!client, G!clientHistory
<1>1. TrackTypes' /\ Wanted'
  BY DEF TrackInv, TrackTypes, Wanted
<1>2. Messages' /\ Matched' /\ StartFirst' /\ Stopped' /\ Started' /\ Options' /\ Told'
  BY NothingSent
<1>. QED
  BY <1>1, <1>2 DEF TrackInv

\* At rest nothing is called or asked, and no request waits.
LEMMA TrackingIsFollowedInv == ASSUME TrackInv  PROVE G!TrackingFollows
<1>. SUFFICES ASSUME G!atRest  PROVE G!SessionFollows /\ G!StatusFollows
  BY DEF G!TrackingFollows, G!SessionFollows, G!StatusFollows
<1>1. calls = <<>> /\ engine = <<>> /\ ~obituary /\ Len(calls) = 0 /\ Len(engine) = 0
  BY DEF G!atRest
<1>2. \A f : ~Called(f) /\ ~Asked(f)
  BY <1>1 DEF Called, Asked
<1>3. queue = <<>>
  <2>1. PICK a \in Nat, b \in Nat : Split(a, b)
    BY DEF TrackInv, Matched
  <2>2. Len(queue) = 0
    BY <1>1, <2>1 DEF Split
  <2>. QED
    BY <2>2 DEF TrackInv, TrackTypes
<1>4. G!SessionFollows
  <2>1. ~revived => G!running \subseteq {session} /\ (~started => G!running = {})
    BY <1>1 DEF TrackInv, Stopped, Wanted
  <2>2. started /\ "start" \notin failed /\ ~lateDeath => session \in G!running
    BY <1>2 DEF TrackInv, Wanted, Started, Runs
  <2>3. session \in G!running /\ failed = {} => live[session] = mTrackingOptions
    BY <1>1 DEF TrackInv, Options, Runs
  <2>. QED
    BY <2>1, <2>2, <2>3 DEF G!SessionFollows
<1>5. ASSUME ~shifted, ~dropped, ~revived  PROVE status = (G!running # {})
  <2>1. ~Due("start") /\ ~Due("stop")
    BY <1>3 DEF Due
  <2>2. status <=> Runs
    BY <1>5, <2>1 DEF TrackInv, Told
  <2>3. G!running \subseteq {session}
    BY <1>1, <1>5 DEF TrackInv, Stopped
  <2>4. status \in BOOLEAN
    BY DEF TrackInv, TrackTypes
  <2>. QED
    BY <2>2, <2>3, <2>4 DEF Runs
<1>. QED
  BY <1>3, <1>4, <1>5 DEF G!StatusFollows

\* However calls, answers at once or behind the engine, refusals and the death of
\* the framework interleave: when all is answered the adapter runs the last
\* session exactly if the framework did not stop it since, with the options set
\* last, and the framework was told so, but for the cases the property names
\* (GnssAPIClient.cpp, LocationAPIClientBase.cpp).  The hypotheses: the sessions
\* are numbered, and None stands for no options.
THEOREM TrackingIsFollowed ==
  ASSUME SessionsBounded  PROVE Spec => []TrackingFollows
<1>. DEFINE Inv == part = "gnss" => TrackInv
<1>1. Init => Inv
  BY TrackInit DEF Init
<1>2. Inv /\ [Next]_<<part, ni, observer, display, xtra, gnss, batch, reports>> => Inv'
  <2> SUFFICES ASSUME Inv, part' = "gnss",
                      [Next]_<<part, ni, observer, display, xtra, gnss, batch, reports>>
               PROVE  TrackInv'
    OBVIOUS
  <2>1. part = "gnss" /\ (G!Next \/ UNCHANGED gnss)
    BY DEF Next, Ni, Items, Display, Xtra, Gnss, Batch, Reports
  <2>2. UNCHANGED gnss => UNCHANGED G!vars
    BY DEF gnss, G!vars, G!client, G!clientHistory
  <2>. QED
    BY <2>1, <2>2, TrackNext, TrackUnchanged
<1>3. Inv => TrackingFollows
  BY TrackingIsFollowedInv DEF TrackingFollows
<1>. QED
  BY <1>1, <1>2, <1>3, PTL DEF Spec
------------------------------------------------------------------------------
(* The batching session.  While the client knows the session of each call  *)
(* on its way, and each has a request (Attributed), the requests are those *)
(* calls in their order, the client knows the last session only, and the   *)
(* engine runs it from the answer of its start to that of its stop; there  *)
(* is one exactly if it is wanted or its stop is due (BatchWanted), and a  *)
(* report is due for each flush and each stop (Owed).  Answers that were   *)
(* mixed up, or are about to be, end what is promised.                     *)

\* The calls, and those on their way to the engine or back.
BatchFn == {"start", "update", "stop", "get"}
BatchCall == [fn : BatchFn, session : 0..MaxSessions]

\* Sessions are numbered, and None is none of them.
BatchNumbered == MaxSessions \in Nat /\ None \notin 0..MaxSessions

BatchTypes ==
  /\ {cached, batching, flushed, stopping, swallowed, gone, overtaken, refused, idle} \subseteq BOOLEAN
  /\ mState \in {"STARTED", "STOPPING", "STOPPED"}
  /\ sessions \in 0..MaxSessions /\ flushes \in Nat
  /\ dict \in [forward : {None} \cup 0..MaxSessions, backward : SUBSET (1..MaxSessions)]
  /\ removing \in {None} \cup 0..MaxSessions
  /\ requests \in Seq(BatchFn) /\ batchCalls \in Seq(BatchCall) /\ batchEngine \in Seq(BatchCall)

\* No session is of a number to come.
Numbers ==
  /\ \A s \in dict.backward : s <= sessions
  /\ dict.forward # None => dict.forward <= sessions
  /\ \A i \in 1..Len(batchCalls) : batchCalls[i].session <= sessions
  /\ \A i \in 1..Len(batchEngine) : batchEngine[i].session <= sessions

\* Until answers are mixed up there are no fewer calls on their way than requests.
Balanced == ~C!mixed => Len(requests) <= Len(batchCalls) + Len(batchEngine)

\* Just as many, and each of a session that the client knows.  Otherwise the
\* answers will be mixed up before all is at rest.
Attributed ==
  /\ ~C!mixed /\ Len(requests) = Len(batchCalls) + Len(batchEngine)
  /\ \A i \in 1..Len(batchCalls) : batchCalls[i].session \in dict.backward
  /\ \A i \in 1..Len(batchEngine) : batchEngine[i].session \in dict.backward

\* Then the client knows the last session, or none;
OneSession ==
  /\ \/ dict.forward = None /\ dict.backward = {}
     \/ dict.forward = sessions /\ dict.backward = {sessions}
  /\ removing # None => removing = sessions /\ dict.backward = {sessions}

\* the requests are those calls, in their order;
InOrder ==
  /\ \A i \in 1..Len(batchEngine) : requests[i] = batchEngine[i].fn
  /\ \A i \in 1..Len(batchCalls) : requests[Len(batchEngine) + i] = batchCalls[i].fn

\* the engine runs the session once it was started, until it is removed;
StartDue == requests # <<>> /\ requests[1] = "start"
Pending(fn) == \E i \in 1..Len(requests) : requests[i] = fn
EngineRuns ==
  /\ running = IF dict.backward = {} \/ removing # None \/ StartDue THEN {} ELSE {sessions}
  /\ \A i \in 2..Len(requests) : requests[i] # "start"

\* there is a session exactly if it is wanted, or its stop is on its way;
BatchWanted == ~swallowed /\ ~refused =>
  (batching <=> dict.backward # {} /\ removing = None /\ ~stopping /\ ~Pending("stop"))

\* and a report is to come for a flush and one for a stop.
TwoPending == \E i, j \in 1..Len(requests) : i < j /\ requests[i] = "get" /\ requests[j] = "get"
Owed == ~refused /\ ~idle =>
  /\ (flushed \/ mState = "STOPPING") => flushes > 0 \/ Pending("get")
  /\ flushed /\ mState = "STOPPING" =>
       \/ flushes > 1
       \/ flushes > 0 /\ Pending("get")
       \/ TwoPending

BatchInv ==
  /\ BatchTypes /\ Numbers /\ Balanced
  /\ Attributed => OneSession /\ InOrder /\ EngineRuns /\ BatchWanted /\ Owed

LEMMA BatchInit == ASSUME BatchNumbered  PROVE C!Init => BatchInv
<1>. SUFFICES ASSUME C!Init  PROVE BatchInv
  OBVIOUS
<1>. USE DEF C!Init
<1>1. /\ batchCalls = <<>> /\ batchEngine = <<>> /\ requests = <<>>
      /\ Len(batchCalls) = 0 /\ Len(batchEngine) = 0 /\ Len(requests) = 0
      /\ batchCalls \in Seq(BatchCall) /\ batchEngine \in Seq(BatchCall) /\ requests \in Seq(BatchFn)
  OBVIOUS
<1>2. dict.forward = None /\ dict.backward = {}
      /\ dict \in [forward : {None} \cup 0..MaxSessions, backward : SUBSET (1..MaxSessions)]
  OBVIOUS
<1>3. BatchTypes
  <2>1. sessions \in 0..MaxSessions /\ flushes \in Nat /\ removing \in {None} \cup 0..MaxSessions
    BY DEF BatchNumbered
  <2>2. {cached, batching, flushed, stopping, swallowed, gone, overtaken, refused, idle} \subseteq BOOLEAN
    BY Zenon
  <2>3. mState \in {"STARTED", "STOPPING", "STOPPED"}
    OBVIOUS
  <2>. QED
    BY <1>1, <1>2, <2>1, <2>2, <2>3 DEF BatchTypes
<1>4. Numbers /\ Balanced /\ OneSession /\ InOrder
  BY <1>1, <1>2 DEF Numbers, Balanced, OneSession, InOrder
<1>5. ~Pending("get") /\ ~Pending("stop") /\ ~StartDue
  BY <1>1 DEF Pending, StartDue
<1>6. EngineRuns /\ BatchWanted /\ Owed
  BY <1>1, <1>2, <1>5 DEF EngineRuns, BatchWanted, Owed
<1>. QED
  BY <1>3, <1>4, <1>6 DEF BatchInv

\* What depends on the calls and the sessions only.
LEMMA BatchKept ==
  ASSUME BatchInv, UNCHANGED <<sessions, dict, requests, removing, batchCalls, batchEngine, running,
                               gone, overtaken>>
  PROVE  /\ Numbers' /\ Balanced'
         /\ Attributed' => Attributed /\ OneSession' /\ InOrder' /\ EngineRuns'
         /\ \A f : Pending(f)' <=> Pending(f)
         /\ TwoPending' <=> TwoPending
<1>1. Numbers' /\ Balanced'
  BY DEF BatchInv, Numbers, Balanced, C!mixed
<1>2. (Attributed' <=> Attributed) /\ (StartDue' <=> StartDue)
  BY DEF Attributed, C!mixed, StartDue
<1>3. OneSession' <=> OneSession
  BY DEF OneSession
<1>4. InOrder' <=> InOrder
  BY DEF InOrder
<1>5. EngineRuns' <=> EngineRuns
  BY <1>2 DEF EngineRuns
<1>6. /\ \A f : Pending(f)' <=> Pending(f)
      /\ TwoPending' <=> TwoPending
  BY DEF Pending, TwoPending
<1>. QED
  BY <1>1, <1>2, <1>3, <1>4, <1>5, <1>6 DEF BatchInv
------------------------------------------------------------------------------
(* The framework.                                                          *)

\* A call of the session the client knows, of none, or of one that is made up.
LEMMA BatchCalled ==
  ASSUME BatchNumbered, BatchInv, NEW fn \in BatchFn, fn # "start", C!request(fn),
         UNCHANGED <<sessions, batchEngine, running, gone, overtaken>>
  PROVE  /\ dict' \in [forward : {None} \cup 0..MaxSessions, backward : SUBSET (1..MaxSessions)]
         /\ removing' \in {None} \cup 0..MaxSessions
         /\ requests' \in Seq(BatchFn) /\ batchCalls' \in Seq(BatchCall)
         /\ Numbers' /\ Balanced'
         /\ Attributed' =>
              /\ Attributed /\ UNCHANGED <<dict, removing>>
              /\ OneSession' /\ InOrder' /\ EngineRuns'
              /\ \A f : Pending(f)' <=> Pending(f) \/ (f = fn /\ dict.forward # None)
              /\ TwoPending \/ (fn = "get" /\ dict.forward # None /\ Pending("get")) =>
                   TwoPending'
              /\ dict.forward # None <=> dict.backward # {}
<1>1. PICK s \in {None} \cup 0..MaxSessions :
        /\ C!getExtById(s)
        /\ IF s = None THEN UNCHANGED <<requests, batchCalls>> ELSE C!push(fn) /\ C!call(fn, s)
  BY DEF C!request
<1>2. CASE s = None
  <2>1. s # 0
    BY <1>2 DEF BatchNumbered
  <2>2. s = dict.forward /\ UNCHANGED <<dict, removing, requests, batchCalls>>
    BY <1>1, <1>2, <2>1 DEF C!getExtById
  <2>3. /\ Numbers' /\ Balanced'
        /\ Attributed' => Attributed /\ OneSession' /\ InOrder' /\ EngineRuns'
        /\ \A f : Pending(f)' <=> Pending(f)
        /\ TwoPending' <=> TwoPending
    BY <2>2, BatchKept
  <2>4. BatchTypes
    BY DEF BatchInv
  <2>5. Attributed => (dict.forward # None <=> dict.backward # {})
    BY <1>2, <2>2, <2>4 DEF BatchInv, OneSession, BatchNumbered, BatchTypes
  <2>. QED
    BY <1>2, <2>2, <2>3, <2>4, <2>5 DEF BatchTypes
<1>3. CASE s # None
  <2>. DEFINE m == [fn |-> fn, session |-> s]
  <2>1. s \in 0..MaxSessions /\ m \in BatchCall /\ m.fn = fn /\ m.session = s
    BY <1>1, <1>3 DEF BatchCall
  <2>2. batchCalls' = Append(batchCalls, m) /\ requests' = Append(requests, fn)
    BY <1>1, <1>3 DEF C!push, C!call
  <2>. HIDE DEF m
  <2>3. /\ requests' \in Seq(BatchFn) /\ batchCalls' \in Seq(BatchCall)
        /\ Len(batchCalls) \in Nat /\ Len(batchEngine) \in Nat /\ Len(requests) \in Nat
        /\ Len(batchCalls') = Len(batchCalls) + 1 /\ Len(requests') = Len(requests) + 1
        /\ \A i \in 1..Len(batchCalls) : batchCalls'[i] = batchCalls[i]
        /\ batchCalls'[Len(batchCalls) + 1] = m
        /\ \A i \in 1..Len(requests) : requests'[i] = requests[i]
        /\ requests'[Len(requests) + 1] = fn
    BY <2>1, <2>2, Pushed DEF BatchInv, BatchTypes
  <2>4. Balanced'
    BY <2>3 DEF BatchInv, Balanced, C!mixed
  <2>5. dict.backward \in SUBSET (1..MaxSessions) /\ dict.forward \in {None} \cup 0..MaxSessions
        /\ dict \in [forward : {None} \cup 0..MaxSessions, backward : SUBSET (1..MaxSessions)]
    BY DEF BatchInv, BatchTypes
  <2>6. CASE s = dict.forward /\ UNCHANGED <<dict, removing>>
    <3>1. ASSUME Attributed'
          PROVE  /\ Attributed /\ dict.backward = {sessions} /\ s = sessions
                 /\ OneSession' /\ InOrder' /\ EngineRuns'
      <4>1. Attributed
        BY <2>3, <2>6, <3>1 DEF Attributed, C!mixed
      <4>2. dict.backward = {sessions} /\ s = sessions
        BY <1>3, <2>6, <4>1 DEF BatchInv, OneSession
      <4>3. OneSession'
        BY <2>6, <4>1 DEF BatchInv, OneSession
      <4>4. Len(requests) = Len(batchCalls) + Len(batchEngine)
        BY <4>1 DEF Attributed
      <4>5. InOrder'
        <5>1. \A i \in 1..Len(batchEngine) : requests'[i] = batchEngine[i].fn
          BY <2>3, <4>1, <4>4 DEF BatchInv, InOrder
        <5>2. \A i \in 1..Len(batchCalls) : requests'[Len(batchEngine) + i] = batchCalls[i].fn
          BY <2>3, <4>1, <4>4 DEF BatchInv, InOrder
        <5>3. requests'[Len(batchEngine) + (Len(batchCalls) + 1)] = fn
          BY <2>3, <4>4
        <5>4. \A i \in 1..Len(batchCalls') : i \in 1..Len(batchCalls) \/ i = Len(batchCalls) + 1
          BY <2>3
        <5>5. \A i \in 1..Len(batchCalls') : requests'[Len(batchEngine) + i] = batchCalls'[i].fn
          BY Zenon, <2>1, <2>3, <5>2, <5>3, <5>4
        <5>. QED
          BY <5>1, <5>5 DEF InOrder
      <4>6. EngineRuns'
        <5>1. StartDue' <=> StartDue
          BY <2>3 DEF StartDue, BatchInv, BatchTypes
        <5>2. \A i \in 2..Len(requests') : requests'[i] # "start"
          BY <2>3, <4>1 DEF BatchInv, EngineRuns
        <5>. QED
          BY <2>6, <4>1, <5>1, <5>2 DEF BatchInv, EngineRuns
      <4>. QED
        BY <4>1, <4>2, <4>3, <4>5, <4>6
    <3>2. Numbers'
      <4>1. s <= sessions
        BY <1>3, <2>6 DEF BatchInv, Numbers
      <4>2. \A i \in 1..Len(batchCalls') : i \in 1..Len(batchCalls) \/ i = Len(batchCalls) + 1
        BY <2>3
      <4>3. \A i \in 1..Len(batchCalls') : batchCalls'[i].session <= sessions
        BY Zenon, <2>1, <2>3, <4>1, <4>2 DEF BatchInv, Numbers
      <4>. QED
        BY <2>6, <4>3 DEF BatchInv, Numbers
    <3>3. \A f : Pending(f)' <=> Pending(f) \/ f = fn
      <4>1. \A i \in 1..Len(requests') : i \in 1..Len(requests) \/ i = Len(requests) + 1
        BY <2>3
      <4>2. Len(requests) + 1 \in 1..Len(requests') /\ 1..Len(requests) \subseteq 1..Len(requests')
        BY <2>3
      <4>3. ASSUME NEW f  PROVE Pending(f)' => Pending(f) \/ f = fn
        BY Zenon, <2>3, <4>1 DEF Pending
      <4>4. ASSUME NEW f  PROVE Pending(f) \/ f = fn => Pending(f)'
        BY <2>3, <4>2 DEF Pending
      <4>. QED
        BY <4>3, <4>4
    <3>4. TwoPending \/ (fn = "get" /\ Pending("get")) => TwoPending'
      BY <2>3 DEF TwoPending, Pending
    <3>. QED
      BY Zenon, <1>3, <2>3, <2>4, <2>5, <2>6, <3>1, <3>2, <3>3, <3>4 DEF BatchInv, BatchTypes
  <2>7. CASE /\ s = 0 /\ removing \in dict.backward /\ dict.forward # None
             /\ dict' = [C!rmBySession(dict, removing) EXCEPT !.forward = 0] /\ removing' = None
    <3>1. dict' = [forward |-> 0, backward |-> dict.backward \ {removing}]
      BY <2>7 DEF C!rmBySession
    <3>5. 0 \in {None} \cup 0..MaxSessions
      BY <2>1, <2>7
    <3>6. dict.backward \ {removing} \in SUBSET (1..MaxSessions)
      BY <2>5
    <3>2. /\ dict'.backward = dict.backward \ {removing} /\ dict'.forward = 0
          /\ dict' \in [forward : {None} \cup 0..MaxSessions, backward : SUBSET (1..MaxSessions)]
      BY <3>1, <3>5, <3>6
    <3>3. ~Attributed'
      <4>1. Len(batchCalls) + 1 \in 1..Len(batchCalls') /\ 0 \notin dict'.backward
        BY <2>3, <2>5, <3>2
      <4>. QED
        BY <2>1, <2>3, <2>7, <4>1 DEF Attributed
    <3>4. Numbers'
      <4>1. \A i \in 1..Len(batchCalls') : i \in 1..Len(batchCalls) \/ i = Len(batchCalls) + 1
        BY <2>3
      <4>2. 0 <= sessions
        BY DEF BatchInv, BatchTypes
      <4>3. \A i \in 1..Len(batchCalls') : batchCalls'[i].session <= sessions
        BY <2>1, <2>3, <2>7, <4>1, <4>2 DEF BatchInv, Numbers
      <4>4. /\ \A k \in dict'.backward : k <= sessions
            /\ dict'.forward # None => dict'.forward <= sessions
        BY <3>2, <4>2 DEF BatchInv, Numbers
      <4>. QED
        BY <4>3, <4>4 DEF BatchInv, Numbers
    <3>. QED
      BY <2>3, <2>4, <2>7, <3>2, <3>3, <3>4
  <2>. QED
    BY <1>1, <2>6, <2>7 DEF C!getExtById
<1>. QED
  BY <1>2, <1>3

\* Each call is of some session.
LEMMA BatchCalls ==
  ASSUME BatchTypes
  PROVE  /\ \A i \in 1..Len(batchCalls) : batchCalls[i].session \in 0..MaxSessions /\ batchCalls[i].fn \in BatchFn
         /\ \A i \in 1..Len(batchEngine) : batchEngine[i].session \in 0..MaxSessions /\ batchEngine[i].fn \in BatchFn
<1>1. (\A i \in 1..Len(batchCalls) : batchCalls[i] \in BatchCall)
      /\ (\A i \in 1..Len(batchEngine) : batchEngine[i] \in BatchCall)
  BY DEF BatchTypes
<1>. QED
  BY <1>1 DEF BatchCall

LEMMA BatchStarts == ASSUME BatchNumbered, BatchInv, C!start  PROVE BatchInv'
<1>. USE DEF C!start
<1>0. BatchTypes /\ Numbers /\ Balanced
  BY DEF BatchInv
<1>1. CASE dict.forward # None
  <2>1. UNCHANGED <<C!client, batchCalls>> /\ swallowed' = TRUE
    BY <1>1
  <2>2. BatchTypes'
    BY <1>0, <2>1 DEF BatchTypes, C!client
  <2>3. /\ Numbers' /\ Balanced'
        /\ Attributed' => Attributed /\ OneSession' /\ InOrder' /\ EngineRuns'
        /\ \A f : Pending(f)' <=> Pending(f)
    BY <2>1, BatchKept DEF C!client
  <2>4. BatchWanted'
    BY <2>1 DEF BatchWanted
  <2>5. Attributed' => Owed'
    BY <2>3 DEF BatchInv, Owed
  <2>. QED
    BY <2>2, <2>3, <2>4, <2>5 DEF BatchInv
<1>2. CASE dict.forward = None
  <2>. DEFINE m == [fn |-> "start", session |-> sessions + 1]
  <2>1. /\ sessions < MaxSessions /\ sessions' = sessions + 1
        /\ batchCalls' = Append(batchCalls, m) /\ requests' = Append(requests, "start")
        /\ dict' = [forward |-> sessions + 1, backward |-> dict.backward \cup {sessions + 1}]
        /\ mState' = "STARTED" /\ batching' = TRUE /\ ~stopping /\ ~C!mixed
        /\ UNCHANGED <<cached, flushed, stopping, removing, flushes, batchEngine, known, running,
                       gone,
                       swallowed, overtaken, refused, idle>>
    BY <1>2 DEF C!call, C!push, C!room
  <2>2. sessions \in Nat /\ sessions + 1 \in 1..MaxSessions
    BY <1>0, <2>1 DEF BatchTypes, BatchNumbered
  <2>3. /\ dict'.forward = sessions + 1 /\ dict'.backward = dict.backward \cup {sessions + 1}
        /\ dict' \in [forward : {None} \cup 0..MaxSessions, backward : SUBSET (1..MaxSessions)]
    <3>1. /\ sessions + 1 \in {None} \cup 0..MaxSessions
          /\ dict.backward \cup {sessions + 1} \in SUBSET (1..MaxSessions)
      BY <1>0, <2>2 DEF BatchTypes
    <3>. QED
      BY <2>1, <3>1
  <2>4. m \in BatchCall /\ m.fn = "start" /\ m.session = sessions + 1
    BY <2>2 DEF BatchCall, BatchFn
  <2>. HIDE DEF m
  <2>5. /\ requests' \in Seq(BatchFn) /\ batchCalls' \in Seq(BatchCall)
        /\ Len(batchCalls) \in Nat /\ Len(batchEngine) \in Nat /\ Len(requests) \in Nat
        /\ Len(batchCalls') = Len(batchCalls) + 1 /\ Len(requests') = Len(requests) + 1
        /\ \A i \in 1..Len(batchCalls) : batchCalls'[i] = batchCalls[i]
        /\ batchCalls'[Len(batchCalls) + 1] = m
        /\ \A i \in 1..Len(requests) : requests'[i] = requests[i]
        /\ requests'[Len(requests) + 1] = "start"
    BY <1>0, <2>1, <2>4, Pushed DEF BatchTypes, BatchFn
  <2>6. BatchTypes'
    <3>1. sessions' \in 0..MaxSessions
      BY <2>1, <2>2
    <3>2. mState' \in {"STARTED", "STOPPING", "STOPPED"} /\ batching' \in BOOLEAN
      BY <2>1
    <3>. QED
      BY <1>0, <2>1, <2>3, <2>5, <3>1, <3>2 DEF BatchTypes
  <2>7. \A i \in 1..Len(batchCalls') : i \in 1..Len(batchCalls) \/ i = Len(batchCalls) + 1
    BY <2>5
  <2>8. Numbers'
    <3>1. \A i \in 1..Len(batchCalls) : batchCalls[i].session <= sessions + 1
      BY <1>0, <2>2, BatchCalls DEF Numbers
    <3>2. \A i \in 1..Len(batchEngine) : batchEngine[i].session <= sessions + 1
      BY <1>0, <2>2, BatchCalls DEF Numbers
    <3>3. \A s \in dict'.backward : s <= sessions + 1
      BY <1>0, <2>2, <2>3 DEF Numbers, BatchTypes
    <3>4. \A i \in 1..Len(batchCalls') : batchCalls'[i].session <= sessions + 1
      BY <2>2, <2>4, <2>5, <2>7, <3>1
    <3>5. dict'.forward # None => dict'.forward <= sessions + 1
      BY <2>2, <2>3
    <3>. QED
      BY <2>1, <3>2, <3>3, <3>4, <3>5 DEF Numbers
  <2>9. Balanced'
    BY <1>0, <2>1, <2>5 DEF Balanced, C!mixed
  <2>10. ASSUME Attributed'  PROVE OneSession' /\ InOrder' /\ EngineRuns' /\ BatchWanted' /\ Owed'
    <3>1. Attributed
      <4>1. \A i \in 1..Len(batchCalls) : batchCalls[i].session \in dict.backward
        <5>1. \A i \in 1..Len(batchCalls) : batchCalls[i].session \in dict'.backward
          BY <2>5, <2>10 DEF Attributed
        <5>2. \A i \in 1..Len(batchCalls) : batchCalls[i].session \in Nat /\ batchCalls[i].session <= sessions
          BY <1>0, BatchCalls DEF Numbers
        <5>. QED
          BY <2>2, <2>3, <5>1, <5>2
      <4>2. \A i \in 1..Len(batchEngine) : batchEngine[i].session \in dict.backward
        <5>1. \A i \in 1..Len(batchEngine) : batchEngine[i].session \in dict'.backward
          BY <2>1, <2>10 DEF Attributed
        <5>2. \A i \in 1..Len(batchEngine) : batchEngine[i].session \in Nat /\ batchEngine[i].session <= sessions
          BY <1>0, BatchCalls DEF Numbers
        <5>. QED
          BY <2>2, <2>3, <5>1, <5>2
      <4>3. Len(requests) = Len(batchCalls) + Len(batchEngine)
        BY <2>1, <2>5, <2>10 DEF Attributed
      <4>. QED
        BY <2>1, <4>1, <4>2, <4>3 DEF Attributed
    <3>2. dict.backward = {} /\ removing = None
      BY Zenon, <1>2, <2>2, <3>1 DEF BatchInv, OneSession, BatchTypes, BatchNumbered
    <3>3. Len(batchCalls) = 0 /\ Len(batchEngine) = 0 /\ Len(requests) = 0
      <4>1. Len(batchCalls) > 0 => 1 \in 1..Len(batchCalls)
        BY <2>5
      <4>2. Len(batchEngine) > 0 => 1 \in 1..Len(batchEngine)
        BY <2>5
      <4>. QED
        BY <2>5, <3>1, <3>2, <4>1, <4>2 DEF Attributed
    <3>4. Len(batchCalls') = 1 /\ Len(requests') = 1 /\ requests'[1] = "start" /\ batchCalls'[1].fn = "start"
          /\ Len(batchEngine') = 0
      BY <2>1, <2>4, <2>5, <3>3
    <3>5. OneSession'
      BY <2>1, <2>3, <3>2 DEF OneSession
    <3>6. InOrder'
      BY <2>1, <3>4 DEF InOrder
    <3>7. EngineRuns'
      <4>1. StartDue'
        BY <2>5, <3>4 DEF StartDue
      <4>2. running = {}
        BY <3>1, <3>2 DEF BatchInv, EngineRuns
      <4>. QED
        BY <2>1, <3>4, <4>1, <4>2 DEF EngineRuns
    <3>8. ~Pending("stop")' /\ ~Pending("get")
      BY <3>3, <3>4 DEF Pending
    <3>9. BatchWanted'
      BY <2>1, <2>3, <3>2, <3>8 DEF BatchWanted
    <3>10. Owed'
      BY <2>1, <3>1, <3>8 DEF BatchInv, Owed
    <3>. QED
      BY <3>5, <3>6, <3>7, <3>9, <3>10
  <2>. QED
    BY <2>6, <2>8, <2>9, <2>10 DEF BatchInv
<1>. QED
  BY <1>1, <1>2

LEMMA BatchUpdates == ASSUME BatchNumbered, BatchInv, C!update  PROVE BatchInv'
<1>1. /\ C!request("update") /\ "update" \in BatchFn
      /\ UNCHANGED <<mState, cached, batching, flushed, stopping, sessions, flushes, batchEngine,
                     known,
                     running, swallowed, gone, overtaken, refused, idle>>
  BY DEF C!update, C!framework, BatchFn
<1>2. /\ dict' \in [forward : {None} \cup 0..MaxSessions, backward : SUBSET (1..MaxSessions)]
      /\ removing' \in {None} \cup 0..MaxSessions
      /\ requests' \in Seq(BatchFn) /\ batchCalls' \in Seq(BatchCall)
      /\ Numbers' /\ Balanced'
      /\ Attributed' =>
           /\ Attributed /\ UNCHANGED <<dict, removing>>
           /\ OneSession' /\ InOrder' /\ EngineRuns'
           /\ \A f : Pending(f)' <=> Pending(f) \/ (f = "update" /\ dict.forward # None)
           /\ TwoPending => TwoPending'
  BY <1>1, BatchCalled
<1>3. BatchTypes'
  BY <1>1, <1>2 DEF BatchInv, BatchTypes
<1>4. Attributed' => BatchWanted' /\ Owed'
  <2>. SUFFICES ASSUME Attributed'  PROVE BatchWanted' /\ Owed'
    OBVIOUS
  <2>1. (Pending("get")' <=> Pending("get")) /\ (Pending("stop")' <=> Pending("stop"))
    BY <1>2
  <2>2. BatchWanted'
    BY <1>1, <1>2, <2>1 DEF BatchInv, BatchWanted
  <2>3. Owed'
    BY <1>1, <1>2, <2>1 DEF BatchInv, Owed
  <2>. QED
    BY <2>2, <2>3
<1>. QED
  BY <1>2, <1>3, <1>4 DEF BatchInv

LEMMA BatchStops == ASSUME BatchNumbered, BatchInv, C!stop  PROVE BatchInv'
<1>1. /\ C!request("get") /\ "get" \in BatchFn
      /\ mState' = "STOPPING" /\ batching' = FALSE /\ stopping' = TRUE
      /\ idle' = (idle \/ dict.forward = None)
      /\ UNCHANGED <<cached, flushed, sessions, flushes, batchEngine, known, running, swallowed,
                     gone,
                     overtaken, refused>>
  BY DEF C!stop, BatchFn
<1>2. /\ dict' \in [forward : {None} \cup 0..MaxSessions, backward : SUBSET (1..MaxSessions)]
      /\ removing' \in {None} \cup 0..MaxSessions
      /\ requests' \in Seq(BatchFn) /\ batchCalls' \in Seq(BatchCall)
      /\ Numbers' /\ Balanced'
      /\ Attributed' =>
           /\ Attributed
           /\ OneSession' /\ InOrder' /\ EngineRuns'
           /\ \A f : Pending(f)' <=> Pending(f) \/ (f = "get" /\ dict.forward # None)
           /\ dict.forward # None /\ Pending("get") => TwoPending'
  BY <1>1, BatchCalled
<1>3. BatchTypes'
  BY Zenon, <1>1, <1>2 DEF BatchInv, BatchTypes
<1>4. Attributed' => BatchWanted' /\ Owed'
  <2>. SUFFICES ASSUME Attributed'  PROVE BatchWanted' /\ Owed'
    OBVIOUS
  <2>1. BatchWanted'
    BY <1>1 DEF BatchWanted
  <2>2. ASSUME ~refused, ~idle, dict.forward # None  PROVE Pending("get")' /\
          (flushed => flushes > 0 \/ TwoPending')
    BY <1>2, <2>2 DEF BatchInv, Owed
  <2>3. Owed'
    BY Zenon, <1>1, <2>2 DEF Owed
  <2>. QED
    BY <2>1, <2>3
<1>. QED
  BY <1>2, <1>3, <1>4 DEF BatchInv

LEMMA BatchStopsThen == ASSUME BatchNumbered, BatchInv, C!stopAfterGet  PROVE BatchInv'
<1>1. /\ C!request("stop") /\ "stop" \in BatchFn /\ stopping /\ stopping' = FALSE
      /\ UNCHANGED <<mState, cached, batching, flushed, sessions, flushes, batchEngine, known,
                     running,
                     swallowed, gone, overtaken, refused, idle>>
  BY DEF C!stopAfterGet, BatchFn
<1>2. /\ dict' \in [forward : {None} \cup 0..MaxSessions, backward : SUBSET (1..MaxSessions)]
      /\ removing' \in {None} \cup 0..MaxSessions
      /\ requests' \in Seq(BatchFn) /\ batchCalls' \in Seq(BatchCall)
      /\ Numbers' /\ Balanced'
      /\ Attributed' =>
           /\ Attributed /\ UNCHANGED <<dict, removing>>
           /\ OneSession' /\ InOrder' /\ EngineRuns'
           /\ \A f : Pending(f)' <=> Pending(f) \/ (f = "stop" /\ dict.forward # None)
           /\ TwoPending => TwoPending'
           /\ dict.forward # None <=> dict.backward # {}
  BY <1>1, BatchCalled
<1>3. BatchTypes'
  BY Zenon, <1>1, <1>2 DEF BatchInv, BatchTypes
<1>4. Attributed' => BatchWanted' /\ Owed'
  <2>. SUFFICES ASSUME Attributed'  PROVE BatchWanted' /\ Owed'
    OBVIOUS
  <2>1. (Pending("get")' <=> Pending("get"))
        /\ (Pending("stop")' <=> Pending("stop") \/ dict.backward # {})
    BY <1>2
  <2>2. BatchWanted'
    BY <1>1, <1>2, <2>1 DEF BatchInv, BatchWanted
  <2>3. Owed'
    BY <1>1, <1>2, <2>1 DEF BatchInv, Owed
  <2>. QED
    BY <2>2, <2>3
<1>. QED
  BY <1>2, <1>3, <1>4 DEF BatchInv

LEMMA BatchFlushes == ASSUME BatchNumbered, BatchInv, C!flush  PROVE BatchInv'
<1>1. /\ C!request("get") /\ "get" \in BatchFn /\ ~flushed /\ flushed' = TRUE
      /\ flushes' = IF dict.forward = None THEN flushes + 1 ELSE flushes
      /\ UNCHANGED <<mState, cached, batching, stopping, sessions, batchEngine, known, running,
                     swallowed,
                     gone, overtaken, refused, idle>>
  BY DEF C!flush, BatchFn
<1>2. /\ dict' \in [forward : {None} \cup 0..MaxSessions, backward : SUBSET (1..MaxSessions)]
      /\ removing' \in {None} \cup 0..MaxSessions
      /\ requests' \in Seq(BatchFn) /\ batchCalls' \in Seq(BatchCall)
      /\ Numbers' /\ Balanced'
      /\ Attributed' =>
           /\ Attributed /\ UNCHANGED <<dict, removing>>
           /\ OneSession' /\ InOrder' /\ EngineRuns'
           /\ \A f : Pending(f)' <=> Pending(f) \/ (f = "get" /\ dict.forward # None)
           /\ dict.forward # None /\ Pending("get") => TwoPending'
  BY <1>1, BatchCalled
<1>3. flushes \in Nat /\ flushes' \in Nat
  BY <1>1 DEF BatchInv, BatchTypes
<1>4. BatchTypes'
  BY <1>1, <1>2, <1>3 DEF BatchInv, BatchTypes
<1>5. Attributed' => BatchWanted' /\ Owed'
  <2>. SUFFICES ASSUME Attributed'  PROVE BatchWanted' /\ Owed'
    OBVIOUS
  <2>1. (Pending("stop")' <=> Pending("stop"))
        /\ (Pending("get")' <=> Pending("get") \/ dict.forward # None)
    BY <1>2
  <2>2. BatchWanted'
    BY <1>1, <1>2, <2>1 DEF BatchInv, BatchWanted
  <2>3. ~refused /\ ~idle /\ mState = "STOPPING" => flushes > 0 \/ Pending("get")
    BY <1>2 DEF BatchInv, Owed
  <2>4. CASE dict.forward = None
    <3>1. flushes' > 0 /\ (flushes > 0 => flushes' > 1)
      BY <1>1, <1>3, <2>4
    <3>. QED
      BY <1>1, <2>1, <2>2, <2>3, <3>1 DEF Owed
  <2>5. CASE dict.forward # None
    <3>1. Pending("get")' /\ flushes' = flushes /\ (Pending("get") => TwoPending')
      BY <1>1, <1>2, <2>1, <2>5
    <3>. QED
      BY <1>1, <2>2, <2>3, <3>1 DEF Owed
  <2>. QED
    BY <2>4, <2>5
<1>. QED
  BY <1>2, <1>4, <1>5 DEF BatchInv

LEMMA BatchThread == ASSUME BatchNumbered, BatchInv, C!thread  PROVE BatchInv'
<1>. USE DEF C!thread, C!onBatchingCb, C!client, C!adapter, C!history
<1>1. flushes \in Nat /\ flushes' \in Nat /\ flushes > 0 /\ flushes' = flushes - 1
  BY DEF BatchInv, BatchTypes
<1>2. BatchTypes'
  BY Zenon, <1>1 DEF BatchInv, BatchTypes
<1>3. /\ Numbers' /\ Balanced'
      /\ Attributed' => Attributed /\ OneSession' /\ InOrder' /\ EngineRuns'
      /\ \A f : Pending(f)' <=> Pending(f)
      /\ TwoPending' <=> TwoPending
  BY BatchKept
<1>4. Attributed' => BatchWanted'
  <2>1. Pending("stop")' <=> Pending("stop")
    BY <1>3
  <2>. QED
    BY <1>3, <2>1 DEF BatchInv, BatchWanted
<1>5. Attributed' => Owed'
  <2>. SUFFICES ASSUME Attributed'  PROVE Owed'
    OBVIOUS
  <2>1. (Pending("get")' <=> Pending("get")) /\ (TwoPending => Pending("get"))
    BY <1>3 DEF TwoPending, Pending
  <2>2. Owed
    BY <1>3 DEF BatchInv
  <2>3. CASE mState = "STOPPING"
    <3>1. mState' = "STOPPED" /\ flushed' = flushed /\ UNCHANGED <<refused, idle>>
      BY <2>3
    <3>2. flushes > 1 => flushes' > 0
      BY <1>1
    <3>. QED
      BY <2>1, <2>2, <2>3, <3>1, <3>2 DEF Owed
  <2>4. CASE mState # "STOPPING"
    BY <2>4 DEF Owed
  <2>. QED
    BY <2>3, <2>4
<1>. QED
  BY <1>2, <1>3, <1>4, <1>5 DEF BatchInv

------------------------------------------------------------------------------
(* The task of the adapter.                                                *)

LEMMA BatchRemoves == ASSUME BatchNumbered, BatchInv, C!removeSession  PROVE BatchInv'
<1>1. /\ removing # None /\ removing' = None
      /\ dict' = IF removing \in dict.backward THEN C!rmBySession(dict, removing) ELSE dict
      /\ UNCHANGED <<mState, cached, batching, flushed, stopping, sessions, requests, flushes,
                     batchCalls,
                     batchEngine, known, running, swallowed, gone, overtaken, refused, idle>>
  BY DEF C!removeSession, C!framework, C!adapter, C!history
<1>2. dict \in [forward : {None} \cup 0..MaxSessions, backward : SUBSET (1..MaxSessions)]
  BY DEF BatchInv, BatchTypes
<1>3. /\ dict' \in [forward : {None} \cup 0..MaxSessions, backward : SUBSET (1..MaxSessions)]
      /\ dict'.backward \subseteq dict.backward
      /\ dict'.forward \in {None, dict.forward}
      /\ removing \in dict.backward /\ dict.forward # None =>
           dict'.forward = None /\ dict'.backward = dict.backward \ {removing}
  <2>1. CASE removing \in dict.backward
    <3>1. dict' = [forward |-> IF dict.forward # None THEN None ELSE dict.forward,
                   backward |-> dict.backward \ {removing}]
      BY <1>1, <2>1 DEF C!rmBySession
    <3>. QED
      BY <1>2, <3>1
  <2>2. CASE removing \notin dict.backward
    BY <1>1, <1>2, <2>2
  <2>. QED
    BY <2>1, <2>2
<1>4. BatchTypes'
  BY <1>1, <1>3 DEF BatchInv, BatchTypes
<1>5. Numbers' /\ Balanced'
  BY <1>1, <1>3 DEF BatchInv, Numbers, Balanced, C!mixed
<1>6. ASSUME Attributed'  PROVE OneSession' /\ InOrder' /\ EngineRuns' /\ BatchWanted' /\ Owed'
  <2>1. Attributed
    BY <1>1, <1>3, <1>6 DEF Attributed, C!mixed
  <2>2. removing = sessions /\ dict.backward = {sessions} /\ dict.forward # None
    BY <1>1, <2>1 DEF BatchInv, OneSession, BatchTypes, BatchNumbered
  <2>3. dict'.forward = None /\ dict'.backward = {}
    BY <1>3, <2>2
  <2>4. Len(requests) = 0
    <3>1. Len(batchCalls) \in Nat /\ Len(batchEngine) \in Nat /\ Len(requests) = Len(batchCalls) + Len(batchEngine)
      BY <2>1 DEF Attributed, BatchInv, BatchTypes
    <3>2. 1 \notin 1..Len(batchCalls) /\ 1 \notin 1..Len(batchEngine)
      BY <1>1, <1>6, <2>3 DEF Attributed
    <3>. QED
      BY <3>1, <3>2
  <2>5. OneSession'
    BY <1>1, <2>3 DEF OneSession
  <2>6. InOrder'
    BY <1>1, <2>1 DEF BatchInv, InOrder
  <2>7. EngineRuns'
    <3>1. running = {}
      BY <1>1, <2>1 DEF BatchInv, EngineRuns
    <3>. QED
      BY <1>1, <2>3, <2>4, <3>1 DEF EngineRuns
  <2>8. BatchWanted'
    BY <1>1, <2>1, <2>3 DEF BatchInv, BatchWanted
  <2>9. Owed'
    <3>1. (Pending("get")' <=> Pending("get")) /\ (TwoPending' <=> TwoPending)
      BY <1>1 DEF Pending, TwoPending
    <3>. QED
      BY <1>1, <2>1, <3>1 DEF BatchInv, Owed
  <2>. QED
    BY <2>5, <2>6, <2>7, <2>8, <2>9
<1>. QED
  BY <1>4, <1>5, <1>6 DEF BatchInv

\* A call that is passed to the engine keeps its place before those that follow.
LEMMA BatchAsked ==
  ASSUME BatchNumbered, BatchInv, batchCalls # <<>>, batchCalls' = Tail(batchCalls), C!ask(Head(batchCalls)),
         UNCHANGED <<sessions, dict, requests, removing, running, gone, overtaken>>
  PROVE  /\ batchCalls' \in Seq(BatchCall) /\ batchEngine' \in Seq(BatchCall)
         /\ Numbers' /\ Balanced'
         /\ Attributed' => Attributed /\ OneSession' /\ InOrder' /\ EngineRuns'
         /\ \A f : Pending(f)' <=> Pending(f)
         /\ TwoPending' <=> TwoPending
<1>. DEFINE c == batchCalls[1]
<1>1. /\ batchCalls' \in Seq(BatchCall) /\ Len(batchCalls) \in Nat /\ Len(batchCalls) >= 1
      /\ Len(batchCalls') = Len(batchCalls) - 1 /\ Head(batchCalls) = c /\ c \in BatchCall
      /\ \A i \in 1..Len(batchCalls') : batchCalls'[i] = batchCalls[i + 1]
  BY Popped DEF BatchInv, BatchTypes
<1>2. batchEngine' = Append(batchEngine, c)
  BY <1>1 DEF C!ask
<1>3. /\ batchEngine' \in Seq(BatchCall) /\ Len(batchEngine) \in Nat /\ Len(batchEngine') = Len(batchEngine) + 1
      /\ \A i \in 1..Len(batchEngine) : batchEngine'[i] = batchEngine[i]
      /\ batchEngine'[Len(batchEngine) + 1] = c
  BY <1>1, <1>2, Pushed DEF BatchInv, BatchTypes
<1>4. /\ \A i \in 1..Len(batchCalls') : i + 1 \in 1..Len(batchCalls)
      /\ \A i \in 1..Len(batchCalls) : i # 1 => i - 1 \in 1..Len(batchCalls') /\ batchCalls'[i - 1] = batchCalls[i]
      /\ 1 \in 1..Len(batchCalls)
      /\ \A i \in 1..Len(batchEngine') : i \in 1..Len(batchEngine) \/ i = Len(batchEngine) + 1
      /\ Len(batchEngine) + 1 \in 1..Len(batchEngine') /\ 1..Len(batchEngine) \subseteq 1..Len(batchEngine')
  BY <1>1, <1>3
<1>. HIDE DEF c
<1>5. c = batchCalls[1]
  BY DEF c
<1>6. Numbers'
  <2>1. \A i \in 1..Len(batchCalls') : batchCalls'[i].session <= sessions
    BY <1>1, <1>4 DEF BatchInv, Numbers
  <2>2. \A i \in 1..Len(batchEngine') : batchEngine'[i].session <= sessions
    BY <1>3, <1>4, <1>5 DEF BatchInv, Numbers
  <2>. QED
    BY <2>1, <2>2 DEF BatchInv, Numbers
<1>7. Balanced'
  BY <1>1, <1>3 DEF BatchInv, Balanced, C!mixed, BatchTypes
<1>8. Attributed' => Attributed
  <2>. SUFFICES ASSUME Attributed'  PROVE Attributed
    OBVIOUS
  <2>1. \A i \in 1..Len(batchEngine) : batchEngine[i].session \in dict.backward
    BY <1>3, <1>4 DEF Attributed
  <2>2. \A i \in 1..Len(batchCalls) : batchCalls[i].session \in dict.backward
    <3>1. c.session \in dict.backward
      BY <1>3, <1>4 DEF Attributed
    <3>2. ASSUME NEW i \in 1..Len(batchCalls), i # 1  PROVE batchCalls[i].session \in dict.backward
      BY Zenon, <1>4, <3>2 DEF Attributed
    <3>. QED
      BY <1>5, <3>1, <3>2
  <2>3. ~C!mixed /\ Len(requests) = Len(batchCalls) + Len(batchEngine)
    BY <1>1, <1>3 DEF Attributed, C!mixed
  <2>. QED
    BY Zenon, <2>1, <2>2, <2>3 DEF Attributed
<1>9. Attributed => InOrder'
  <2>. SUFFICES ASSUME Attributed  PROVE InOrder'
    OBVIOUS
  <2>1. /\ \A i \in 1..Len(batchEngine) : requests[i] = batchEngine[i].fn
        /\ \A i \in 1..Len(batchCalls) : requests[Len(batchEngine) + i] = batchCalls[i].fn
    BY DEF BatchInv, InOrder
  <2>2. \A i \in 1..Len(batchEngine') : requests[i] = batchEngine'[i].fn
    <3>1. requests[Len(batchEngine) + 1] = batchCalls[1].fn
      BY <1>4, <2>1
    <3>2. \A i \in 1..Len(batchEngine) : requests[i] = batchEngine'[i].fn
      BY Zenon, <1>3, <2>1
    <3>. QED
      BY <1>3, <1>4, <1>5, <3>1, <3>2
  <2>3. \A i \in 1..Len(batchCalls') : requests[Len(batchEngine') + i] = batchCalls'[i].fn
    <3>1. \A i \in 1..Len(batchCalls') : Len(batchEngine') + i = Len(batchEngine) + (i + 1)
      BY <1>1, <1>3
    <3>. QED
      BY <1>1, <1>4, <2>1, <3>1
  <2>. QED
    BY Zenon, <2>2, <2>3 DEF InOrder
<1>10. /\ OneSession' <=> OneSession
       /\ EngineRuns' <=> EngineRuns
       /\ \A f : Pending(f)' <=> Pending(f)
       /\ TwoPending' <=> TwoPending
  BY DEF OneSession, EngineRuns, StartDue, Pending, TwoPending
<1>. QED
  BY <1>1, <1>3, <1>6, <1>7, <1>8, <1>9, <1>10 DEF BatchInv

\* What the requests tell is then as before.
LEMMA BatchMoved ==
  ASSUME BatchNumbered, BatchInv, batchCalls # <<>>, batchCalls' = Tail(batchCalls), C!ask(Head(batchCalls)),
         UNCHANGED <<C!framework, C!client, removing, flushes, running, C!history>>
  PROVE  BatchInv'
<1>. USE DEF C!framework, C!client, C!history
<1>1. /\ batchCalls' \in Seq(BatchCall) /\ batchEngine' \in Seq(BatchCall)
      /\ Numbers' /\ Balanced'
      /\ Attributed' => Attributed /\ OneSession' /\ InOrder' /\ EngineRuns'
      /\ \A f : Pending(f)' <=> Pending(f)
      /\ TwoPending' <=> TwoPending
  BY BatchAsked
<1>2. BatchTypes'
  BY <1>1 DEF BatchInv, BatchTypes
<1>3. (Pending("get")' <=> Pending("get")) /\ (Pending("stop")' <=> Pending("stop"))
  BY <1>1
<1>4. Attributed' => BatchWanted'
  BY <1>1, <1>3 DEF BatchInv, BatchWanted
<1>5. Attributed' => Owed'
  BY <1>1, <1>3 DEF BatchInv, Owed
<1>. QED
  BY <1>1, <1>2, <1>4, <1>5 DEF BatchInv

\* Once answers are mixed up nothing is promised.
LEMMA BatchMixed ==
  ASSUME BatchNumbered, BatchInv, batchCalls # <<>>, batchCalls' = Tail(batchCalls), gone' \/ overtaken',
         {gone', overtaken'} \subseteq BOOLEAN,
         requests' \in Seq(BatchFn), removing' \in {None} \cup 0..MaxSessions,
         UNCHANGED <<C!framework, sessions, dict, flushes, batchEngine, swallowed, refused, idle>>
  PROVE  BatchInv'
<1>1. /\ batchCalls' \in Seq(BatchCall) /\ Len(batchCalls) \in Nat /\ Len(batchCalls') = Len(batchCalls) - 1
      /\ \A i \in 1..Len(batchCalls') : batchCalls'[i] = batchCalls[i + 1]
  BY Popped DEF BatchInv, BatchTypes
<1>2. BatchTypes'
  BY <1>1 DEF BatchInv, BatchTypes, C!framework
<1>3. Numbers'
  <2>1. \A i \in 1..Len(batchCalls') : i + 1 \in 1..Len(batchCalls)
    BY <1>1
  <2>. QED
    BY <1>1, <2>1 DEF BatchInv, Numbers
<1>4. Balanced' /\ ~Attributed'
  BY DEF Balanced, Attributed, C!mixed
<1>. QED
  BY <1>2, <1>3, <1>4 DEF BatchInv

LEMMA BatchTask ==
  ASSUME BatchNumbered, BatchInv,
         C!MsgStartBatching \/ C!MsgStopBatching \/ C!MsgUpdateBatching \/ C!MsgGetBatchedLocations
  PROVE  BatchInv'
<1>0. {gone, overtaken} \subseteq BOOLEAN /\ requests \in Seq(BatchFn)
      /\ removing \in {None} \cup 0..MaxSessions
      /\ dict.backward \subseteq 0..MaxSessions
  BY DEF BatchInv, BatchTypes
<1>1. CASE C!MsgStartBatching
  BY <1>1, BatchMoved DEF C!MsgStartBatching, C!next
<1>2. ASSUME NEW fn, C!stopBatching(fn)  PROVE BatchInv'
  <2>1. CASE Head(batchCalls).session \in known
    BY <1>2, <2>1, BatchMoved DEF C!stopBatching, C!next, C!history
  <2>2. CASE Head(batchCalls).session \notin known
    BY <1>0, <1>2, <2>2, BatchMixed DEF C!stopBatching, C!next, C!client
  <2>. QED
    BY <2>1, <2>2
<1>3. CASE C!MsgGetBatchedLocations
  <2>1. CASE Head(batchCalls).session \in known
    BY <1>3, <2>1, BatchMoved DEF C!MsgGetBatchedLocations, C!next, C!history, C!client
  <2>2. CASE Head(batchCalls).session \notin known
    <3>1. C!respond(Head(batchCalls).session, FALSE)
      BY Zenon, <1>3, <2>2 DEF C!MsgGetBatchedLocations
    <3>2. requests' \in Seq(BatchFn) /\ gone' \in BOOLEAN
      BY Zenon, <1>0, <3>1, Popped DEF C!respond
    <3>3. removing' \in {None} \cup 0..MaxSessions
      BY <1>0, <3>1 DEF C!respond
    <3>. QED
      BY <1>0, <1>3, <2>2, <3>2, <3>3, BatchMixed DEF C!MsgGetBatchedLocations, C!next
  <2>. QED
    BY <2>1, <2>2
<1>. QED
  BY <1>1, <1>2, <1>3 DEF C!MsgStopBatching, C!MsgUpdateBatching

\* An answer, where the session and the requests are as they should be.
LEMMA BatchAnswered ==
  ASSUME BatchNumbered, BatchInv, NEW ok \in BOOLEAN, batchEngine # <<>>, removing = None,
         C!respond(Head(batchEngine).session, ok),
         UNCHANGED <<sessions, dict, batchCalls, overtaken>>
  PROVE  /\ requests' \in Seq(BatchFn) /\ removing' \in {None} \cup 0..MaxSessions
         /\ gone' \in BOOLEAN
         /\ ~gone' => Len(requests) >= 1 /\ Len(requests') = Len(requests) - 1 /\ gone' = gone
         /\ Attributed =>
              /\ Len(requests) >= 1 /\ requests[1] = Head(batchEngine).fn
              /\ Head(batchEngine).session = sessions /\ dict.backward = {sessions}
              /\ dict.forward = sessions /\ ~gone'
              /\ removing' = IF Head(batchEngine).fn = (IF ok THEN "stop" ELSE "start")
                             THEN sessions ELSE None
              /\ ~StartDue'
              /\ \A i \in 2..Len(requests') : requests'[i] # "start"
              /\ \A f : Pending(f)' => Pending(f)
              /\ \A f : f # requests[1] => (Pending(f) => Pending(f)')
              /\ TwoPending => Pending("get")'
              /\ requests[1] # "get" /\ TwoPending => TwoPending'
<1>0. BatchTypes
  BY DEF BatchInv
<1>1. /\ Head(batchEngine) = batchEngine[1] /\ Len(batchEngine) \in Nat /\ Len(batchEngine) >= 1
      /\ batchEngine[1] \in BatchCall /\ 1 \in 1..Len(batchEngine)
  BY <1>0, Popped DEF BatchTypes
<1>2. batchEngine[1].session \in 0..MaxSessions /\ batchEngine[1].fn \in BatchFn
  BY <1>1 DEF BatchCall
<1>3. CASE batchEngine[1].session \notin dict.backward \/ requests = <<>>
  <2>1. gone' = TRUE /\ UNCHANGED <<requests, removing>>
    BY <1>1, <1>3 DEF C!respond
  <2>2. ASSUME Attributed  PROVE FALSE
    <3>1. batchEngine[1].session \in dict.backward /\ Len(requests) = Len(batchCalls) + Len(batchEngine)
      BY <1>1, <2>2 DEF Attributed
    <3>2. requests # <<>>
      BY <1>0, <1>1, <3>1 DEF BatchTypes
    <3>. QED
      BY <1>3, <3>1, <3>2
  <2>. QED
    BY <1>0, <2>1, <2>2 DEF BatchTypes
<1>4. CASE ~(batchEngine[1].session \notin dict.backward \/ requests = <<>>)
  <2>1. /\ requests' = Tail(requests) /\ gone' = gone
        /\ removing' = IF Head(requests) = (IF ok THEN "stop" ELSE "start")
                       THEN batchEngine[1].session ELSE None
    BY <1>1, <1>4 DEF C!respond
  <2>2. /\ requests' \in Seq(BatchFn) /\ Len(requests) \in Nat /\ Len(requests) >= 1
        /\ Len(requests') = Len(requests) - 1 /\ Head(requests) = requests[1]
        /\ \A i \in 1..Len(requests') : requests'[i] = requests[i + 1]
    BY <1>0, <1>4, <2>1, Popped DEF BatchTypes
  <2>3. /\ \A i \in 1..Len(requests') : i + 1 \in 2..Len(requests)
        /\ \A i \in 1..Len(requests) : i # 1 =>
             i - 1 \in 1..Len(requests') /\ requests'[i - 1] = requests[i]
        /\ 1 \in 1..Len(requests)
    BY <2>2
  <2>4. removing' \in {None} \cup 0..MaxSessions
    BY <1>2, <2>1
  <2>5. gone' \in BOOLEAN
    BY <1>0, <2>1 DEF BatchTypes
  <2>6. ASSUME Attributed
        PROVE  /\ requests[1] = batchEngine[1].fn /\ batchEngine[1].session = sessions
               /\ dict.backward = {sessions} /\ dict.forward = sessions /\ ~gone'
               /\ \A i \in 2..Len(requests) : requests[i] # "start"
    <3>1. batchEngine[1].session \in dict.backward
      BY <1>1, <2>6 DEF Attributed
    <3>2. dict.backward = {sessions} /\ dict.forward = sessions
      BY <2>6, <3>1 DEF BatchInv, OneSession
    <3>3. requests[1] = batchEngine[1].fn
      BY <1>1, <2>6 DEF BatchInv, InOrder
    <3>4. ~gone'
      BY <2>1, <2>6 DEF Attributed, C!mixed
    <3>5. \A i \in 2..Len(requests) : requests[i] # "start"
      BY <2>6 DEF BatchInv, EngineRuns
    <3>. QED
      BY <3>1, <3>2, <3>3, <3>4, <3>5
  <2>7. ASSUME Attributed
        PROVE  ~StartDue' /\ \A i \in 2..Len(requests') : requests'[i] # "start"
    <3>1. \A i \in 1..Len(requests') : requests'[i] # "start"
      BY <2>2, <2>3, <2>6, <2>7
    <3>2. requests' # <<>> => 1 \in 1..Len(requests')
      BY <2>2
    <3>. QED
      BY <2>2, <3>1, <3>2 DEF StartDue
  <2>8. \A f : Pending(f)' => Pending(f)
    <3>1. 2..Len(requests) \subseteq 1..Len(requests)
      BY <2>2
    <3>. QED
      BY <2>2, <2>3, <3>1 DEF Pending
  <2>9. \A f : f # requests[1] => (Pending(f) => Pending(f)')
    <3>. SUFFICES ASSUME NEW f, f # requests[1], NEW i \in 1..Len(requests), requests[i] = f
                  PROVE  Pending(f)'
      BY Zenon DEF Pending
    <3>1. i # 1
      OBVIOUS
    <3>. QED
      BY Zenon, <2>3, <3>1 DEF Pending
  <2>10. /\ TwoPending => Pending("get")'
         /\ requests[1] # "get" /\ TwoPending => TwoPending'
    <3>. SUFFICES ASSUME TwoPending
                  PROVE  Pending("get")' /\ (requests[1] # "get" => TwoPending')
      OBVIOUS
    <3>1. PICK i, j \in 1..Len(requests) : i < j /\ requests[i] = "get" /\ requests[j] = "get"
      BY DEF TwoPending
    <3>2. j # 1
      BY <2>2, <3>1
    <3>3. j - 1 \in 1..Len(requests') /\ requests'[j - 1] = "get"
      BY <2>3, <3>1, <3>2
    <3>4. Pending("get")'
      BY <3>3 DEF Pending
    <3>5. ASSUME requests[1] # "get"  PROVE TwoPending'
      <4>1. i # 1 /\ i - 1 < j - 1
        BY <3>1, <3>5
      <4>2. i - 1 \in 1..Len(requests') /\ requests'[i - 1] = "get"
        BY <2>3, <3>1, <4>1
      <4>. QED
        BY Zenon, <3>3, <4>1, <4>2 DEF TwoPending
    <3>. QED
      BY <3>4, <3>5
  <2>11. ASSUME Attributed
         PROVE  removing' = IF batchEngine[1].fn = (IF ok THEN "stop" ELSE "start") THEN sessions ELSE None
    BY <2>1, <2>2, <2>6, <2>11
  <2>. QED
    BY <1>1, <2>1, <2>2, <2>4, <2>5, <2>6, <2>7, <2>8, <2>9, <2>10, <2>11
<1>. QED
  BY <1>3, <1>4

\* Where the engine is done with the call, what is left is in its order.
LEMMA BatchDone ==
  ASSUME BatchNumbered, BatchInv, NEW ok \in BOOLEAN, batchEngine # <<>>, removing = None,
         C!respond(Head(batchEngine).session, ok), batchEngine' = Tail(batchEngine),
         UNCHANGED <<sessions, dict, batchCalls, overtaken>>
  PROVE  /\ batchEngine' \in Seq(BatchCall) /\ Numbers' /\ Balanced'
         /\ Attributed' => Attributed /\ InOrder' /\ OneSession'
<1>0. BatchTypes
  BY DEF BatchInv
<1>1. /\ Len(batchCalls) \in Nat /\ Len(requests) \in Nat
      /\ ~gone' => Len(requests) >= 1 /\ Len(requests') = Len(requests) - 1 /\ gone' = gone
      /\ Attributed =>
              /\ Len(requests) >= 1 /\ requests[1] = Head(batchEngine).fn
              /\ Head(batchEngine).session = sessions /\ dict.backward = {sessions}
              /\ dict.forward = sessions /\ ~gone'
              /\ removing' = IF Head(batchEngine).fn = (IF ok THEN "stop" ELSE "start")
                             THEN sessions ELSE None
  BY <1>0, BatchAnswered DEF BatchTypes
<1>2. /\ batchEngine' \in Seq(BatchCall) /\ Len(batchEngine) \in Nat /\ Len(batchEngine) >= 1
      /\ Len(batchEngine') = Len(batchEngine) - 1 /\ Head(batchEngine) = batchEngine[1]
      /\ \A i \in 1..Len(batchEngine') : batchEngine'[i] = batchEngine[i + 1]
  BY <1>0, Popped DEF BatchTypes
<1>3. /\ \A i \in 1..Len(batchEngine') : i + 1 \in 1..Len(batchEngine)
      /\ \A i \in 1..Len(batchEngine) : i # 1 =>
             i - 1 \in 1..Len(batchEngine') /\ batchEngine'[i - 1] = batchEngine[i]
      /\ 1 \in 1..Len(batchEngine)
  BY <1>2
<1>4. Numbers'
  <2>1. \A i \in 1..Len(batchEngine') : batchEngine'[i].session <= sessions
    BY <1>2, <1>3 DEF BatchInv, Numbers
  <2>. QED
    BY <2>1 DEF BatchInv, Numbers
<1>5. Balanced'
  BY <1>1, <1>2 DEF BatchInv, Balanced, C!mixed
<1>6. ASSUME Attributed'  PROVE Attributed
  <2>1. ~gone' /\ ~C!mixed
    BY <1>1, <1>6 DEF Attributed, C!mixed
  <2>2. C!respond(Head(batchEngine).session, ok) /\ Head(batchEngine).session \in dict.backward
    BY <2>1 DEF C!respond
  <2>3. \A i \in 1..Len(batchEngine) : batchEngine[i].session \in dict.backward
    <3>1. ASSUME NEW i \in 1..Len(batchEngine), i # 1  PROVE batchEngine[i].session \in dict.backward
      BY Zenon, <1>3, <1>6, <3>1 DEF Attributed
    <3>. QED
      BY <1>2, <2>2, <3>1
  <2>4. Len(requests) = Len(batchCalls) + Len(batchEngine)
    BY <1>1, <1>2, <1>6, <2>1 DEF Attributed
  <2>5. \A i \in 1..Len(batchCalls) : batchCalls[i].session \in dict.backward
    BY <1>6 DEF Attributed
  <2>. QED
    BY <2>1, <2>3, <2>4, <2>5 DEF Attributed
<1>7. ASSUME Attributed, ~gone'  PROVE InOrder'
  <2>1. requests' = Tail(requests) /\ requests # <<>>
    BY <1>7 DEF C!respond
  <2>2. \A i \in 1..Len(requests') : requests'[i] = requests[i + 1]
    BY <1>0, <1>1, <1>7, <2>1, Popped DEF BatchTypes
  <2>3. Len(requests') = Len(batchCalls) + Len(batchEngine')
    BY <1>1, <1>2, <1>7 DEF Attributed
  <2>4. \A i \in 1..Len(batchEngine') : requests'[i] = batchEngine'[i].fn
    <3>1. 1..Len(batchEngine') \subseteq 1..Len(requests')
      BY <1>1, <1>2, <2>3
    <3>. QED
      BY <1>2, <1>3, <1>7, <2>2, <3>1 DEF BatchInv, InOrder
  <2>5. \A i \in 1..Len(batchCalls') : requests'[Len(batchEngine') + i] = batchCalls'[i].fn
    <3>. SUFFICES ASSUME NEW i \in 1..Len(batchCalls)
                  PROVE  requests'[Len(batchEngine') + i] = batchCalls[i].fn
      BY Zenon
    <3>1. Len(batchEngine') + i \in 1..Len(requests') /\ (Len(batchEngine') + i) + 1 = Len(batchEngine) + i
      BY <1>1, <1>2, <2>3
    <3>2. requests[Len(batchEngine) + i] = batchCalls[i].fn
      BY <1>7 DEF BatchInv, InOrder
    <3>. QED
      BY <2>2, <3>1, <3>2
  <2>. QED
    BY <2>4, <2>5 DEF InOrder
<1>8. ASSUME Attributed  PROVE OneSession'
  <2>1. removing' \in {sessions, None}
    BY <1>1, <1>8
  <2>. QED
    BY <1>1, <1>8, <2>1 DEF OneSession
<1>9. Attributed' => ~gone'
  BY DEF Attributed, C!mixed
<1>. QED
  BY <1>2, <1>4, <1>5, <1>6, <1>7, <1>8, <1>9

LEMMA BatchRan ==
  ASSUME BatchNumbered, BatchInv, NEW ok \in BOOLEAN, C!startAnswered(ok)
  PROVE  BatchInv'
<1>. DEFINE s == Head(batchEngine).session
<1>0. BatchTypes
  BY DEF BatchInv
<1>1. /\ removing = None /\ batchEngine # <<>> /\ Head(batchEngine).fn = "start" /\ batchEngine' = Tail(batchEngine)
      /\ running' = (IF ok THEN running \cup {s} ELSE running)
      /\ refused' = (refused \/ ~ok) /\ C!respond(s, ok)
      /\ UNCHANGED <<mState, cached, batching, flushed, stopping, sessions, dict, flushes,
                     batchCalls,
                     swallowed, overtaken, idle>>
  BY DEF C!startAnswered, C!answer, C!framework
<1>. HIDE DEF s
<1>2. s = Head(batchEngine).session
  BY DEF s
<1>3. /\ requests' \in Seq(BatchFn) /\ removing' \in {None} \cup 0..MaxSessions
      /\ gone' \in BOOLEAN
      /\ Attributed =>
           /\ Len(requests) >= 1 /\ requests[1] = "start" /\ s = sessions
           /\ dict.backward = {sessions}
           /\ removing' = IF ok THEN None ELSE sessions
           /\ ~StartDue' /\ \A i \in 2..Len(requests') : requests'[i] # "start"
           /\ \A f : Pending(f)' => Pending(f)
           /\ \A f : f # "start" => (Pending(f) => Pending(f)')
           /\ TwoPending => TwoPending'
  BY <1>1, <1>2, BatchAnswered
<1>4. /\ batchEngine' \in Seq(BatchCall) /\ Numbers' /\ Balanced'
      /\ Attributed' => Attributed /\ InOrder' /\ OneSession'
  BY <1>1, <1>2, BatchDone
<1>5. BatchTypes'
  <2>1. refused' \in BOOLEAN
    BY <1>0, <1>1 DEF BatchTypes
  <2>. QED
    BY <1>0, <1>1, <1>3, <1>4, <2>1 DEF BatchTypes
<1>6. ASSUME Attributed'  PROVE EngineRuns' /\ BatchWanted' /\ Owed'
  <2>1. Attributed
    BY <1>4, <1>6
  <2>2. sessions # None
    BY <1>0 DEF BatchTypes, BatchNumbered
  <2>3. EngineRuns'
    <3>1. requests # <<>>
      BY <1>3, <2>1
    <3>2. running = {}
      BY <1>3, <2>1, <3>1 DEF BatchInv, EngineRuns, StartDue
    <3>3. running' = IF dict.backward = {} \/ removing' # None THEN {} ELSE {sessions}
      BY Zenon, <1>1, <1>3, <2>1, <2>2, <3>2
    <3>. QED
      BY Zenon, <1>1, <1>3, <2>1, <3>3 DEF EngineRuns
  <2>4. (Pending("get")' <=> Pending("get")) /\ (Pending("stop")' <=> Pending("stop"))
    BY <1>3, <2>1
  <2>5. BatchWanted'
    BY Zenon, <1>1, <1>3, <2>1, <2>4 DEF BatchInv, BatchWanted
  <2>6. Owed'
    BY Zenon, <1>1, <1>3, <2>1, <2>4 DEF BatchInv, Owed
  <2>. QED
    BY <2>3, <2>5, <2>6
<1>. QED
  BY <1>4, <1>5, <1>6 DEF BatchInv

LEMMA BatchStopped ==
  ASSUME BatchNumbered, BatchInv, NEW ok \in BOOLEAN, NEW fn \in {"stop", "update"},
         fn = "stop" \/ ~ok, C!stopAnswered(fn, ok)
  PROVE  BatchInv'
<1>. DEFINE s == Head(batchEngine).session
<1>0. BatchTypes
  BY DEF BatchInv
<1>1. /\ removing = None /\ batchEngine # <<>> /\ Head(batchEngine).fn = fn /\ batchEngine' = Tail(batchEngine)
      /\ running' = (IF ok THEN running \ {s} ELSE running)
      /\ refused' = (refused \/ ~ok) /\ C!respond(s, ok)
      /\ UNCHANGED <<mState, cached, batching, flushed, stopping, sessions, dict, flushes,
                     batchCalls,
                     swallowed, overtaken, idle>>
  BY DEF C!stopAnswered, C!answer, C!framework
<1>. HIDE DEF s
<1>2. s = Head(batchEngine).session
  BY DEF s
<1>3. /\ requests' \in Seq(BatchFn) /\ removing' \in {None} \cup 0..MaxSessions
      /\ gone' \in BOOLEAN
      /\ Attributed =>
           /\ Len(requests) >= 1 /\ requests[1] = fn /\ s = sessions
           /\ dict.backward = {sessions}
           /\ removing' = IF ok THEN sessions ELSE None
           /\ ~StartDue' /\ \A i \in 2..Len(requests') : requests'[i] # "start"
           /\ \A f : Pending(f)' => Pending(f)
           /\ \A f : f # fn => (Pending(f) => Pending(f)')
           /\ TwoPending => TwoPending'
  BY <1>1, <1>2, BatchAnswered
<1>4. /\ batchEngine' \in Seq(BatchCall) /\ Numbers' /\ Balanced'
      /\ Attributed' => Attributed /\ InOrder' /\ OneSession'
  BY <1>1, <1>2, BatchDone
<1>5. BatchTypes'
  <2>1. refused' \in BOOLEAN
    BY <1>0, <1>1 DEF BatchTypes
  <2>. QED
    BY <1>0, <1>1, <1>3, <1>4, <2>1 DEF BatchTypes
<1>6. ASSUME Attributed'  PROVE EngineRuns' /\ BatchWanted' /\ Owed'
  <2>1. Attributed
    BY <1>4, <1>6
  <2>2. sessions # None /\ Len(requests) \in Nat
    BY <1>0 DEF BatchTypes, BatchNumbered
  <2>3. EngineRuns'
    <3>1. ~StartDue
      BY <1>3, <2>1 DEF StartDue
    <3>2. running = {sessions}
      BY Zenon, <1>1, <1>3, <2>1, <2>2, <3>1 DEF BatchInv, EngineRuns
    <3>3. running' = IF dict.backward = {} \/ removing' # None THEN {} ELSE {sessions}
      BY Zenon, <1>1, <1>3, <2>1, <2>2, <3>2
    <3>. QED
      BY Zenon, <1>1, <1>3, <2>1, <3>3 DEF EngineRuns
  <2>4. (Pending("get")' <=> Pending("get"))
    BY <1>3, <2>1
  <2>5. BatchWanted'
    <3>1. ASSUME ok  PROVE Pending("stop") /\ removing' # None
      <4>1. 1 \in 1..Len(requests)
        BY <1>3, <2>1, <2>2
      <4>. QED
        BY <1>3, <2>1, <2>2, <3>1, <4>1 DEF Pending
    <3>2. CASE ok
      BY Zenon, <1>1, <1>3, <2>1, <3>1, <3>2 DEF BatchInv, BatchWanted
    <3>3. CASE ~ok
      BY Zenon, <1>1, <3>3 DEF BatchWanted
    <3>. QED
      BY <3>2, <3>3
  <2>6. Owed'
    BY Zenon, <1>1, <1>3, <2>1, <2>4 DEF BatchInv, Owed
  <2>. QED
    BY <2>3, <2>5, <2>6
<1>. QED
  BY <1>4, <1>5, <1>6 DEF BatchInv

\* A session that the engine stops to start it again is answered for twice, so
\* that answers will be mixed up.
LEMMA BatchAgain == ASSUME BatchNumbered, BatchInv, C!stopAnswered("update", TRUE)  PROVE BatchInv'
<1>. DEFINE m == [fn |-> "start", session |-> Head(batchEngine).session]
<1>0. BatchTypes
  BY DEF BatchInv
<1>1. /\ removing = None /\ batchEngine # <<>> /\ batchEngine' = Append(Tail(batchEngine), m)
      /\ refused' = (refused \/ ~TRUE) /\ C!respond(Head(batchEngine).session, TRUE)
      /\ UNCHANGED <<mState, cached, batching, flushed, stopping, sessions, dict, flushes,
                     batchCalls,
                     swallowed, overtaken, idle>>
  BY Zenon DEF C!stopAnswered, C!answer, C!framework
<1>2. /\ Tail(batchEngine) \in Seq(BatchCall) /\ Len(batchEngine) \in Nat /\ Len(batchEngine) >= 1
      /\ Len(Tail(batchEngine)) = Len(batchEngine) - 1 /\ Head(batchEngine) = batchEngine[1]
      /\ \A i \in 1..(Len(batchEngine) - 1) : Tail(batchEngine)[i] = batchEngine[i + 1]
      /\ batchEngine[1] \in BatchCall
  BY <1>0, <1>1, Popped DEF BatchTypes
<1>3. m \in BatchCall /\ m.session = batchEngine[1].session
  BY <1>2 DEF BatchCall, BatchFn
<1>. HIDE DEF m
<1>4. /\ batchEngine' \in Seq(BatchCall) /\ Len(batchEngine') = Len(batchEngine)
      /\ \A i \in 1..(Len(batchEngine) - 1) : batchEngine'[i] = batchEngine[i + 1]
      /\ batchEngine'[Len(batchEngine)] = m
  BY <1>1, <1>2, <1>3, Pushed
<1>5. /\ requests' \in Seq(BatchFn) /\ removing' \in {None} \cup 0..MaxSessions
      /\ gone' \in BOOLEAN
      /\ ~gone' => Len(requests') = Len(requests) - 1 /\ gone' = gone
  BY Zenon, <1>1, BatchAnswered
<1>6. BatchTypes'
  BY <1>0, <1>1, <1>4, <1>5 DEF BatchTypes
<1>7. Numbers'
  <2>0. Len(batchEngine) \in Nat /\ Len(batchEngine') = Len(batchEngine)
    BY <1>2, <1>4
  <2>1. \A i \in 1..Len(batchEngine') : i = Len(batchEngine) \/ i \in 1..(Len(batchEngine) - 1)
    BY <2>0
  <2>2. \A i \in 1..(Len(batchEngine) - 1) : i + 1 \in 1..Len(batchEngine)
    BY <1>2
  <2>3. 1 \in 1..Len(batchEngine)
    BY <1>2
  <2>4. \A i \in 1..Len(batchEngine') : batchEngine'[i].session <= sessions
    BY <1>3, <1>4, <2>1, <2>2, <2>3 DEF BatchInv, Numbers
  <2>. QED
    BY <1>1, <2>4 DEF BatchInv, Numbers
<1>8. Balanced' /\ ~Attributed'
  <2>1. Len(batchCalls) \in Nat /\ Len(batchEngine) \in Nat /\ Len(requests) \in Nat
    BY <1>0 DEF BatchTypes
  <2>2. ~C!mixed' => ~C!mixed /\ Len(requests') = Len(requests) - 1
    BY <1>1, <1>5 DEF C!mixed
  <2>3. ~C!mixed' => Len(requests') < Len(batchCalls') + Len(batchEngine')
    BY <1>1, <1>4, <2>1, <2>2 DEF BatchInv, Balanced
  <2>4. Len(requests') \in Nat /\ Len(batchEngine') \in Nat /\ batchCalls' = batchCalls
    BY <1>1, <1>4, <1>5, <2>1
  <2>5. Balanced'
    BY <2>1, <2>3, <2>4 DEF Balanced
  <2>6. ~Attributed'
    BY <2>1, <2>3, <2>4 DEF Attributed
  <2>. QED
    BY <2>5, <2>6
<1>. QED
  BY <1>6, <1>7, <1>8 DEF BatchInv

LEMMA BatchGot ==
  ASSUME BatchNumbered, BatchInv, NEW ok \in BOOLEAN, C!getAnswered(ok)
  PROVE  BatchInv'
<1>. DEFINE s == Head(batchEngine).session
<1>0. BatchTypes
  BY DEF BatchInv
<1>1. /\ removing = None /\ batchEngine # <<>> /\ Head(batchEngine).fn = "get" /\ batchEngine' = Tail(batchEngine)
      /\ refused' = (refused \/ ~ok) /\ C!respond(s, ok)
      /\ UNCHANGED <<batching, stopping, sessions, dict, flushes, batchCalls, running,
                     swallowed, overtaken, idle>>
  BY DEF C!getAnswered, C!answer
<1>. HIDE DEF s
<1>2. s = Head(batchEngine).session
  BY DEF s
<1>a. /\ mState' \in {"STARTED", "STOPPING", "STOPPED"} /\ cached' \in BOOLEAN
      /\ flushed' \in BOOLEAN
      /\ ok /\ mState = "STOPPING" => mState' = "STOPPED" /\ flushed' = flushed
      /\ ok /\ mState # "STOPPING" => mState' = mState /\ flushed' = FALSE
  BY Zenon, <1>0 DEF C!getAnswered, C!onBatchingCb, BatchTypes
<1>3. /\ requests' \in Seq(BatchFn) /\ removing' \in {None} \cup 0..MaxSessions
      /\ gone' \in BOOLEAN
      /\ Attributed =>
           /\ Len(requests) >= 1 /\ requests[1] = "get" /\ s = sessions
           /\ dict.backward = {sessions}
           /\ removing' = None
           /\ ~StartDue' /\ \A i \in 2..Len(requests') : requests'[i] # "start"
           /\ \A f : Pending(f)' => Pending(f)
           /\ \A f : f # "get" => (Pending(f) => Pending(f)')
           /\ TwoPending => Pending("get")'
  BY <1>1, <1>2, BatchAnswered
<1>4. /\ batchEngine' \in Seq(BatchCall) /\ Numbers' /\ Balanced'
      /\ Attributed' => Attributed /\ InOrder' /\ OneSession'
  BY <1>1, <1>2, BatchDone
<1>5. BatchTypes'
  <2>1. refused' \in BOOLEAN
    BY <1>0, <1>1 DEF BatchTypes
  <2>. QED
    BY <1>0, <1>1, <1>a, <1>3, <1>4, <2>1 DEF BatchTypes
<1>6. ASSUME Attributed'  PROVE EngineRuns' /\ BatchWanted' /\ Owed'
  <2>1. Attributed
    BY <1>4, <1>6
  <2>2. sessions # None /\ Len(requests) \in Nat
    BY <1>0 DEF BatchTypes, BatchNumbered
  <2>3. EngineRuns'
    <3>1. ~StartDue
      BY <1>3, <2>1 DEF StartDue
    <3>. QED
      BY <1>1, <1>3, <2>1, <2>2, <3>1 DEF BatchInv, EngineRuns
  <2>4. Pending("stop")' <=> Pending("stop")
    BY <1>3, <2>1
  <2>5. BatchWanted'
    BY Zenon, <1>1, <1>3, <2>1, <2>4 DEF BatchInv, BatchWanted
  <2>6. Owed'
    <3>1. CASE ~ok
      BY Zenon, <1>1, <3>1 DEF Owed
    <3>2. CASE ok /\ mState = "STOPPING"
      <4>1. Owed /\ flushes \in Nat
        BY <1>0, <2>1 DEF BatchInv, BatchTypes
      <4>3. TwoPending => Pending("get")'
        BY <1>3, <2>1
      <4>4. flushes > 1 => flushes > 0
        BY <4>1
      <4>5. flushed' = flushed /\ flushes' = flushes /\ (~refused' => ~refused) /\ idle' = idle
        BY Zenon, <1>1, <1>a, <3>2
      <4>2. ~refused' /\ ~idle' /\ flushed' => flushes' > 0 \/ Pending("get")'
        BY <3>2, <4>1, <4>3, <4>4, <4>5 DEF Owed
      <4>. QED
        BY <1>a, <3>2, <4>2 DEF Owed
    <3>3. CASE ok /\ mState # "STOPPING"
      BY <1>a, <3>3 DEF Owed
    <3>. QED
      BY <3>1, <3>2, <3>3
  <2>. QED
    BY <2>3, <2>5, <2>6
<1>. QED
  BY <1>4, <1>5, <1>6 DEF BatchInv
------------------------------------------------------------------------------
(* All steps.                                                              *)

LEMMA BatchNext == ASSUME BatchNumbered, BatchInv, C!Next  PROVE BatchInv'
<1>1. CASE C!start \/ C!update \/ C!stop \/ C!stopAfterGet \/ C!flush \/ C!thread \/ C!removeSession
  BY <1>1, BatchStarts, BatchUpdates, BatchStops, BatchStopsThen, BatchFlushes, BatchThread,
     BatchRemoves
<1>2. CASE C!MsgStartBatching \/ C!MsgStopBatching \/ C!MsgUpdateBatching \/ C!MsgGetBatchedLocations
  BY <1>2, BatchTask
<1>3. ASSUME NEW ok \in BOOLEAN,
             C!startAnswered(ok) \/ C!stopAnswered("stop", ok) \/ C!stopAnswered("update", ok)
             \/ C!getAnswered(ok)
      PROVE  BatchInv'
  <2>1. CASE C!startAnswered(ok)
    BY <2>1, BatchRan
  <2>2. CASE C!stopAnswered("stop", ok)
    BY <2>2, BatchStopped
  <2>3. CASE C!stopAnswered("update", ok)
    <3>1. CASE ok
      BY <2>3, <3>1, BatchAgain
    <3>2. CASE ~ok
      BY <2>3, <3>2, BatchStopped
    <3>. QED
      BY <3>1, <3>2
  <2>4. CASE C!getAnswered(ok)
    BY <2>4, BatchGot
  <2>. QED
    BY <1>3, <2>1, <2>2, <2>3, <2>4
<1>. QED
  BY <1>1, <1>2, <1>3 DEF C!Next

LEMMA BatchUnchanged == ASSUME BatchInv, UNCHANGED C!vars  PROVE BatchInv'
<1>. USE DEF C!vars, C!framework, C!client, C!adapter, C!history
<1>1. BatchTypes'
  BY DEF BatchInv, BatchTypes
<1>2. /\ Numbers' /\ Balanced'
      /\ Attributed' => Attributed /\ OneSession' /\ InOrder' /\ EngineRuns'
      /\ \A f : Pending(f)' <=> Pending(f)
      /\ TwoPending' <=> TwoPending
  BY BatchKept
<1>3. (Pending("get")' <=> Pending("get")) /\ (Pending("stop")' <=> Pending("stop"))
  BY <1>2
<1>4. Attributed' => BatchWanted' /\ Owed'
  BY <1>2, <1>3 DEF BatchInv, BatchWanted, Owed
<1>. QED
  BY <1>1, <1>2, <1>4 DEF BatchInv

\* At rest no request is left, so that what is known of the calls is of all.
LEMMA BatchingIsFollowedInv == ASSUME BatchNumbered, BatchInv  PROVE C!BatchingFollows
<1>0. BatchTypes
  BY DEF BatchInv
<1>1. SUFFICES ASSUME C!atRest, ~C!mixed  PROVE C!BatchingFollows
  BY DEF C!BatchingFollows, C!SessionFollows, C!FlushReported
<1>2. /\ batchCalls = <<>> /\ batchEngine = <<>> /\ removing = None /\ flushes = 0 /\ ~stopping
      /\ Len(batchCalls) = 0 /\ Len(batchEngine) = 0
  BY <1>1 DEF C!atRest
<1>3. Len(requests) = 0 /\ requests = <<>>
  BY <1>0, <1>1, <1>2 DEF BatchInv, Balanced, BatchTypes
<1>4. OneSession /\ EngineRuns /\ BatchWanted /\ Owed
  BY <1>1, <1>2, <1>3 DEF BatchInv, Attributed
<1>5. ~Pending("get") /\ ~Pending("stop") /\ ~TwoPending
  BY <1>3 DEF Pending, TwoPending
<1>6. sessions # None
  BY <1>0 DEF BatchTypes, BatchNumbered
<1>7. running = IF dict.backward = {} THEN {} ELSE {sessions}
  BY <1>2, <1>3, <1>4 DEF EngineRuns, StartDue
<1>8. C!SessionFollows
  <2>1. dict.backward = running /\ (dict.forward = None <=> running = {})
        /\ running \subseteq {sessions}
    BY <1>4, <1>6, <1>7 DEF OneSession
  <2>2. ~swallowed /\ ~refused => (batching <=> running # {})
    BY <1>2, <1>4, <1>5, <1>7 DEF BatchWanted
  <2>3. ~swallowed /\ ~refused => batching = (running # {})
    BY <1>0, <2>2 DEF BatchTypes
  <2>. QED
    BY <1>3, <2>1, <2>3 DEF C!SessionFollows
<1>9. C!FlushReported
  BY <1>2, <1>4, <1>5 DEF Owed, C!FlushReported
<1>. QED
  BY <1>8, <1>9 DEF C!BatchingFollows

\* However calls, answers, refusals and the removal of a session on the task of
\* the adapter interleave: when all is answered, to the requests that asked for it,
\* the identifier stands for the session of the engine, there is one exactly if
\* the framework started last, and each flush was reported, but for the cases the
\* property names (GnssBatching.cpp, BatchingAPIClient.cpp,
\* LocationAPIClientBase.cpp).  The hypotheses: sessions are numbered, and None
\* is none of them.
THEOREM BatchingIsFollowed ==
  ASSUME BatchNumbered  PROVE Spec => []BatchingFollows
<1>. DEFINE Inv == part = "batch" => BatchInv
<1>1. Init => Inv
  BY BatchInit DEF Init
<1>2. Inv /\ [Next]_<<part, ni, observer, display, xtra, gnss, batch, reports>> => Inv'
  <2> SUFFICES ASSUME Inv, part' = "batch",
                      [Next]_<<part, ni, observer, display, xtra, gnss, batch, reports>>
               PROVE  BatchInv'
    OBVIOUS
  <2>1. part = "batch" /\ (C!Next \/ UNCHANGED batch)
    BY DEF Next, Ni, Items, Display, Xtra, Gnss, Batch, Reports
  <2>2. UNCHANGED batch => UNCHANGED C!vars
    BY DEF batch, C!vars, C!framework, C!client, C!adapter, C!history
  <2>. QED
    BY <2>1, <2>2, BatchNext, BatchUnchanged
<1>3. Inv => BatchingFollows
  BY BatchingIsFollowedInv DEF BatchingFollows
<1>. QED
  BY <1>1, <1>2, <1>3, PTL DEF Spec
------------------------------------------------------------------------------
(* The reports of the engine.  Reports are in order of their epochs, from   *)
(* the modem, through the engine hub and at the task (Ordered); with no     *)
(* hub, or with no position withheld, those up to some epoch n had their    *)
(* outcome (PositionsDue), the latency kept first is that of the next       *)
(* (LatenciesDue), and what is used is that of the last position told, if   *)
(* its satellites are still due (SatellitesDue).                            *)

\* The epochs are numbered, and None is neither what was computed nor what is kept of it.
EpochsNumbered ==
  /\ MaxEpochs \in Nat /\ None \notin Computed
  /\ \A a, b, c : None \notin {[used |-> a, multiband |-> b], [to |-> a, fix |-> b],
                              [epoch |-> a, before |-> b, used |-> c]}

\* What the task, and the engine hub, may have to report.
HubMessage == [is : {"fused"}, epoch : 1..MaxEpochs, fix : Computed]
                \cup [is : {"satellites"}, epoch : 1..MaxEpochs]
Timed == {"latency", "position", "fused", "satellites"}
ReportMessage ==
  HubMessage \cup [is : {"latency"}, epoch : 1..MaxEpochs]
    \cup [is : {"position"}, epoch : 1..MaxEpochs, fix : Computed] \cup [is : {"nmea"}, debug : BOOLEAN]
    \cup [is : {"system"}, parts : SUBSET R!Part, version : Nat]
    \cup [is : {"add"}, client : {1}, callbacks : Callbacks] \cup [is : {"remove"}, client : {1}]
    \cup [is : {"track"}, on : BOOLEAN]

ReportTypes ==
  /\ mail \in Seq(ReportMessage) /\ hub \in Seq(HubMessage)
  /\ mGnssLatencyInfoQueue \in Seq(Nat) /\ behind \in Nat
  /\ DOMAIN mClientData = {1} /\ DOMAIN learnt = {1}
  /\ mLocSystemInfo \in [R!Part -> Nat] /\ DOMAIN outcome = 1..MaxEpochs
  /\ \A e \in 1..MaxEpochs : outcome[e] # None => outcome[e].fix \in Computed
  /\ epoch \in Nat \ {0} /\ others \in Nat /\ phase \in {"latency", "position", "satellites"}
  /\ phase # "latency" => epoch <= MaxEpochs

\* A moment of an epoch, of a report and of what the modem sends next; the last
\* epochs whose latency, and whose position, were sent.
offset(is) == IF is = "latency" THEN 0 ELSE IF is = "satellites" THEN 2 ELSE 1
rank(m) == 3 * m.epoch + offset(m.is)
moment == 3 * epoch + offset(phase)
Measured == IF phase = "latency" THEN epoch - 1 ELSE epoch
Located == IF phase = "satellites" THEN epoch ELSE epoch - 1

\* The epochs of the reports of a kind, and that reports of some kinds are in order.
Of(q, k) == {q[i].epoch : i \in {j \in 1..Len(q) : q[j].is = k}}
InRank(q, K) ==
  \A i, j \in 1..Len(q) : i < j /\ q[i].is \in K /\ q[j].is \in K => rank(q[i]) < rank(q[j])
Sent(q, K) == \A i \in 1..Len(q) : q[i].is \in K => rank(q[i]) < moment

\* Satellites come from the modem itself where there is no hub.
Direct == {"latency", "position"} \cup IF shape.hub THEN {} ELSE {"satellites"}

\* Positions go from the modem through the hub in their order;
Ordered ==
  /\ InRank(mail, Direct) /\ Sent(mail, Direct) /\ InRank(mail, {"fused"}) /\ Sent(mail, {"fused"})
  /\ InRank(hub, {"fused"}) /\ Sent(hub, {"fused"})
  /\ \A f \in Of(mail, "fused"), h \in Of(hub, "fused") : f < h
  /\ \A f \in Of(mail, "fused"), p \in Of(mail, "position") : f < p
  /\ \A h \in Of(hub, "fused"), p \in Of(mail, "position") : h < p
  /\ ~shape.hub => hub = <<>> /\ Of(mail, "fused") = {}

\* those up to n had their outcome, the others are on their way;
PositionsDue(n) ==
  /\ \A e \in 1..MaxEpochs : outcome[e] # None <=> e <= n
  /\ n <= Located
  /\ \A e : e \in Of(mail, "fused") \cup Of(hub, "fused") \cup Of(mail, "position")
             <=> e \in n + 1..Located
\* of the latencies the first that is kept is that of the next position;
LatenciesDue(n) ==
  /\ \A i \in 1..Len(mGnssLatencyInfoQueue) : mGnssLatencyInfoQueue[i] = n + i
  /\ n + Len(mGnssLatencyInfoQueue) <= Measured
  /\ \A e : e \in Of(mail, "latency") <=> e \in n + Len(mGnssLatencyInfoQueue) + 1..Measured
  /\ \A e \in Of(mail, "fused") \cup Of(hub, "fused") : e <= n + Len(mGnssLatencyInfoQueue)
  /\ R!LatencyMatches
\* and what is used is that of the last position told, if its satellites are still due.
last == IF flagged = None THEN 0 ELSE flagged.epoch
usedBy(fix) == IF fix.used = None THEN None ELSE [used |-> fix.used, multiband |-> fix.multiband]
flagsOf(fix) == IF fix.used = None THEN {} ELSE {s \in Signals : R!svUsed(s, fix)}
FlagsFollow == flagged # None =>
  /\ outcome[flagged.epoch].to = "gnss" => flagged.used = flagsOf(outcome[flagged.epoch].fix)
  /\ outcome[flagged.epoch].to = "flp" => flagged.used = {}
  /\ outcome[flagged.epoch].to \notin {"gnss", "flp"} =>
       \/ flagged.used = {}
       \/ \E e \in flagged.before + 1..flagged.epoch - 1 :
            outcome[e].to = "gnss" /\ flagged.used = flagsOf(outcome[e].fix)
SatellitesDue(n) ==
  /\ last \in 0..n /\ 3 * last + 2 < moment
  /\ flagged # None => last # 0 /\ flagged.before \in Nat
  /\ \A e \in Of(mail, "satellites") : last < e /\ n <= e
  /\ \/ mGnssSvIdUsedInPosition = None
     \/ \E e \in last + 1..n : /\ outcome[e].to = "gnss"
                               /\ mGnssSvIdUsedInPosition = usedBy(outcome[e].fix)
  /\ last < n /\ outcome[n].to = "gnss" => mGnssSvIdUsedInPosition = usedBy(outcome[n].fix)
  /\ last < n /\ outcome[n].to = "flp" => mGnssSvIdUsedInPosition = None
  /\ FlagsFollow

InStep == \E n \in 0..MaxEpochs :
  /\ behind = 0 \/ ~shape.hub => PositionsDue(n)
  /\ behind = 0 => LatenciesDue(n)
  /\ ~shape.hub => SatellitesDue(n)

\* The adapter generates NMEA, or the modem gives it.
NmeaOfOne ==
  /\ sources \subseteq IF shape.provider = "AP" THEN {"adapter"} ELSE {"modem"}
  /\ \A i \in 1..Len(mail) : mail[i].is = "nmea" /\ shape.provider = "AP" => mail[i].debug

ReportInv == ReportTypes /\ Ordered /\ InStep /\ R!InfoKnown /\ NmeaOfOne

\* Messages that are one more, or one less.
LEMMA QueuePushed ==
  ASSUME NEW T, NEW q \in Seq(T), NEW m \in T
  PROVE  LET p == Append(q, m)
         IN /\ \A k, e : e \in Of(p, k) <=> e \in Of(q, k) \/ (m.is = k /\ e = m.epoch)
            /\ \A K : InRank(q, K) /\ (m.is \in K => \A i \in 1..Len(q) : q[i].is \in K
                                                                     => rank(q[i]) < rank(m))
                      => InRank(p, K)
            /\ \A i \in 1..Len(p) : (i \in 1..Len(q) /\ p[i] = q[i]) \/ p[i] = m
<1>. DEFINE p == Append(q, m)
<1>1. /\ Len(q) \in Nat /\ Len(p) = Len(q) + 1 /\ \A i \in 1..Len(q) : p[i] = q[i]
      /\ p[Len(q) + 1] = m
  BY Pushed
<1>2. /\ Len(q) + 1 \in 1..Len(p) /\ 1..Len(q) \subseteq 1..Len(p)
      /\ \A i \in 1..Len(p) : i \in 1..Len(q) \/ i = Len(q) + 1
      /\ \A i \in 1..Len(p) : ~(i > Len(q) + 1)
  BY <1>1
<1>. HIDE DEF p
<1>3. ASSUME NEW k, NEW e
      PROVE  e \in Of(p, k) <=> e \in Of(q, k) \/ (m.is = k /\ e = m.epoch)
  BY <1>1, <1>2 DEF Of
<1>4. ASSUME NEW K, InRank(q, K),
             m.is \in K => \A i \in 1..Len(q) : q[i].is \in K => rank(q[i]) < rank(m)
      PROVE  InRank(p, K)
  <2>. SUFFICES ASSUME NEW i \in 1..Len(p), NEW j \in 1..Len(p), i < j, p[i].is \in K,
                       p[j].is \in K
                PROVE  rank(p[i]) < rank(p[j])
    BY DEF InRank
  <2>1. i \in 1..Len(q) /\ p[i] = q[i]
    BY <1>1, <1>2
  <2>2. CASE j = Len(q) + 1
    BY <1>1, <1>4, <2>1, <2>2
  <2>3. CASE j \in 1..Len(q)
    BY <1>1, <1>4, <2>1, <2>3 DEF InRank
  <2>. QED
    BY <1>2, <2>2, <2>3
<1>5. \A i \in 1..Len(p) : (i \in 1..Len(q) /\ p[i] = q[i]) \/ p[i] = m
  BY <1>1, <1>2
<1>. QED
  BY <1>3, <1>4, <1>5 DEF p

LEMMA QueuePopped ==
  ASSUME NEW T, NEW q \in Seq(T), q # <<>>
  PROVE  LET p == Tail(q)
             h == Head(q)
         IN /\ \A k, e : e \in Of(q, k) <=> e \in Of(p, k) \/ (h.is = k /\ e = h.epoch)
            /\ \A K : InRank(q, K) =>
                 InRank(p, K) /\ (h.is \in K => \A i \in 1..Len(p) : p[i].is \in K
                                                                  => rank(h) < rank(p[i]))
            /\ \A i \in 1..Len(p) : \E j \in 1..Len(q) : p[i] = q[j]
            /\ h = q[1] /\ 1 \in 1..Len(q) /\ h \in T
<1>. DEFINE p == Tail(q)
            h == Head(q)
<1>1. /\ Len(q) \in Nat /\ Len(q) >= 1 /\ Len(p) = Len(q) - 1
      /\ \A i \in 1..(Len(q) - 1) : p[i] = q[i + 1]
      /\ h = q[1] /\ q[1] \in T
  BY Popped
<1>2. /\ 1 \in 1..Len(q)
      /\ \A i \in 1..Len(p) : i \in Int /\ i + 1 \in 1..Len(q) /\ p[i] = q[i + 1] /\ i + 1 > 1
      /\ \A i \in 1..Len(q) : i # 1 => i - 1 \in 1..Len(p) /\ p[i - 1] = q[i]
  BY <1>1
<1>. HIDE DEF p, h
<1>3. ASSUME NEW k, NEW e
      PROVE  e \in Of(q, k) <=> e \in Of(p, k) \/ (h.is = k /\ e = h.epoch)
  BY <1>1, <1>2 DEF Of
<1>4. ASSUME NEW K, InRank(q, K)
      PROVE  InRank(p, K) /\ (h.is \in K => \A i \in 1..Len(p) : p[i].is \in K
                                                              => rank(h) < rank(p[i]))
  <2>1. ASSUME NEW i \in 1..Len(p), NEW j \in 1..Len(p), i < j, p[i].is \in K, p[j].is \in K
        PROVE  rank(p[i]) < rank(p[j])
    <3>1. i + 1 < j + 1
      BY <2>1, <1>2
    <3>. QED
      BY Zenon, <1>2, <1>4, <2>1, <3>1 DEF InRank
  <2>2. ASSUME h.is \in K, NEW i \in 1..Len(p), p[i].is \in K  PROVE rank(h) < rank(p[i])
    BY <1>1, <1>2, <1>4, <2>2 DEF InRank
  <2>. QED
    BY <2>1, <2>2 DEF InRank
<1>. QED
  BY <1>1, <1>2, <1>3, <1>4 DEF p, h

LEMMA MessageIs ==
  ASSUME NEW m \in ReportMessage
  PROVE  /\ m.is \in Timed => m.epoch \in 1..MaxEpochs
         /\ m.is \in {"position", "fused"} => m.fix \in Computed
         /\ m.is = "nmea" => m.debug \in BOOLEAN
         /\ m.is = "system" => m.version \in Nat
         /\ m.is \in {"add", "remove"} => m.client \in {1}
         /\ m.is = "position" => [m EXCEPT !.is = "fused"] \in HubMessage
                                 /\ [m EXCEPT !.is = "fused"].is = "fused"
                                 /\ [m EXCEPT !.is = "fused"].epoch = m.epoch
                                 /\ [m EXCEPT !.is = "fused"].fix = m.fix
         /\ m \in HubMessage => m.is \in {"fused", "satellites"}
BY DEF ReportMessage, HubMessage, Timed

\* The order of reports as one of epochs.
LEMMA EpochsLater ==
  ASSUME NEW q, \A i \in 1..Len(q) : q[i] \in ReportMessage, NEW K, NEW h,
         \A i \in 1..Len(q) : q[i].is \in K => rank(h) < rank(q[i]), NEW k \in K
  PROVE  \A e \in Of(q, k) : rank(h) < 3 * e + offset(k)
BY DEF Of, rank

LEMMA EpochsSent ==
  ASSUME NEW q, NEW K, Sent(q, K), NEW k \in K
  PROVE  \A e \in Of(q, k) : 3 * e + offset(k) < moment
BY DEF Of, rank, Sent

LEMMA EpochsAre ==
  ASSUME NEW q, \A i \in 1..Len(q) : q[i] \in ReportMessage, NEW k \in Timed
  PROVE  \A e \in Of(q, k) : e \in 1..MaxEpochs
<1>1. ASSUME NEW i \in 1..Len(q), q[i].is = k  PROVE q[i].epoch \in 1..MaxEpochs
  <2>1. q[i] \in ReportMessage /\ q[i].is \in Timed
    BY <1>1
  <2>. QED
    BY Zenon, <2>1, MessageIs
<1>. QED
  BY <1>1 DEF Of

LEMMA NoneOf == \A k : Of(<<>>, k) = {}
<1>1. 1..Len(<<>>) = {}
  OBVIOUS
<1>. QED
  BY <1>1 DEF Of

LEMMA HubTyped ==
  ASSUME ReportTypes
  PROVE  /\ \A i \in 1..Len(hub) : hub[i] \in ReportMessage /\ hub[i] \in HubMessage
         /\ \A i \in 1..Len(mail) : mail[i] \in ReportMessage
         /\ HubMessage \subseteq ReportMessage
<1>1. HubMessage \subseteq ReportMessage
  BY DEF ReportMessage
<1>2. hub \in Seq(HubMessage) /\ mail \in Seq(ReportMessage)
  BY DEF ReportTypes
<1>. QED
  BY <1>1, <1>2

\* The kinds of reports, and their moments as numbers.
LEMMA Kinds ==
  /\ Direct \subseteq Timed /\ "fused" \in Timed /\ "fused" \notin Direct
  /\ "latency" \in Direct /\ "position" \in Direct /\ ("satellites" \in Direct <=> ~shape.hub)
  /\ offset("latency") = 0 /\ offset("position") = 1 /\ offset("fused") = 1
  /\ offset("satellites") = 2
BY DEF Direct, Timed, offset

LEMMA Ranks ==
  ASSUME NEW m \in ReportMessage, m.is \in Timed
  PROVE  rank(m) \in Int /\ rank(m) = 3 * m.epoch + offset(m.is) /\ m.epoch \in Int
<1>0. m.epoch \in 1..MaxEpochs
  BY Zenon, MessageIs
<1>1. m.epoch \in Int
  BY <1>0
<1>2. offset(m.is) \in Int
  BY DEF offset
<1>. QED
  BY <1>1, <1>2 DEF rank

LEMMA SentBy ==
  ASSUME NEW q, \A i \in 1..Len(q) : q[i] \in ReportMessage, NEW K, K \subseteq Timed,
         Sent(q, K), moment \in Int, NEW x \in Int, moment <= x
  PROVE  \A i \in 1..Len(q) : q[i].is \in K => rank(q[i]) < x /\ rank(q[i]) \in Int
<1>. SUFFICES ASSUME NEW i \in 1..Len(q), q[i].is \in K  PROVE rank(q[i]) < x /\ rank(q[i]) \in Int
  OBVIOUS
<1>1. rank(q[i]) < moment
  BY DEF Sent
<1>2. rank(q[i]) \in Int
  BY Ranks
<1>. QED
  BY <1>1, <1>2

LEMMA Moments ==
  ASSUME ReportTypes
  PROVE  moment \in Int /\ epoch \in Int
         /\ (phase = "latency" => moment = 3 * epoch) /\ (phase = "position" => moment = 3 * epoch + 1)
         /\ (phase = "satellites" => moment = 3 * epoch + 2)
BY DEF ReportTypes, moment, offset

\* The modem sends what comes next, or something between.
LEMMA OrderedPosted ==
  ASSUME ReportTypes, Ordered, NEW m \in ReportMessage, mail' = Append(mail, m),
         UNCHANGED <<shape, hub>>, moment' \in Int, moment <= moment',
         m.is \in Timed => m.is \in Direct /\ rank(m) = moment /\ moment < moment'
  PROVE  Ordered'
<1>1. moment \in Int
  BY Moments
<1>2. /\ \A i \in 1..Len(mail) : mail[i] \in ReportMessage
      /\ \A i \in 1..Len(hub) : hub[i] \in ReportMessage
      /\ mail \in Seq(ReportMessage)
  BY HubTyped DEF ReportTypes
<1>3. /\ \A k, e : e \in Of(mail', k) <=> e \in Of(mail, k) \/ (m.is = k /\ e = m.epoch)
      /\ \A K : InRank(mail, K) /\ (m.is \in K => \A i \in 1..Len(mail) : mail[i].is \in K
                                                               => rank(mail[i]) < rank(m))
                => InRank(mail', K)
      /\ \A i \in 1..Len(mail') : (i \in 1..Len(mail) /\ mail'[i] = mail[i]) \/ mail'[i] = m
  BY <1>2, QueuePushed
<1>4. m.is # "fused" /\ (m.is \in Direct => rank(m) = moment /\ moment < moment')
      /\ (m.is = "position" => 3 * m.epoch + 1 = moment /\ m.epoch \in Int)
  BY Kinds, Ranks
<1>5. /\ InRank(mail, Direct) /\ Sent(mail, Direct) /\ InRank(mail, {"fused"})
      /\ Sent(mail, {"fused"}) /\ InRank(hub, {"fused"}) /\ Sent(hub, {"fused"})
  BY DEF Ordered
<1>6. /\ \A i \in 1..Len(mail) : mail[i].is \in Direct => rank(mail[i]) < moment'
      /\ \A i \in 1..Len(mail) : mail[i].is \in {"fused"} => rank(mail[i]) < moment'
      /\ \A i \in 1..Len(hub) : hub[i].is \in {"fused"} => rank(hub[i]) < moment'
  BY Zenon, <1>1, <1>2, <1>5, SentBy, Kinds
<1>7. InRank(mail', Direct)
  BY <1>3, <1>4, <1>5 DEF Sent
<1>8. InRank(mail', {"fused"})
  BY <1>3, <1>4, <1>5
<1>9. \A i \in 1..Len(mail') : mail'[i].is \in Direct => rank(mail'[i]) < moment'
  BY <1>3, <1>4, <1>6
<1>10. \A i \in 1..Len(mail') : mail'[i].is \in {"fused"} => rank(mail'[i]) < moment'
  BY <1>3, <1>4, <1>6
<1>11. Direct' = Direct
  BY DEF Direct
<1>12. Sent(mail, Direct)' /\ Sent(mail, {"fused"})' /\ Sent(hub, {"fused"})'
  BY <1>6, <1>9, <1>10, <1>11 DEF Sent
<1>13. \A e : e \in Of(mail', "fused") <=> e \in Of(mail, "fused")
  BY <1>3, <1>4
<1>14. \A e \in Of(mail', "position") :
         e \in Of(mail, "position") \/ (3 * e + 1 = moment /\ e \in Int)
  BY <1>3, <1>4
<1>15. /\ \A f \in Of(mail, "fused") : 3 * f + 1 < moment /\ f \in Int
       /\ \A h \in Of(hub, "fused") : 3 * h + 1 < moment /\ h \in Int
  <2>1. \A f \in Of(mail, "fused") : 3 * f + offset("fused") < moment
    BY <1>5, EpochsSent
  <2>2. \A h \in Of(hub, "fused") : 3 * h + offset("fused") < moment
    BY <1>5, EpochsSent
  <2>3. \A f \in Of(mail, "fused") : f \in 1..MaxEpochs
    BY <1>2, EpochsAre, Kinds
  <2>4. \A h \in Of(hub, "fused") : h \in 1..MaxEpochs
    BY <1>2, EpochsAre, Kinds
  <2>. QED
    BY <2>1, <2>2, <2>3, <2>4, Kinds
<1>16. \A f \in Of(mail', "fused"), h \in Of(hub', "fused") : f < h
  BY <1>13 DEF Ordered
<1>17. \A f \in Of(mail', "fused"), p \in Of(mail', "position") : f < p
  BY <1>1, <1>13, <1>14, <1>15 DEF Ordered
<1>18. \A h \in Of(hub', "fused"), p \in Of(mail', "position") : h < p
  BY <1>1, <1>14, <1>15 DEF Ordered
<1>19. ~shape'.hub => hub' = <<>> /\ Of(mail', "fused") = {}
  BY <1>13 DEF Ordered
<1>. QED
  BY <1>5, <1>7, <1>8, <1>11, <1>12, <1>16, <1>17, <1>18, <1>19 DEF Ordered

\* The task takes a message.
LEMMA OrderedTaken ==
  ASSUME ReportTypes, Ordered, mail # <<>>, mail' = Tail(mail),
         UNCHANGED <<shape, hub, epoch, phase>>
  PROVE  Ordered'
<1>1. mail \in Seq(ReportMessage)
  BY DEF ReportTypes
<1>2. /\ \A k, e : e \in Of(mail, k) <=> e \in Of(mail', k) \/ (Head(mail).is = k
                                                            /\ e = Head(mail).epoch)
      /\ \A K : InRank(mail, K) => InRank(mail', K)
      /\ \A i \in 1..Len(mail') : \E j \in 1..Len(mail) : mail'[i] = mail[j]
  BY <1>1, QueuePopped
<1>3. /\ \A e \in Of(mail', "fused") : e \in Of(mail, "fused")
      /\ \A e \in Of(mail', "position") : e \in Of(mail, "position")
  BY <1>2
<1>4. Direct' = Direct /\ moment' = moment
  BY DEF Direct, moment
<1>5. \A K : Sent(mail, K) => \A i \in 1..Len(mail') : mail'[i].is \in K => rank(mail'[i]) < moment
  BY <1>2 DEF Sent
<1>6. Sent(mail, Direct)' /\ Sent(mail, {"fused"})' /\ Sent(hub, {"fused"})'
  BY <1>4, <1>5 DEF Ordered, Sent
<1>7. InRank(mail', Direct) /\ InRank(mail', {"fused"}) /\ InRank(hub', {"fused"})
  BY <1>2 DEF Ordered
<1>8. /\ \A f \in Of(mail', "fused"), h \in Of(hub', "fused") : f < h
      /\ \A f \in Of(mail', "fused"), p \in Of(mail', "position") : f < p
      /\ \A h \in Of(hub', "fused"), p \in Of(mail', "position") : h < p
      /\ ~shape'.hub => hub' = <<>> /\ Of(mail', "fused") = {}
  BY <1>3 DEF Ordered
<1>. QED
  BY <1>4, <1>6, <1>7, <1>8 DEF Ordered

\* Nothing is sent, or satellites to the hub.
LEMMA OrderedLater ==
  ASSUME ReportTypes, Ordered, UNCHANGED <<shape, mail>>, moment' \in Int, moment <= moment',
         \/ hub' = hub
         \/ /\ shape.hub
            /\ \E m \in HubMessage : m.is = "satellites" /\ hub' = Append(hub, m)
  PROVE  Ordered' /\ \A e : e \in Of(hub', "fused") <=> e \in Of(hub, "fused")
<1>1. moment \in Int
  BY Moments
<1>2. /\ \A i \in 1..Len(mail) : mail[i] \in ReportMessage
      /\ \A i \in 1..Len(hub) : hub[i] \in ReportMessage
      /\ hub \in Seq(HubMessage)
  BY HubTyped DEF ReportTypes
<1>3. /\ InRank(mail, Direct) /\ Sent(mail, Direct) /\ InRank(mail, {"fused"})
      /\ Sent(mail, {"fused"}) /\ InRank(hub, {"fused"}) /\ Sent(hub, {"fused"})
  BY DEF Ordered
<1>4. /\ \A i \in 1..Len(mail) : mail[i].is \in Direct => rank(mail[i]) < moment'
      /\ \A i \in 1..Len(mail) : mail[i].is \in {"fused"} => rank(mail[i]) < moment'
      /\ \A i \in 1..Len(hub) : hub[i].is \in {"fused"} => rank(hub[i]) < moment'
  BY Zenon, <1>1, <1>2, <1>3, SentBy, Kinds
<1>5. /\ InRank(hub', {"fused"})
      /\ \A i \in 1..Len(hub') : hub'[i].is \in {"fused"} => rank(hub'[i]) < moment'
      /\ \A e : e \in Of(hub', "fused") <=> e \in Of(hub, "fused")
  <2>1. CASE hub' = hub
    BY <1>3, <1>4, <2>1
  <2>2. ASSUME NEW m \in HubMessage, m.is = "satellites", hub' = Append(hub, m)
        PROVE  <1>5!:
    <3>1. /\ \A k, e : e \in Of(hub', k) <=> e \in Of(hub, k) \/ (m.is = k /\ e = m.epoch)
          /\ \A K : InRank(hub, K) /\ (m.is \in K => \A i \in 1..Len(hub) : hub[i].is \in K
                                                                   => rank(hub[i]) < rank(m))
                    => InRank(hub', K)
          /\ \A i \in 1..Len(hub') : (i \in 1..Len(hub) /\ hub'[i] = hub[i]) \/ hub'[i] = m
      BY <1>2, <2>2, QueuePushed
    <3>2. InRank(hub', {"fused"})
      BY <1>3, <2>2, <3>1
    <3>3. \A i \in 1..Len(hub') : hub'[i].is \in {"fused"} => rank(hub'[i]) < moment'
      BY <1>4, <2>2, <3>1
    <3>4. \A e : e \in Of(hub', "fused") <=> e \in Of(hub, "fused")
      BY <2>2, <3>1
    <3>. QED
      BY <3>2, <3>3, <3>4
  <2>. QED
    BY <2>1, <2>2
<1>6. Direct' = Direct
  BY DEF Direct
<1>7. Sent(mail, Direct)' /\ Sent(mail, {"fused"})' /\ Sent(hub, {"fused"})'
  BY <1>4, <1>5, <1>6 DEF Sent
<1>8. /\ \A f \in Of(mail', "fused"), h \in Of(hub', "fused") : f < h
      /\ \A f \in Of(mail', "fused"), p \in Of(mail', "position") : f < p
      /\ \A h \in Of(hub', "fused"), p \in Of(mail', "position") : h < p
      /\ ~shape'.hub => hub' = <<>> /\ Of(mail', "fused") = {}
  BY <1>5 DEF Ordered
<1>. QED
  BY <1>3, <1>5, <1>6, <1>7, <1>8 DEF Ordered

\* The hub reports what it was given.
LEMMA OrderedFromHub ==
  ASSUME ReportTypes, Ordered, hub # <<>>, hub' = Tail(hub), mail' = Append(mail, Head(hub)),
         UNCHANGED <<shape, epoch, phase>>
  PROVE  /\ Ordered' /\ shape.hub /\ mail' \in Seq(ReportMessage) /\ hub' \in Seq(HubMessage)
         /\ \A e : e \in Of(mail', "fused") \cup Of(hub', "fused")
                    <=> e \in Of(mail, "fused") \cup Of(hub, "fused")
         /\ \A e : e \in Of(mail', "position") <=> e \in Of(mail, "position")
         /\ \A e : e \in Of(mail', "latency") <=> e \in Of(mail, "latency")
         /\ \A i \in 1..Len(mail') :
              \/ i \in 1..Len(mail) /\ mail'[i] = mail[i]
              \/ mail'[i].is \in {"fused", "satellites"}
<1>. DEFINE m == Head(hub)
<1>1. /\ \A i \in 1..Len(mail) : mail[i] \in ReportMessage
      /\ \A i \in 1..Len(hub) : hub[i] \in ReportMessage
      /\ hub \in Seq(HubMessage) /\ mail \in Seq(ReportMessage)
      /\ HubMessage \subseteq ReportMessage
  BY HubTyped DEF ReportTypes
<1>2. /\ \A k, e : e \in Of(hub, k) <=> e \in Of(hub', k) \/ (m.is = k /\ e = m.epoch)
      /\ \A K : InRank(hub, K) =>
           InRank(hub', K) /\ (m.is \in K => \A i \in 1..Len(hub') : hub'[i].is \in K
                                                                => rank(m) < rank(hub'[i]))
      /\ \A i \in 1..Len(hub') : \E j \in 1..Len(hub) : hub'[i] = hub[j]
      /\ m = hub[1] /\ 1 \in 1..Len(hub) /\ m \in HubMessage
  BY <1>1, QueuePopped
<1>3. hub' \in Seq(HubMessage)
  BY <1>1, Popped
<1>. HIDE DEF m
<1>4. m \in ReportMessage /\ m.is \in {"fused", "satellites"} /\ mail' = Append(mail, m)
  BY Zenon, <1>1, <1>2, MessageIs DEF m
<1>5. /\ \A k, e : e \in Of(mail', k) <=> e \in Of(mail, k) \/ (m.is = k /\ e = m.epoch)
      /\ \A K : InRank(mail, K) /\ (m.is \in K => \A i \in 1..Len(mail) : mail[i].is \in K
                                                               => rank(mail[i]) < rank(m))
                => InRank(mail', K)
      /\ \A i \in 1..Len(mail') : (i \in 1..Len(mail) /\ mail'[i] = mail[i]) \/ mail'[i] = m
  <2>1. mail \in Seq(ReportMessage) /\ m \in ReportMessage /\ mail' = Append(mail, m)
    BY <1>1, <1>4
  <2>2. LET p == Append(mail, m)
        IN /\ \A k, e : e \in Of(p, k) <=> e \in Of(mail, k) \/ (m.is = k /\ e = m.epoch)
           /\ \A K : InRank(mail, K) /\ (m.is \in K => \A i \in 1..Len(mail) : mail[i].is \in K
                                                                  => rank(mail[i]) < rank(m))
                     => InRank(p, K)
           /\ \A i \in 1..Len(p) : (i \in 1..Len(mail) /\ p[i] = mail[i]) \/ p[i] = m
    BY ONLY <2>1, QueuePushed
  <2>. QED
    BY <2>1, <2>2
<1>6. mail' \in Seq(ReportMessage)
  BY <1>1, <1>4, Pushed
<1>7. /\ InRank(mail, Direct) /\ Sent(mail, Direct) /\ InRank(mail, {"fused"})
      /\ Sent(mail, {"fused"}) /\ InRank(hub, {"fused"}) /\ Sent(hub, {"fused"}) /\ shape.hub
  BY DEF Ordered
<1>8. m.is \notin Direct
  BY <1>4, <1>7, Kinds
<1>9. Direct' = Direct /\ moment' = moment
  BY DEF Direct, moment
<1>10. InRank(mail', Direct) /\ Sent(mail, Direct)'
  <2>1. InRank(mail', Direct)
    BY <1>5, <1>7, <1>8
  <2>2. \A i \in 1..Len(mail') : mail'[i].is \in Direct => rank(mail'[i]) < moment
    BY <1>5, <1>7, <1>8 DEF Sent
  <2>. QED
    BY <1>9, <2>1, <2>2 DEF Sent
<1>11. InRank(hub', {"fused"}) /\ Sent(hub, {"fused"})'
  <2>1. InRank(hub', {"fused"})
    BY <1>2, <1>7
  <2>2. \A i \in 1..Len(hub') : hub'[i].is \in {"fused"} => rank(hub'[i]) < moment
    BY <1>2, <1>7 DEF Sent
  <2>. QED
    BY <1>9, <2>1, <2>2 DEF Sent
<1>12. m.is = "fused" => \A i \in 1..Len(mail) : mail[i].is \in {"fused"} => rank(mail[i]) < rank(m)
  <2>. SUFFICES ASSUME m.is = "fused", NEW i \in 1..Len(mail), mail[i].is = "fused"
                PROVE  rank(mail[i]) < rank(m)
    OBVIOUS
  <2>1. mail[i].epoch \in Of(mail, "fused") /\ m.epoch \in Of(hub, "fused")
    BY <1>2 DEF Of
  <2>2. mail[i].epoch < m.epoch
    BY <2>1 DEF Ordered
  <2>3. /\ rank(m) = 3 * m.epoch + 1 /\ m.epoch \in Int
        /\ rank(mail[i]) = 3 * mail[i].epoch + 1 /\ mail[i].epoch \in Int
    BY Zenon, <1>1, <1>4, Ranks, Kinds
  <2>. QED
    BY <2>2, <2>3
<1>13. InRank(mail', {"fused"}) /\ Sent(mail, {"fused"})'
  <2>1. InRank(mail', {"fused"})
    BY Zenon, <1>5, <1>7, <1>12
  <2>2. m.is = "fused" => rank(m) < moment
    BY <1>2, <1>7 DEF Sent
  <2>3. \A i \in 1..Len(mail') : mail'[i].is \in {"fused"} => rank(mail'[i]) < moment
    BY <1>5, <1>7, <2>2 DEF Sent
  <2>. QED
    BY <1>9, <2>1, <2>3 DEF Sent
<1>14. m.is = "fused" => \A h \in Of(hub', "fused") : m.epoch < h
  <2>. SUFFICES ASSUME m.is = "fused"  PROVE \A h \in Of(hub', "fused") : m.epoch < h
    OBVIOUS
  <2>1. \A i \in 1..Len(hub') : hub'[i].is \in {"fused"} => rank(m) < rank(hub'[i])
    BY Zenon, <1>2, <1>7
  <2>2. \A i \in 1..Len(hub') : hub'[i] \in ReportMessage
    BY <1>1, <1>2
  <2>3. \A h \in Of(hub', "fused") : rank(m) < 3 * h + 1 /\ h \in Int
    <3>1. \A h \in Of(hub', "fused") : rank(m) < 3 * h + offset("fused")
      BY Zenon, <2>1, <2>2, EpochsLater
    <3>2. \A h \in Of(hub', "fused") : h \in 1..MaxEpochs
      BY Zenon, <2>2, EpochsAre, Kinds
    <3>. QED
      BY <3>1, <3>2, Kinds
  <2>4. rank(m) = 3 * m.epoch + 1 /\ m.epoch \in Int
    BY <1>4, Ranks, Kinds
  <2>. QED
    BY <2>3, <2>4
<1>15. \A e : e \in Of(mail', "fused") \cup Of(hub', "fused")
               <=> e \in Of(mail, "fused") \cup Of(hub, "fused")
  BY <1>2, <1>5
<1>16. /\ \A e : e \in Of(mail', "position") <=> e \in Of(mail, "position")
       /\ \A e : e \in Of(mail', "latency") <=> e \in Of(mail, "latency")
  BY <1>4, <1>5
<1>17. \A f \in Of(mail', "fused"), h \in Of(hub', "fused") : f < h
  BY <1>2, <1>5, <1>14 DEF Ordered
<1>18. \A f \in Of(mail', "fused"), p \in Of(mail', "position") : f < p
  BY Zenon, <1>2, <1>5, <1>16 DEF Ordered
<1>19. \A h \in Of(hub', "fused"), p \in Of(mail', "position") : h < p
  BY <1>2, <1>16 DEF Ordered
<1>20. Ordered'
  BY <1>7, <1>9, <1>10, <1>11, <1>13, <1>17, <1>18, <1>19 DEF Ordered
<1>. QED
  BY <1>3, <1>4, <1>5, <1>6, <1>7, <1>15, <1>16, <1>20

\* A position goes to the hub.
LEMMA OrderedToHub ==
  ASSUME ReportTypes, Ordered, mail # <<>>, mail' = Tail(mail), Head(mail).is = "position",
         shape.hub, hub' = Append(hub, [Head(mail) EXCEPT !.is = "fused"]),
         UNCHANGED <<shape, epoch, phase>>
  PROVE  /\ Ordered' /\ hub' \in Seq(HubMessage) /\ mail' \in Seq(ReportMessage)
         /\ \A e : e \in Of(hub', "fused") <=> e \in Of(hub, "fused") \/ e = Head(mail).epoch
         /\ \A e : e \in Of(mail, "position")
                    <=> e \in Of(mail', "position") \/ e = Head(mail).epoch
         /\ \A e : e \in Of(mail', "fused") <=> e \in Of(mail, "fused")
         /\ \A e : e \in Of(mail', "latency") <=> e \in Of(mail, "latency")
         /\ \A e \in Of(mail, "latency") : Head(mail).epoch < e
<1>. DEFINE m == Head(mail)
            g == [m EXCEPT !.is = "fused"]
<1>1. /\ \A i \in 1..Len(mail) : mail[i] \in ReportMessage
      /\ \A i \in 1..Len(hub) : hub[i] \in ReportMessage
      /\ hub \in Seq(HubMessage) /\ mail \in Seq(ReportMessage)
      /\ HubMessage \subseteq ReportMessage
  BY HubTyped DEF ReportTypes
<1>2. /\ \A k, e : e \in Of(mail, k) <=> e \in Of(mail', k) \/ (m.is = k /\ e = m.epoch)
      /\ \A K : InRank(mail, K) =>
           InRank(mail', K) /\ (m.is \in K => \A i \in 1..Len(mail') : mail'[i].is \in K
                                                              => rank(m) < rank(mail'[i]))
      /\ \A i \in 1..Len(mail') : \E j \in 1..Len(mail) : mail'[i] = mail[j]
      /\ m = mail[1] /\ 1 \in 1..Len(mail) /\ m \in ReportMessage
  BY <1>1, QueuePopped
<1>3. mail' \in Seq(ReportMessage)
  BY <1>1, Popped
<1>4. g \in HubMessage /\ g.is = "fused" /\ g.epoch = m.epoch
  BY <1>2, MessageIs
<1>. HIDE DEF m, g
<1>5. m.is = "position" /\ hub' = Append(hub, g)
  BY DEF m, g
<1>6. /\ \A k, e : e \in Of(hub', k) <=> e \in Of(hub, k) \/ (g.is = k /\ e = g.epoch)
      /\ \A K : InRank(hub, K) /\ (g.is \in K => \A i \in 1..Len(hub) : hub[i].is \in K
                                                              => rank(hub[i]) < rank(g))
                => InRank(hub', K)
      /\ \A i \in 1..Len(hub') : (i \in 1..Len(hub) /\ hub'[i] = hub[i]) \/ hub'[i] = g
  <2>1. hub \in Seq(HubMessage) /\ g \in HubMessage /\ hub' = Append(hub, g)
    BY <1>1, <1>4, <1>5
  <2>2. LET p == Append(hub, g)
        IN /\ \A k, e : e \in Of(p, k) <=> e \in Of(hub, k) \/ (g.is = k /\ e = g.epoch)
           /\ \A K : InRank(hub, K) /\ (g.is \in K => \A i \in 1..Len(hub) : hub[i].is \in K
                                                                 => rank(hub[i]) < rank(g))
                     => InRank(p, K)
           /\ \A i \in 1..Len(p) : (i \in 1..Len(hub) /\ p[i] = hub[i]) \/ p[i] = g
    BY ONLY <2>1, QueuePushed
  <2>. QED
    BY Zenon, <2>1, <2>2
<1>7. hub' \in Seq(HubMessage)
  BY <1>1, <1>4, <1>5, Pushed
<1>8. /\ InRank(mail, Direct) /\ Sent(mail, Direct) /\ InRank(mail, {"fused"})
      /\ Sent(mail, {"fused"}) /\ InRank(hub, {"fused"}) /\ Sent(hub, {"fused"})
  BY DEF Ordered
<1>9. Direct' = Direct /\ moment' = moment
  BY DEF Direct, moment
<1>10. /\ rank(m) = 3 * m.epoch + 1 /\ rank(g) = 3 * m.epoch + 1 /\ m.epoch \in Int
       /\ rank(m) < moment
  <2>1. g \in ReportMessage /\ g.is \in Timed /\ m.is \in Timed /\ m.is \in Direct
    BY <1>1, <1>4, <1>5, Kinds DEF Timed
  <2>2. rank(m) < moment
    BY <1>2, <1>8, <2>1 DEF Sent
  <2>. QED
    BY <1>2, <1>4, <1>5, <2>1, <2>2, Ranks, Kinds
<1>11. InRank(mail', Direct) /\ InRank(mail', {"fused"})
  BY <1>2, <1>8
<1>12. \A K : Sent(mail, K) => \A i \in 1..Len(mail') : mail'[i].is \in K => rank(mail'[i]) < moment
  BY <1>2 DEF Sent
<1>13. \A i \in 1..Len(hub) : hub[i].is \in {"fused"} => rank(hub[i]) < rank(g)
  <2>. SUFFICES ASSUME NEW i \in 1..Len(hub), hub[i].is = "fused"  PROVE rank(hub[i]) < rank(g)
    BY Zenon
  <2>1. hub[i].epoch \in Of(hub, "fused") /\ m.epoch \in Of(mail, "position")
    BY <1>2, <1>5 DEF Of
  <2>2. hub[i].epoch < m.epoch
    BY <2>1 DEF Ordered
  <2>3. rank(hub[i]) = 3 * hub[i].epoch + 1 /\ hub[i].epoch \in Int
    BY <1>1, Ranks, Kinds
  <2>. QED
    BY <1>10, <2>2, <2>3
<1>14. InRank(hub', {"fused"})
  BY Zenon, <1>6, <1>8, <1>13
<1>15. \A i \in 1..Len(hub') : hub'[i].is \in {"fused"} => rank(hub'[i]) < moment
  BY Zenon, <1>6, <1>8, <1>10 DEF Sent
<1>16. Sent(mail, Direct)' /\ Sent(mail, {"fused"})' /\ Sent(hub, {"fused"})'
  BY Zenon, <1>8, <1>9, <1>12, <1>15 DEF Sent
<1>17. /\ \A e : e \in Of(hub', "fused") <=> e \in Of(hub, "fused") \/ e = m.epoch
       /\ \A e : e \in Of(mail, "position") <=> e \in Of(mail', "position") \/ e = m.epoch
       /\ \A e : e \in Of(mail', "fused") <=> e \in Of(mail, "fused")
       /\ \A e : e \in Of(mail', "latency") <=> e \in Of(mail, "latency")
  BY <1>2, <1>4, <1>5, <1>6
<1>18. \A i \in 1..Len(mail') : mail'[i].is \in Direct => rank(m) < rank(mail'[i])
  BY <1>2, <1>5, <1>8, Kinds
<1>19. /\ \A e \in Of(mail', "position") : m.epoch < e
       /\ \A e \in Of(mail', "latency") : m.epoch < e
  <2>1. \A i \in 1..Len(mail') : mail'[i] \in ReportMessage
    BY <1>1, <1>2
  <2>2. \A e \in Of(mail', "position") : rank(m) < 3 * e + offset("position")
    BY Zenon, <1>18, <2>1, EpochsLater, Kinds
  <2>3. \A e \in Of(mail', "latency") : rank(m) < 3 * e + offset("latency")
    BY Zenon, <1>18, <2>1, EpochsLater, Kinds
  <2>4. \A e \in Of(mail', "position") : e \in 1..MaxEpochs
    BY Zenon, <2>1, EpochsAre, Kinds
  <2>5. \A e \in Of(mail', "latency") : e \in 1..MaxEpochs
    BY Zenon, <2>1, EpochsAre, Kinds
  <2>. QED
    BY <1>10, <2>2, <2>3, <2>4, <2>5, Kinds
<1>20. /\ \A f \in Of(mail', "fused"), h \in Of(hub', "fused") : f < h
       /\ \A f \in Of(mail', "fused"), p \in Of(mail', "position") : f < p
       /\ \A h \in Of(hub', "fused"), p \in Of(mail', "position") : h < p
  BY <1>17, <1>19 DEF Ordered
<1>21. Ordered'
  BY Zenon, <1>8, <1>9, <1>11, <1>14, <1>16, <1>20 DEF Ordered
<1>22. \A e \in Of(mail, "latency") : m.epoch < e
  BY <1>17, <1>19
<1>. QED
  BY Zenon, <1>3, <1>7, <1>17, <1>21, <1>22 DEF m

LEMMA ReportInit == EpochsNumbered /\ R!Init => ReportInv
<1>. SUFFICES ASSUME EpochsNumbered, R!Init  PROVE ReportInv
  OBVIOUS
<1>1. MaxEpochs \in Nat
  BY DEF EpochsNumbered
<1>2. ReportTypes
  BY <1>1 DEF R!Init, ReportTypes, R!Unknown
<1>3. mail = <<>> /\ hub = <<>> /\ 1..Len(mail) = {} /\ 1..Len(hub) = {}
      /\ 1..Len(mGnssLatencyInfoQueue) = {} /\ Len(mGnssLatencyInfoQueue) = 0
  BY DEF R!Init
<1>4. \A k : Of(mail, k) = {} /\ Of(hub, k) = {}
  BY <1>3, NoneOf
<1>5. Ordered
  BY <1>3, <1>4 DEF Ordered, InRank, Sent
<1>6. moment = 3 /\ Measured = 0 /\ Located = 0 /\ last = 0
  BY DEF R!Init, moment, offset, Measured, Located, last
<1>7. PositionsDue(0)
  BY <1>1, <1>4, <1>6 DEF PositionsDue, R!Init
<1>8. LatenciesDue(0)
  BY <1>3, <1>4, <1>6 DEF LatenciesDue, R!LatencyMatches, R!Init
<1>9. SatellitesDue(0)
  BY <1>4, <1>6 DEF SatellitesDue, FlagsFollow, R!Init
<1>10. 0 \in 0..MaxEpochs
  BY <1>1
<1>11. InStep
  BY <1>7, <1>8, <1>9, <1>10 DEF InStep
<1>12. R!InfoKnown /\ NmeaOfOne
  BY <1>3 DEF R!Init, R!InfoKnown, NmeaOfOne, R!wants
<1>. QED
  BY <1>2, <1>5, <1>11, <1>12 DEF ReportInv

\* What is due does not change with what has nothing to do with it.
LEMMA PositionsKept ==
  ASSUME NEW n, PositionsDue(n), Located' = Located, outcome' = outcome,
         \A e : e \in Of(mail', "fused") \cup Of(hub', "fused") \cup Of(mail', "position")
                <=> e \in Of(mail, "fused") \cup Of(hub, "fused") \cup Of(mail, "position")
  PROVE  PositionsDue(n)'
<1>1. /\ \A e \in 1..MaxEpochs : outcome[e] # None <=> e <= n
      /\ n <= Located
      /\ \A e : e \in Of(mail, "fused") \cup Of(hub, "fused") \cup Of(mail, "position")
                 <=> e \in n + 1..Located
  BY DEF PositionsDue
<1>2. \A e \in 1..MaxEpochs : outcome'[e] # None <=> e <= n
  BY <1>1
<1>3. n <= Located'
  BY <1>1
<1>4. \A e : e \in Of(mail', "fused") \cup Of(hub', "fused") \cup Of(mail', "position")
             <=> e \in n + 1..Located'
  BY <1>1
<1>. QED
  BY <1>2, <1>3, <1>4 DEF PositionsDue

LEMMA LatenciesKept ==
  ASSUME NEW n, LatenciesDue(n), Measured' = Measured, UNCHANGED <<mGnssLatencyInfoQueue, logged>>,
         behind' = 0 => behind = 0,
         \A e : e \in Of(mail', "latency") <=> e \in Of(mail, "latency"),
         \A e \in Of(mail', "fused") \cup Of(hub', "fused") : e <= n + Len(mGnssLatencyInfoQueue)
  PROVE  LatenciesDue(n)'
<1>. DEFINE l == Len(mGnssLatencyInfoQueue)
<1>1. l' = l /\ UNCHANGED mGnssLatencyInfoQueue
  OBVIOUS
<1>2. /\ \A i \in 1..l : mGnssLatencyInfoQueue[i] = n + i
      /\ n + l <= Measured /\ R!LatencyMatches
      /\ \A e : e \in Of(mail, "latency") <=> e \in n + l + 1..Measured
  BY DEF LatenciesDue
<1>3. \A e \in Of(mail', "fused") \cup Of(hub', "fused") : e <= n + l
  OBVIOUS
<1>. HIDE DEF l
<1>4. \A e : e \in Of(mail', "latency") <=> e \in n + l' + 1..Measured'
  BY <1>1, <1>2
<1>5. R!LatencyMatches'
  BY <1>2 DEF R!LatencyMatches
<1>6. /\ \A i \in 1..l' : mGnssLatencyInfoQueue'[i] = n + i
      /\ n + l' <= Measured'
      /\ \A e \in Of(mail', "fused") \cup Of(hub', "fused") : e <= n + l'
  BY <1>1, <1>2, <1>3
<1>. QED
  BY <1>4, <1>5, <1>6 DEF LatenciesDue, l

LEMMA FlagsKept ==
  ASSUME FlagsFollow, UNCHANGED flagged, NEW n \in Nat, last \in 0..n,
         flagged # None => last # 0 /\ flagged.before \in Nat,
         \A e \in 1..n : outcome'[e] = outcome[e]
  PROVE  FlagsFollow'
<1>. SUFFICES ASSUME flagged # None  PROVE FlagsFollow'
  BY DEF FlagsFollow
<1>1. flagged.epoch \in 1..n
  BY DEF last
<1>2. outcome'[flagged.epoch] = outcome[flagged.epoch]
  BY <1>1
<1>3. \A e \in flagged.before + 1..flagged.epoch - 1 : outcome'[e] = outcome[e]
  BY <1>1
<1>. QED
  BY <1>2, <1>3 DEF FlagsFollow

LEMMA SatellitesKept ==
  ASSUME NEW n \in Nat, SatellitesDue(n), moment \in Int, moment' \in Int, moment <= moment',
         \A e : e \in Of(mail', "satellites")
                => e \in Of(mail, "satellites") \/ (last < e /\ n <= e),
         UNCHANGED <<shape, mGnssSvIdUsedInPosition, flagged, outcome>>
  PROVE  SatellitesDue(n)'
<1>1. /\ last \in 0..n /\ 3 * last + 2 < moment /\ FlagsFollow
      /\ (flagged # None => last # 0 /\ flagged.before \in Nat)
      /\ \A e \in Of(mail, "satellites") : last < e /\ n <= e
      /\ \/ mGnssSvIdUsedInPosition = None
         \/ \E e \in last + 1..n : /\ outcome[e].to = "gnss"
                                   /\ mGnssSvIdUsedInPosition = usedBy(outcome[e].fix)
      /\ last < n /\ outcome[n].to = "gnss" => mGnssSvIdUsedInPosition = usedBy(outcome[n].fix)
      /\ last < n /\ outcome[n].to = "flp" => mGnssSvIdUsedInPosition = None
  BY DEF SatellitesDue
<1>2. last' = last
  BY DEF last
<1>3. FlagsFollow'
  BY <1>1, FlagsKept
<1>4. 3 * last + 2 < moment'
  BY <1>1
<1>5. \A f : usedBy(f)' = usedBy(f)
  BY DEF usedBy
<1>. QED
  BY <1>1, <1>2, <1>3, <1>4 DEF SatellitesDue, usedBy

LEMMA StepKept ==
  ASSUME InStep, MaxEpochs \in Nat, moment \in Int, moment' \in Int, moment <= moment',
         Measured' = Measured, Located' = Located,
         \A e : e \in Of(mail', "fused") \cup Of(hub', "fused") \cup Of(mail', "position")
                <=> e \in Of(mail, "fused") \cup Of(hub, "fused") \cup Of(mail, "position"),
         \A e : e \in Of(mail', "latency") <=> e \in Of(mail, "latency"),
         ~shape.hub => \A e : e \in Of(mail', "satellites") => e \in Of(mail, "satellites"),
         \A e : e \in Of(mail', "fused") \cup Of(hub', "fused")
                => e \in Of(mail, "fused") \cup Of(hub, "fused"),
         UNCHANGED <<shape, mGnssLatencyInfoQueue, mGnssSvIdUsedInPosition, logged, flagged, outcome,
                     behind>>
  PROVE  InStep'
<1>1. PICK n \in 0..MaxEpochs :
         /\ behind = 0 \/ ~shape.hub => PositionsDue(n)
         /\ behind = 0 => LatenciesDue(n)
         /\ ~shape.hub => SatellitesDue(n)
  BY DEF InStep
<1>2. ASSUME PositionsDue(n)  PROVE PositionsDue(n)'
  BY <1>2, PositionsKept
<1>3. ASSUME LatenciesDue(n)  PROVE LatenciesDue(n)'
  <2>1. \A e \in Of(mail', "fused") \cup Of(hub', "fused") : e <= n + Len(mGnssLatencyInfoQueue)
    BY <1>3 DEF LatenciesDue
  <2>. QED
    BY <1>3, <2>1, LatenciesKept
<1>4. ASSUME SatellitesDue(n), ~shape.hub  PROVE SatellitesDue(n)'
  <2>1. n \in Nat
    OBVIOUS
  <2>. QED
    BY <1>4, <2>1, SatellitesKept
<1>5. behind' = 0 \/ ~shape'.hub => PositionsDue(n)'
  BY <1>1, <1>2
<1>6. behind' = 0 => LatenciesDue(n)'
  BY <1>1, <1>3
<1>7. ~shape'.hub => SatellitesDue(n)'
  BY <1>1, <1>4
<1>. QED
  BY <1>5, <1>6, <1>7 DEF InStep

\* What a report of the epochs, or of something else, does not touch.
LEMMA InfoKept ==
  ASSUME R!InfoKnown, UNCHANGED <<mClientData, mLocSystemInfo, learnt>>
  PROVE  R!InfoKnown'
BY DEF R!InfoKnown, R!wants

LEMMA NmeaKept ==
  ASSUME NmeaOfOne, UNCHANGED <<shape, sources>>,
         \A i \in 1..Len(mail') : (\E j \in 1..Len(mail) : mail'[i] = mail[j])
                                  \/ mail'[i].is # "nmea"
  PROVE  NmeaOfOne'
BY DEF NmeaOfOne

\* The steps of the modem and of the framework.
LEMMA Posted ==
  ASSUME ReportInv, NEW m \in ReportMessage, R!post(m), UNCHANGED <<shape, hub>>
  PROVE  /\ mail' \in Seq(ReportMessage)
         /\ \A k, e : e \in Of(mail', k) <=> e \in Of(mail, k) \/ (m.is = k /\ e = m.epoch)
         /\ \A i \in 1..Len(mail') : (\E j \in 1..Len(mail) : mail'[i] = mail[j])
                                     \/ mail'[i] = m
<1>1. mail \in Seq(ReportMessage) /\ mail' = Append(mail, m)
  BY DEF ReportInv, ReportTypes, R!post
<1>2. mail' \in Seq(ReportMessage)
  BY <1>1, Pushed
<1>3. /\ \A k, e : e \in Of(mail', k) <=> e \in Of(mail, k) \/ (m.is = k /\ e = m.epoch)
      /\ \A i \in 1..Len(mail') : (i \in 1..Len(mail) /\ mail'[i] = mail[i]) \/ mail'[i] = m
  BY <1>1, QueuePushed
<1>. QED
  BY <1>2, <1>3

LEMMA LatencySent == ASSUME EpochsNumbered, ReportInv, R!reportLatencyInfoEvent  PROVE ReportInv'
<1>. DEFINE m == [is |-> "latency", epoch |-> epoch]
<1>1. ReportTypes /\ Ordered /\ InStep /\ R!InfoKnown /\ NmeaOfOne /\ MaxEpochs \in Nat
  BY DEF ReportInv, EpochsNumbered
<1>2. /\ phase = "latency" /\ epoch <= MaxEpochs /\ phase' = "position" /\ R!post(m)
      /\ UNCHANGED <<shape, hub, epoch, others, R!state, R!history>>
  BY DEF R!reportLatencyInfoEvent
<1>3. epoch \in 1..MaxEpochs
  BY <1>1, <1>2 DEF ReportTypes
<1>4. m \in ReportMessage /\ m.is = "latency" /\ m.epoch = epoch
  BY <1>3 DEF ReportMessage
<1>. HIDE DEF m
<1>5. /\ mail' \in Seq(ReportMessage)
      /\ \A k, e : e \in Of(mail', k) <=> e \in Of(mail, k) \/ (m.is = k /\ e = m.epoch)
      /\ \A i \in 1..Len(mail') : (\E j \in 1..Len(mail) : mail'[i] = mail[j])
                                  \/ mail'[i] = m
  BY <1>2, <1>4, Posted
<1>6. moment = 3 * epoch /\ moment' = 3 * epoch + 1 /\ rank(m) = 3 * epoch /\ epoch \in Int
      /\ Measured = epoch - 1 /\ Measured' = epoch /\ Located' = Located /\ Located = epoch - 1
  BY <1>2, <1>3, <1>4 DEF moment, offset, rank, Measured, Located
<1>7. ReportTypes'
  BY <1>1, <1>2, <1>5 DEF ReportTypes, R!state, R!history
<1>8. Ordered'
  BY <1>1, <1>2, <1>4, <1>6, OrderedPosted, Kinds DEF R!post
<1>9. /\ \A e : e \in Of(mail', "latency") <=> e \in Of(mail, "latency") \/ e = epoch
      /\ \A e : e \in Of(mail', "fused") <=> e \in Of(mail, "fused")
      /\ \A e : e \in Of(mail', "position") <=> e \in Of(mail, "position")
      /\ \A e : e \in Of(mail', "satellites") <=> e \in Of(mail, "satellites")
  BY <1>4, <1>5
<1>10. InStep'
  <2>1. PICK n \in 0..MaxEpochs :
         /\ behind = 0 \/ ~shape.hub => PositionsDue(n)
         /\ behind = 0 => LatenciesDue(n)
         /\ ~shape.hub => SatellitesDue(n)
    BY <1>1 DEF InStep
  <2>2. ASSUME PositionsDue(n)  PROVE PositionsDue(n)'
    <3>1. outcome' = outcome
      BY <1>2 DEF R!history
    <3>. QED
      BY <1>2, <1>6, <1>9, <2>2, <3>1, PositionsKept
  <2>3. ASSUME LatenciesDue(n)  PROVE LatenciesDue(n)'
    <3>. DEFINE l == Len(mGnssLatencyInfoQueue)
    <3>0. n \in Int /\ l \in Nat /\ l' = l /\ UNCHANGED <<mGnssLatencyInfoQueue, logged, behind>>
      BY <1>1, <1>2 DEF ReportTypes, R!state, R!history
    <3>1. /\ \A i \in 1..l : mGnssLatencyInfoQueue[i] = n + i
          /\ n + l <= epoch - 1 /\ R!LatencyMatches
          /\ \A e : e \in Of(mail, "latency") <=> e \in n + l + 1..epoch - 1
          /\ \A e \in Of(mail, "fused") \cup Of(hub, "fused") : e <= n + l
      BY <1>6, <2>3 DEF LatenciesDue
    <3>. HIDE DEF l
    <3>2. \A e : e \in Of(mail', "latency") <=> e \in n + l + 1..epoch
      BY <1>6, <1>9, <3>0, <3>1
    <3>3. \A e \in Of(mail', "fused") \cup Of(hub', "fused") : e <= n + l
      BY <1>2, <1>9, <3>1
    <3>4. n + l <= epoch
      BY <1>6, <3>0, <3>1
    <3>5. R!LatencyMatches'
      BY <3>0, <3>1 DEF R!LatencyMatches
    <3>6. \A i \in 1..l' : mGnssLatencyInfoQueue'[i] = n + i
      BY <3>0, <3>1
    <3>. QED
      BY <1>6, <3>0, <3>2, <3>3, <3>4, <3>5, <3>6 DEF LatenciesDue, l
  <2>4. ASSUME SatellitesDue(n)  PROVE SatellitesDue(n)'
    <3>1. UNCHANGED <<shape, mGnssSvIdUsedInPosition, flagged, outcome>>
      BY <1>2 DEF R!state, R!history
    <3>2. n \in Nat /\ moment \in Int /\ moment' \in Int /\ moment <= moment'
      BY <1>6
    <3>. QED
      BY <1>9, <2>4, <3>1, <3>2, SatellitesKept
  <2>5. UNCHANGED <<shape, behind>>
    BY <1>2 DEF R!history
  <2>6. /\ behind' = 0 \/ ~shape'.hub => PositionsDue(n)'
        /\ behind' = 0 => LatenciesDue(n)'
        /\ ~shape'.hub => SatellitesDue(n)'
    BY <2>1, <2>2, <2>3, <2>4, <2>5
  <2>. QED
    BY <2>6 DEF InStep
<1>11. R!InfoKnown' /\ NmeaOfOne'
  BY <1>1, <1>2, <1>4, <1>5, InfoKept, NmeaKept DEF R!state, R!history
<1>. QED
  BY <1>7, <1>8, <1>10, <1>11 DEF ReportInv

LEMMA PositionSent ==
  ASSUME EpochsNumbered, ReportInv, NEW fix \in Computed, R!reportPositionEvent(fix)
  PROVE  ReportInv'
<1>. DEFINE m == [is |-> "position", epoch |-> epoch, fix |-> fix]
<1>1. ReportTypes /\ Ordered /\ InStep /\ R!InfoKnown /\ NmeaOfOne /\ MaxEpochs \in Nat
  BY DEF ReportInv, EpochsNumbered
<1>2. /\ phase = "position" /\ phase' = "satellites" /\ R!post(m)
      /\ UNCHANGED <<shape, hub, epoch, others, R!state, R!history>>
  BY DEF R!reportPositionEvent
<1>3. epoch \in 1..MaxEpochs
  BY <1>1, <1>2 DEF ReportTypes
<1>4. m \in ReportMessage /\ m.is = "position" /\ m.epoch = epoch
  BY <1>3 DEF ReportMessage
<1>. HIDE DEF m
<1>5. /\ mail' \in Seq(ReportMessage)
      /\ \A k, e : e \in Of(mail', k) <=> e \in Of(mail, k) \/ (m.is = k /\ e = m.epoch)
      /\ \A i \in 1..Len(mail') : (\E j \in 1..Len(mail) : mail'[i] = mail[j])
                                  \/ mail'[i] = m
  BY <1>2, <1>4, Posted
<1>6. /\ moment = 3 * epoch + 1 /\ moment' = 3 * epoch + 2 /\ rank(m) = 3 * epoch + 1
      /\ epoch \in Int /\ Measured' = Measured /\ Located = epoch - 1 /\ Located' = epoch
  BY <1>2, <1>3, <1>4 DEF moment, offset, rank, Measured, Located
<1>7. ReportTypes'
  BY <1>1, <1>2, <1>3, <1>5 DEF ReportTypes, R!state, R!history
<1>8. Ordered'
  BY <1>1, <1>2, <1>4, <1>6, OrderedPosted, Kinds DEF R!post
<1>9. /\ \A e : e \in Of(mail', "position") <=> e \in Of(mail, "position") \/ e = epoch
      /\ \A e : e \in Of(mail', "fused") <=> e \in Of(mail, "fused")
      /\ \A e : e \in Of(mail', "latency") <=> e \in Of(mail, "latency")
      /\ \A e : e \in Of(mail', "satellites") <=> e \in Of(mail, "satellites")
  BY <1>4, <1>5
<1>10. InStep'
  <2>1. PICK n \in 0..MaxEpochs :
         /\ behind = 0 \/ ~shape.hub => PositionsDue(n)
         /\ behind = 0 => LatenciesDue(n)
         /\ ~shape.hub => SatellitesDue(n)
    BY <1>1 DEF InStep
  <2>2. UNCHANGED <<shape, hub, behind, outcome, mGnssLatencyInfoQueue, logged,
                    mGnssSvIdUsedInPosition, flagged>>
    BY <1>2 DEF R!state, R!history
  <2>3. ASSUME PositionsDue(n)  PROVE PositionsDue(n)'
    <3>1. /\ \A e \in 1..MaxEpochs : outcome[e] # None <=> e <= n
          /\ n <= epoch - 1
          /\ \A e : e \in Of(mail, "fused") \cup Of(hub, "fused") \cup Of(mail, "position")
                     <=> e \in n + 1..epoch - 1
      BY <1>6, <2>3 DEF PositionsDue
    <3>2. \A e : e \in Of(mail', "fused") \cup Of(hub', "fused") \cup Of(mail', "position")
                  <=> e \in n + 1..epoch - 1 \/ e = epoch
      BY <1>9, <2>2, <3>1
    <3>3. n \in Int /\ n <= epoch /\ \A e : e \in n + 1..epoch - 1 \/ e = epoch <=> e \in n + 1..epoch
      BY <1>6, <3>1
    <3>4. \A e : e \in Of(mail', "fused") \cup Of(hub', "fused") \cup Of(mail', "position")
                  <=> e \in n + 1..Located'
      BY <1>6, <3>2, <3>3
    <3>5. \A e \in 1..MaxEpochs : outcome'[e] # None <=> e <= n
      BY <2>2, <3>1
    <3>. QED
      BY <1>6, <3>3, <3>4, <3>5 DEF PositionsDue
  <2>4. ASSUME LatenciesDue(n)  PROVE LatenciesDue(n)'
    <3>1. \A e \in Of(mail', "fused") \cup Of(hub', "fused") : e <= n + Len(mGnssLatencyInfoQueue)
      BY <1>9, <2>2, <2>4 DEF LatenciesDue
    <3>. QED
      BY <1>6, <1>9, <2>2, <2>4, <3>1, LatenciesKept
  <2>5. ASSUME SatellitesDue(n)  PROVE SatellitesDue(n)'
    <3>1. n \in Nat /\ moment \in Int /\ moment' \in Int /\ moment <= moment'
      BY <1>6
    <3>. QED
      BY <1>9, <2>2, <2>5, <3>1, SatellitesKept
  <2>6. /\ behind' = 0 \/ ~shape'.hub => PositionsDue(n)'
        /\ behind' = 0 => LatenciesDue(n)'
        /\ ~shape'.hub => SatellitesDue(n)'
    BY <2>1, <2>2, <2>3, <2>4, <2>5
  <2>. QED
    BY <2>6 DEF InStep
<1>11. R!InfoKnown' /\ NmeaOfOne'
  BY <1>1, <1>2, <1>4, <1>5, InfoKept, NmeaKept DEF R!state, R!history
<1>. QED
  BY <1>7, <1>8, <1>10, <1>11 DEF ReportInv

\* The next epoch.
LEMMA EpochNext ==
  ASSUME ReportTypes, R!nextEpoch
  PROVE  /\ epoch \in 1..MaxEpochs /\ epoch \in Int /\ epoch' \in Nat \ {0} /\ phase' = "latency"
         /\ moment = 3 * epoch + 2 /\ moment' = 3 * epoch + 3 /\ moment \in Int /\ moment' \in Int
         /\ Measured' = Measured /\ Located' = Located /\ Located = epoch
<1>1. epoch \in Nat \ {0} /\ epoch <= MaxEpochs /\ phase = "satellites" /\ phase' = "latency"
      /\ epoch' = epoch + 1
  BY DEF ReportTypes, R!nextEpoch
<1>. QED
  BY <1>1 DEF moment, offset, Measured, Located

LEMMA SvSentToHub ==
  ASSUME EpochsNumbered, ReportInv, R!nextEpoch, UNCHANGED <<shape, others, mail, R!state, R!history>>,
         \/ hub' = hub
         \/ /\ shape.hub /\ hub' = Append(hub, [is |-> "satellites", epoch |-> epoch])
  PROVE  ReportInv'
<1>. DEFINE m == [is |-> "satellites", epoch |-> epoch]
<1>1. ReportTypes /\ Ordered /\ InStep /\ R!InfoKnown /\ NmeaOfOne /\ MaxEpochs \in Nat
  BY DEF ReportInv, EpochsNumbered
<1>2. /\ epoch \in 1..MaxEpochs /\ epoch \in Int /\ epoch' \in Nat \ {0} /\ phase' = "latency"
      /\ moment = 3 * epoch + 2 /\ moment' = 3 * epoch + 3 /\ moment \in Int /\ moment' \in Int
      /\ Measured' = Measured /\ Located' = Located
  BY <1>1, EpochNext
<1>3. m \in HubMessage /\ m.is = "satellites"
  BY <1>2 DEF HubMessage
<1>. HIDE DEF m
<1>4. hub' = hub \/ (shape.hub /\ hub' = Append(hub, m))
  BY DEF m
<1>5. hub' \in Seq(HubMessage)
  <2>1. hub \in Seq(HubMessage) /\ m \in HubMessage
    BY <1>1, <1>3 DEF ReportTypes
  <2>2. Append(hub, m) \in Seq(HubMessage)
    BY ONLY <2>1, Pushed
  <2>. QED
    BY <1>4, <2>1, <2>2
<1>6. moment <= moment'
  BY <1>2
<1>7. Ordered' /\ \A e : e \in Of(hub', "fused") <=> e \in Of(hub, "fused")
  BY <1>1, <1>2, <1>3, <1>4, <1>6, OrderedLater
<1>8. ReportTypes'
  BY <1>1, <1>2, <1>5 DEF ReportTypes, R!state, R!history
<1>9. UNCHANGED <<shape, mGnssLatencyInfoQueue, mGnssSvIdUsedInPosition, logged, flagged, outcome,
                  behind>>
  BY DEF R!state, R!history
<1>10. InStep'
  BY <1>1, <1>2, <1>6, <1>7, <1>9, StepKept
<1>11. R!InfoKnown' /\ NmeaOfOne'
  BY <1>1, InfoKept, NmeaKept DEF R!state, R!history
<1>. QED
  BY <1>7, <1>8, <1>10, <1>11 DEF ReportInv

LEMMA SvSent ==
  ASSUME EpochsNumbered, ReportInv, R!nextEpoch, UNCHANGED <<shape, others, hub, R!state, R!history>>,
         ~shape.hub, R!post([is |-> "satellites", epoch |-> epoch])
  PROVE  ReportInv'
<1>. DEFINE m == [is |-> "satellites", epoch |-> epoch]
<1>1. ReportTypes /\ Ordered /\ InStep /\ R!InfoKnown /\ NmeaOfOne /\ MaxEpochs \in Nat
  BY DEF ReportInv, EpochsNumbered
<1>2. /\ epoch \in 1..MaxEpochs /\ epoch \in Int /\ epoch' \in Nat \ {0} /\ phase' = "latency"
      /\ moment = 3 * epoch + 2 /\ moment' = 3 * epoch + 3 /\ moment \in Int /\ moment' \in Int
      /\ Measured' = Measured /\ Located' = Located /\ Located = epoch
  BY <1>1, EpochNext
<1>3. m \in HubMessage /\ m.is = "satellites" /\ m.epoch = epoch /\ rank(m) = 3 * epoch + 2
  BY <1>2 DEF HubMessage, rank, offset
<1>4. m \in ReportMessage /\ R!post(m)
  BY <1>3 DEF ReportMessage
<1>. HIDE DEF m
<1>5. /\ mail' \in Seq(ReportMessage)
      /\ \A k, e : e \in Of(mail', k) <=> e \in Of(mail, k) \/ (m.is = k /\ e = m.epoch)
      /\ \A i \in 1..Len(mail') : (\E j \in 1..Len(mail) : mail'[i] = mail[j])
                                  \/ mail'[i] = m
  BY <1>4, Posted
<1>6. moment <= moment' /\ rank(m) = moment /\ moment < moment'
  BY <1>2, <1>3
<1>7. Ordered'
  BY <1>1, <1>2, <1>3, <1>4, <1>6, OrderedPosted, Kinds DEF R!post
<1>8. ReportTypes'
  BY <1>1, <1>2, <1>5 DEF ReportTypes, R!state, R!history
<1>9. UNCHANGED <<shape, mGnssLatencyInfoQueue, mGnssSvIdUsedInPosition, logged, flagged, outcome,
                  behind>>
  BY DEF R!state, R!history
<1>10. /\ \A e : e \in Of(mail', "position") <=> e \in Of(mail, "position")
       /\ \A e : e \in Of(mail', "fused") <=> e \in Of(mail, "fused")
       /\ \A e : e \in Of(mail', "latency") <=> e \in Of(mail, "latency")
       /\ \A e : e \in Of(mail', "satellites") <=> e \in Of(mail, "satellites") \/ e = epoch
  BY <1>3, <1>5
<1>11. InStep'
  <2>1. PICK n \in 0..MaxEpochs :
         /\ behind = 0 \/ ~shape.hub => PositionsDue(n)
         /\ behind = 0 => LatenciesDue(n)
         /\ ~shape.hub => SatellitesDue(n)
    BY <1>1 DEF InStep
  <2>2. PositionsDue(n)'
    BY <1>2, <1>9, <1>10, <2>1, PositionsKept
  <2>3. ASSUME LatenciesDue(n)  PROVE LatenciesDue(n)'
    <3>1. \A e \in Of(mail', "fused") \cup Of(hub', "fused") : e <= n + Len(mGnssLatencyInfoQueue)
      BY <1>10, <2>3 DEF LatenciesDue
    <3>. QED
      BY <1>2, <1>9, <1>10, <2>3, <3>1, LatenciesKept
  <2>4. SatellitesDue(n)'
    <3>1. n \in Nat /\ n <= epoch
      BY <1>2, <2>1 DEF PositionsDue
    <3>2. SatellitesDue(n) /\ last \in Int /\ 3 * last + 2 < moment
      BY <2>1 DEF SatellitesDue
    <3>3. last < epoch
      BY <1>2, <3>2
    <3>4. \A e : e \in Of(mail', "satellites")
                  => e \in Of(mail, "satellites") \/ (last < e /\ n <= e)
      BY <1>10, <3>1, <3>3
    <3>. QED
      BY <1>2, <1>6, <1>9, <3>1, <3>2, <3>4, SatellitesKept
  <2>5. /\ behind' = 0 \/ ~shape'.hub => PositionsDue(n)'
        /\ behind' = 0 => LatenciesDue(n)'
        /\ ~shape'.hub => SatellitesDue(n)'
    BY <1>9, <2>1, <2>2, <2>3, <2>4
  <2>. QED
    BY <2>5 DEF InStep
<1>12. R!InfoKnown' /\ NmeaOfOne'
  BY <1>1, <1>3, <1>5, InfoKept, NmeaKept DEF R!state, R!history
<1>. QED
  BY <1>7, <1>8, <1>11, <1>12 DEF ReportInv

LEMMA OtherSent ==
  ASSUME EpochsNumbered, ReportInv, NEW m \in ReportMessage, m.is \notin Timed,
         m.is = "nmea" => m.debug \/ shape.provider # "AP", R!other(m)
  PROVE  ReportInv'
<1>1. ReportTypes /\ Ordered /\ InStep /\ R!InfoKnown /\ NmeaOfOne /\ MaxEpochs \in Nat
  BY DEF ReportInv, EpochsNumbered
<1>2. /\ R!post(m) /\ others' = others + 1
      /\ UNCHANGED <<shape, hub, epoch, phase, R!state, R!history>>
  BY DEF R!other
<1>3. /\ mail' \in Seq(ReportMessage)
      /\ \A k, e : e \in Of(mail', k) <=> e \in Of(mail, k) \/ (m.is = k /\ e = m.epoch)
      /\ \A i \in 1..Len(mail') : (\E j \in 1..Len(mail) : mail'[i] = mail[j])
                                  \/ mail'[i] = m
  BY <1>2, Posted
<1>4. moment \in Int /\ moment' = moment /\ Measured' = Measured /\ Located' = Located
  BY <1>1, <1>2, Moments DEF moment, Measured, Located
<1>5. moment' \in Int /\ moment <= moment'
  BY <1>4
<1>6. Ordered'
  <2>1. mail' = Append(mail, m) /\ UNCHANGED <<shape, hub>>
    BY <1>2 DEF R!post
  <2>2. m.is \in Timed => m.is \in Direct /\ rank(m) = moment /\ moment < moment'
    OBVIOUS
  <2>3. ReportTypes /\ Ordered /\ m \in ReportMessage /\ moment' \in Int /\ moment <= moment'
    BY <1>1, <1>5
  <2>. QED
    BY ONLY <2>1, <2>2, <2>3, OrderedPosted
<1>7. ReportTypes'
  <2>1. others' \in Nat
    BY <1>1, <1>2 DEF ReportTypes
  <2>2. UNCHANGED <<hub, epoch, phase, mGnssLatencyInfoQueue, behind, mClientData, learnt,
                    mLocSystemInfo, outcome>>
    BY <1>2 DEF R!state, R!history
  <2>. QED
    BY <1>1, <1>3, <2>1, <2>2 DEF ReportTypes
<1>8. \A k \in Timed : \A e : e \in Of(mail', k) <=> e \in Of(mail, k)
  BY <1>3
<1>9. /\ \A e : e \in Of(mail', "position") <=> e \in Of(mail, "position")
      /\ \A e : e \in Of(mail', "fused") <=> e \in Of(mail, "fused")
      /\ \A e : e \in Of(mail', "latency") <=> e \in Of(mail, "latency")
      /\ \A e : e \in Of(mail', "satellites") <=> e \in Of(mail, "satellites")
  BY <1>8 DEF Timed
<1>10. UNCHANGED <<shape, hub, mGnssLatencyInfoQueue, mGnssSvIdUsedInPosition, logged, flagged,
                   outcome, behind>>
  BY <1>2 DEF R!state, R!history
<1>11. InStep'
  BY <1>1, <1>4, <1>5, <1>9, <1>10, StepKept
<1>12. R!InfoKnown'
  BY <1>1, <1>2, InfoKept DEF R!state, R!history
<1>13. NmeaOfOne'
  BY <1>1, <1>2, <1>3 DEF NmeaOfOne, R!history
<1>. QED
  BY <1>6, <1>7, <1>11, <1>12, <1>13 DEF ReportInv

LEMMA OthersAre ==
  ASSUME ReportTypes
  PROVE  /\ \A debug \in BOOLEAN : [is |-> "nmea", debug |-> debug] \in ReportMessage
         /\ \A parts \in SUBSET R!Part :
              [is |-> "system", parts |-> parts, version |-> others + 1] \in ReportMessage
         /\ \A c \in {1}, wanted \in Callbacks :
              [is |-> "add", client |-> c, callbacks |-> wanted] \in ReportMessage
         /\ \A c \in {1} : [is |-> "remove", client |-> c] \in ReportMessage
         /\ \A on \in BOOLEAN : [is |-> "track", on |-> on] \in ReportMessage
<1>1. others + 1 \in Nat
  BY DEF ReportTypes
<1>. QED
  BY <1>1 DEF ReportMessage

LEMMA HubReported == ASSUME EpochsNumbered, ReportInv, R!reportFromEngineHub  PROVE ReportInv'
<1>1. ReportTypes /\ Ordered /\ InStep /\ R!InfoKnown /\ NmeaOfOne /\ MaxEpochs \in Nat
  BY DEF ReportInv, EpochsNumbered
<1>2. /\ hub # <<>> /\ hub' = Tail(hub) /\ mail' = Append(mail, Head(hub))
      /\ UNCHANGED <<shape, epoch, phase, others, R!state, R!history>>
  BY DEF R!reportFromEngineHub, R!post
<1>3. /\ Ordered' /\ shape.hub /\ mail' \in Seq(ReportMessage) /\ hub' \in Seq(HubMessage)
      /\ \A e : e \in Of(mail', "fused") \cup Of(hub', "fused")
                 <=> e \in Of(mail, "fused") \cup Of(hub, "fused")
      /\ \A e : e \in Of(mail', "position") <=> e \in Of(mail, "position")
      /\ \A e : e \in Of(mail', "latency") <=> e \in Of(mail, "latency")
      /\ \A i \in 1..Len(mail') :
           \/ i \in 1..Len(mail) /\ mail'[i] = mail[i]
           \/ mail'[i].is \in {"fused", "satellites"}
  BY <1>1, <1>2, OrderedFromHub
<1>4. moment \in Int /\ moment' = moment /\ Measured' = Measured /\ Located' = Located
  BY <1>1, <1>2, Moments DEF moment, Measured, Located
<1>5. moment' \in Int /\ moment <= moment'
  BY <1>4
<1>6. ReportTypes'
  BY <1>1, <1>2, <1>3 DEF ReportTypes, R!state, R!history
<1>7. UNCHANGED <<shape, mGnssLatencyInfoQueue, mGnssSvIdUsedInPosition, logged, flagged, outcome,
                  behind>>
  BY <1>2 DEF R!state, R!history
<1>8. \A e : e \in Of(mail', "fused") \cup Of(hub', "fused") \cup Of(mail', "position")
              <=> e \in Of(mail, "fused") \cup Of(hub, "fused") \cup Of(mail, "position")
  BY <1>3
<1>9. InStep'
  BY <1>1, <1>3, <1>4, <1>5, <1>7, <1>8, StepKept
<1>10. R!InfoKnown'
  BY <1>1, <1>2, InfoKept DEF R!state, R!history
<1>11. NmeaOfOne'
  BY <1>1, <1>2, <1>3 DEF NmeaOfOne, R!history
<1>. QED
  BY <1>3, <1>6, <1>9, <1>10, <1>11 DEF ReportInv

\* What the task takes, and what is left.
LEMMA Took ==
  ASSUME ReportInv, NEW is, R!take(is)
  PROVE  /\ mail # <<>> /\ mail' = Tail(mail) /\ mail' \in Seq(ReportMessage)
         /\ R!taken \in ReportMessage /\ R!taken.is = is
         /\ \A k, e : e \in Of(mail, k) <=> e \in Of(mail', k) \/ (is = k /\ e = R!taken.epoch)
         /\ \A i \in 1..Len(mail') : \E j \in 1..Len(mail) : mail'[i] = mail[j]
         /\ R!taken = mail[1] /\ 1 \in 1..Len(mail)
         /\ is \in Direct => \A k \in Direct : \A e \in Of(mail', k) :
                               3 * R!taken.epoch + offset(is) < 3 * e + offset(k) /\ e \in Int
         /\ is = "fused" => \A e \in Of(mail', "fused") : R!taken.epoch < e
         /\ is \in Direct \cup {"fused"} => 3 * R!taken.epoch + offset(is) < moment
                                          /\ R!taken.epoch \in 1..MaxEpochs /\ R!taken.epoch \in Int
         /\ UNCHANGED <<shape, epoch, phase, others>>
         /\ moment' = moment /\ moment \in Int /\ Measured' = Measured /\ Located' = Located
<1>. DEFINE m == Head(mail)
<1>1. /\ mail # <<>> /\ mail' = Tail(mail) /\ m.is = is
      /\ UNCHANGED <<shape, epoch, phase, others>>
  BY DEF R!take
<1>2. ReportTypes /\ Ordered /\ mail \in Seq(ReportMessage)
  BY DEF ReportInv, ReportTypes
<1>3. /\ \A k, e : e \in Of(mail, k) <=> e \in Of(mail', k) \/ (m.is = k /\ e = m.epoch)
      /\ \A K : InRank(mail, K) =>
           InRank(mail', K) /\ (m.is \in K => \A i \in 1..Len(mail') : mail'[i].is \in K
                                                                  => rank(m) < rank(mail'[i]))
      /\ \A i \in 1..Len(mail') : \E j \in 1..Len(mail) : mail'[i] = mail[j]
      /\ m = mail[1] /\ 1 \in 1..Len(mail) /\ m \in ReportMessage
  BY <1>1, <1>2, QueuePopped
<1>4. mail' \in Seq(ReportMessage)
  BY <1>1, <1>2, Popped
<1>. HIDE DEF m
<1>5. /\ InRank(mail, Direct) /\ Sent(mail, Direct) /\ InRank(mail, {"fused"})
      /\ Sent(mail, {"fused"})
  BY <1>2 DEF Ordered
<1>6. rank(m) = 3 * m.epoch + offset(is)
  BY <1>1 DEF rank, m
<1>7. \A i \in 1..Len(mail') : mail'[i] \in ReportMessage
  BY <1>4
<1>8. ASSUME is \in Direct, NEW k \in Direct, NEW e \in Of(mail', k)
      PROVE  3 * m.epoch + offset(is) < 3 * e + offset(k) /\ e \in Int
  <2>1. \A i \in 1..Len(mail') : mail'[i].is \in Direct => rank(m) < rank(mail'[i])
    BY <1>1, <1>3, <1>5, <1>8 DEF m
  <2>2. rank(m) < 3 * e + offset(k)
    BY ONLY <1>7, <2>1, <1>8, EpochsLater
  <2>3. k \in Timed
    BY <1>8, Kinds
  <2>4. e \in 1..MaxEpochs
    BY <1>7, <1>8, <2>3, EpochsAre
  <2>. QED
    BY <1>6, <2>2, <2>4
<1>9. is \in Direct \cup {"fused"} => /\ 3 * m.epoch + offset(is) < moment
                                      /\ m.epoch \in 1..MaxEpochs /\ m.epoch \in Int
  <2>. SUFFICES ASSUME is \in Direct \cup {"fused"}
                PROVE  /\ 3 * m.epoch + offset(is) < moment
                       /\ m.epoch \in 1..MaxEpochs /\ m.epoch \in Int
    OBVIOUS
  <2>1. m.is = is /\ m.is \in Timed
    BY <1>1, Kinds DEF m
  <2>2. m.epoch \in 1..MaxEpochs
    BY Zenon, <1>3, <2>1, MessageIs
  <2>3. rank(m) < moment
    BY <1>3, <1>5, <2>1 DEF Sent
  <2>. QED
    BY <1>6, <2>2, <2>3
<1>10. ASSUME is = "fused", NEW e \in Of(mail', "fused")  PROVE m.epoch < e
  <2>1. \A i \in 1..Len(mail') : mail'[i].is \in {"fused"} => rank(m) < rank(mail'[i])
    BY <1>1, <1>3, <1>5, <1>10 DEF m
  <2>2. rank(m) < 3 * e + offset("fused")
    BY Zenon, <1>7, <2>1, <1>10, EpochsLater
  <2>3. e \in 1..MaxEpochs
    BY <1>7, <1>10, Kinds, EpochsAre
  <2>. QED
    BY <1>6, <1>9, <1>10, <2>2, <2>3, Kinds
<1>11. moment' = moment /\ moment \in Int /\ Measured' = Measured /\ Located' = Located
  BY <1>1, <1>2, Moments DEF moment, Measured, Located
<1>12. m.is = is
  BY <1>1 DEF m
<1>. QED
  BY <1>1, <1>3, <1>4, <1>8, <1>9, <1>10, <1>11, <1>12 DEF m, R!taken

LEMMA OrderedTook == ASSUME ReportInv, NEW is, R!take(is), hub' = hub  PROVE Ordered'
<1>1. mail # <<>> /\ mail' = Tail(mail) /\ UNCHANGED <<shape, hub, epoch, phase>>
  BY DEF R!take
<1>. QED
  BY <1>1, OrderedTaken DEF ReportInv

LEMMA NmeaTook ==
  ASSUME ReportInv, NEW is, R!take(is),
         \/ sources' = sources
         \/ shape.provider = "AP" /\ sources' = sources \cup {"adapter"}
         \/ shape.provider # "AP" /\ sources' = sources \cup {"modem"}
  PROVE  NmeaOfOne'
<1>1. /\ \A i \in 1..Len(mail') : \E j \in 1..Len(mail) : mail'[i] = mail[j]
      /\ UNCHANGED shape
  BY Took
<1>2. /\ sources \subseteq IF shape.provider = "AP" THEN {"adapter"} ELSE {"modem"}
      /\ \A i \in 1..Len(mail) : mail[i].is = "nmea" /\ shape.provider = "AP" => mail[i].debug
  BY DEF ReportInv, NmeaOfOne
<1>3. sources' \subseteq IF shape.provider = "AP" THEN {"adapter"} ELSE {"modem"}
  BY Zenon, <1>2
<1>4. \A i \in 1..Len(mail') : mail'[i].is = "nmea" /\ shape.provider = "AP" => mail'[i].debug
  BY <1>1, <1>2
<1>. QED
  BY <1>1, <1>3, <1>4 DEF NmeaOfOne

\* The clients and what they know, the session, and NMEA.
LEMMA OtherTook ==
  ASSUME EpochsNumbered, ReportInv, NEW is, is \notin Timed, R!take(is),
         UNCHANGED <<hub, mGnssLatencyInfoQueue, mGnssSvIdUsedInPosition, logged, flagged, outcome,
                     behind>>
  PROVE  Ordered' /\ InStep'
<1>1. /\ mail # <<>> /\ mail' = Tail(mail)
      /\ \A k, e : e \in Of(mail, k) <=> e \in Of(mail', k) \/ (is = k /\ e = R!taken.epoch)
      /\ UNCHANGED <<shape, epoch, phase>>
      /\ moment' = moment /\ moment \in Int /\ Measured' = Measured /\ Located' = Located
  BY Took
<1>2. Ordered'
  BY OrderedTook
<1>3. \A k \in Timed : \A e : e \in Of(mail', k) <=> e \in Of(mail, k)
  BY <1>1
<1>4. /\ \A e : e \in Of(mail', "position") <=> e \in Of(mail, "position")
      /\ \A e : e \in Of(mail', "fused") <=> e \in Of(mail, "fused")
      /\ \A e : e \in Of(mail', "latency") <=> e \in Of(mail, "latency")
      /\ \A e : e \in Of(mail', "satellites") <=> e \in Of(mail, "satellites")
  BY <1>3 DEF Timed
<1>5. InStep /\ MaxEpochs \in Nat /\ moment' \in Int /\ moment <= moment'
  BY <1>1 DEF ReportInv, EpochsNumbered
<1>6. InStep'
  BY <1>1, <1>4, <1>5, StepKept
<1>. QED
  BY <1>2, <1>6

LEMMA TypesTook ==
  ASSUME ReportInv, NEW is, R!take(is), hub' \in Seq(HubMessage),
         mGnssLatencyInfoQueue' \in Seq(Nat), behind' \in Nat, DOMAIN mClientData' = {1},
         DOMAIN learnt' = {1}, mLocSystemInfo' \in [R!Part -> Nat], DOMAIN outcome' = 1..MaxEpochs,
         \A e \in 1..MaxEpochs : outcome'[e] # None => outcome'[e].fix \in Computed
  PROVE  ReportTypes'
<1>1. mail' \in Seq(ReportMessage) /\ UNCHANGED <<epoch, phase, others>>
  BY Took
<1>. QED
  BY <1>1 DEF ReportInv, ReportTypes

LEMMA TypesBefore ==
  ASSUME ReportInv
  PROVE  /\ hub \in Seq(HubMessage) /\ mGnssLatencyInfoQueue \in Seq(Nat) /\ behind \in Nat
         /\ DOMAIN mClientData = {1} /\ DOMAIN learnt = {1} /\ mLocSystemInfo \in [R!Part -> Nat]
         /\ DOMAIN outcome = 1..MaxEpochs
         /\ \A e \in 1..MaxEpochs : outcome[e] # None => outcome[e].fix \in Computed
BY DEF ReportInv, ReportTypes

LEMMA NmeaTaken ==
  ASSUME EpochsNumbered, ReportInv, R!take("nmea"), R!MsgReportNmea(R!taken)
  PROVE  ReportInv'
<1>1. /\ sources' = IF R!taken.debug THEN sources ELSE sources \cup {"modem"}
      /\ UNCHANGED <<hub, mClientData, tracking, mGnssLatencyInfoQueue, mGnssSvIdUsedInPosition,
                     mLocSystemInfo, learnt, logged, flagged, outcome, behind>>
  BY DEF R!MsgReportNmea, R!state
<1>2. Ordered' /\ InStep'
  BY <1>1, OtherTook DEF Timed
<1>3. ReportTypes'
  BY <1>1, TypesTook, TypesBefore
<1>4. R!InfoKnown'
  BY <1>1, InfoKept DEF ReportInv
<1>5. R!taken \in ReportMessage /\ R!taken.is = "nmea" /\ R!taken = mail[1] /\ 1 \in 1..Len(mail)
  BY Took
<1>6. R!taken.debug \/ shape.provider # "AP"
  BY <1>5 DEF ReportInv, NmeaOfOne
<1>7. NmeaOfOne'
  BY <1>1, <1>6, NmeaTook
<1>. QED
  BY <1>2, <1>3, <1>4, <1>7 DEF ReportInv

LEMMA SystemTaken ==
  ASSUME EpochsNumbered, ReportInv, R!take("system"), R!reportLocationSystemInfo(R!taken)
  PROVE  ReportInv'
<1>. DEFINE m == R!taken
<1>1. /\ mLocSystemInfo' = [p \in R!Part |-> IF p \in m.parts THEN m.version ELSE mLocSystemInfo[p]]
      /\ learnt' = [c \in {1} |-> [p \in R!Part |-> IF p \in m.parts /\ R!wants(c) THEN m.version
                                                    ELSE learnt[c][p]]]
      /\ UNCHANGED <<hub, mClientData, tracking, mGnssLatencyInfoQueue, mGnssSvIdUsedInPosition,
                      sources, logged, flagged, outcome, behind>>
  BY DEF R!reportLocationSystemInfo
<1>2. Ordered' /\ InStep'
  BY <1>1, OtherTook DEF Timed
<1>3. m \in ReportMessage /\ m.is = "system"
  BY Took
<1>4. m.version \in Nat
  BY Zenon, <1>3, MessageIs
<1>. HIDE DEF m
<1>5. mLocSystemInfo' \in [R!Part -> Nat] /\ DOMAIN learnt' = {1}
  BY <1>1, <1>4, TypesBefore
<1>6. ReportTypes'
  BY <1>1, <1>5, TypesTook, TypesBefore
<1>7. R!InfoKnown'
  <2>. SUFFICES ASSUME NEW c \in {1}, R!wants(c)'  PROVE learnt'[c] = mLocSystemInfo'
    BY DEF R!InfoKnown
  <2>1. R!wants(c)
    BY <1>1 DEF R!wants
  <2>2. learnt[c] = mLocSystemInfo
    BY <2>1 DEF ReportInv, R!InfoKnown
  <2>3. learnt'[c] = [p \in R!Part |-> IF p \in m.parts THEN m.version ELSE mLocSystemInfo[p]]
    BY <1>1, <2>1, <2>2
  <2>. QED
    BY <1>1, <2>3
<1>8. NmeaOfOne'
  BY <1>1, NmeaTook
<1>. QED
  BY <1>2, <1>6, <1>7, <1>8 DEF ReportInv

LEMMA AddTaken ==
  ASSUME EpochsNumbered, ReportInv, R!take("add"), R!MsgAddClient(R!taken)
  PROVE  ReportInv'
<1>1. /\ R!notifyClientOfCachedLocationSystemInfo(R!taken.client, R!taken.callbacks)
      /\ mClientData' = [mClientData EXCEPT ![R!taken.client] = R!taken.callbacks]
      /\ UNCHANGED <<hub, tracking, mGnssLatencyInfoQueue, mGnssSvIdUsedInPosition, mLocSystemInfo,
                     sources, logged, flagged, outcome, behind>>
  BY DEF R!MsgAddClient
<1>2. Ordered' /\ InStep'
  BY <1>1, OtherTook DEF Timed
<1>3. R!taken \in ReportMessage /\ R!taken.is = "add"
  BY Took
<1>4. R!taken.client \in {1}
  BY Zenon, <1>3, MessageIs
<1>5. learnt' = IF "system" \in R!taken.callbacks /\ ~R!wants(R!taken.client)
                THEN [learnt EXCEPT ![R!taken.client] = mLocSystemInfo] ELSE learnt
  BY <1>1 DEF R!notifyClientOfCachedLocationSystemInfo
<1>6. DOMAIN mClientData' = {1} /\ DOMAIN learnt' = {1}
  BY <1>1, <1>5, TypesBefore
<1>7. ReportTypes'
  BY <1>1, <1>6, TypesTook, TypesBefore
<1>8. R!InfoKnown'
  <2>. SUFFICES ASSUME NEW c \in {1}, mClientData'[c] # None, "system" \in mClientData'[c]
                PROVE  learnt'[c] = mLocSystemInfo
    BY <1>1 DEF R!InfoKnown, R!wants
  <2>1. R!wants(c) => learnt[c] = mLocSystemInfo
    BY DEF ReportInv, R!InfoKnown
  <2>2. CASE c # R!taken.client
    <3>1. R!wants(c) /\ learnt'[c] = learnt[c]
      BY <1>1, <1>5, <2>2, TypesBefore DEF R!wants
    <3>. QED
      BY <2>1, <3>1
  <2>3. CASE c = R!taken.client
    <3>1. "system" \in R!taken.callbacks
      BY <1>1, <2>3, TypesBefore
    <3>. QED
      BY <1>5, <2>1, <2>3, <3>1, TypesBefore
  <2>. QED
    BY <2>2, <2>3
<1>9. NmeaOfOne'
  BY <1>1, NmeaTook
<1>. QED
  BY <1>2, <1>7, <1>8, <1>9 DEF ReportInv

LEMMA RemoveTaken ==
  ASSUME EpochsNumbered, ReportInv, R!take("remove"), R!MsgRemoveClient(R!taken)
  PROVE  ReportInv'
<1>1. /\ mClientData' = [mClientData EXCEPT ![R!taken.client] = None]
      /\ learnt' = [learnt EXCEPT ![R!taken.client] = R!Unknown]
      /\ UNCHANGED <<hub, tracking, mGnssLatencyInfoQueue, mGnssSvIdUsedInPosition, mLocSystemInfo,
                     sources, logged, flagged, outcome, behind>>
  BY DEF R!MsgRemoveClient
<1>2. Ordered' /\ InStep'
  BY <1>1, OtherTook DEF Timed
<1>3. DOMAIN mClientData' = {1} /\ DOMAIN learnt' = {1}
  BY <1>1, TypesBefore
<1>4. ReportTypes'
  BY <1>1, <1>3, TypesTook, TypesBefore
<1>5. R!InfoKnown'
  <2>. SUFFICES ASSUME NEW c \in {1}, mClientData'[c] # None, "system" \in mClientData'[c]
                PROVE  learnt'[c] = mLocSystemInfo
    BY <1>1 DEF R!InfoKnown, R!wants
  <2>1. c # R!taken.client /\ mClientData'[c] = mClientData[c] /\ learnt'[c] = learnt[c]
    BY <1>1, TypesBefore
  <2>. QED
    BY <2>1 DEF ReportInv, R!InfoKnown, R!wants
<1>6. NmeaOfOne'
  BY <1>1, NmeaTook
<1>. QED
  BY <1>2, <1>4, <1>5, <1>6 DEF ReportInv

LEMMA TrackTaken ==
  ASSUME EpochsNumbered, ReportInv, R!take("track"), R!MsgTrack(R!taken)
  PROVE  ReportInv'
<1>1. UNCHANGED <<hub, mClientData, mGnssLatencyInfoQueue, mGnssSvIdUsedInPosition, mLocSystemInfo,
                  learnt, sources, logged, flagged, outcome, behind>>
  BY DEF R!MsgTrack, R!history
<1>2. Ordered' /\ InStep'
  BY <1>1, OtherTook DEF Timed
<1>3. ReportTypes'
  BY <1>1, TypesTook, TypesBefore
<1>4. R!InfoKnown' /\ NmeaOfOne'
  BY <1>1, InfoKept, NmeaTook DEF ReportInv
<1>. QED
  BY <1>2, <1>3, <1>4 DEF ReportInv

\* The reports of the epochs.
LEMMA LatencyTaken ==
  ASSUME EpochsNumbered, ReportInv, R!take("latency"), R!MsgReportLatencyInfo(R!taken)
  PROVE  ReportInv'
<1>. DEFINE h == R!taken.epoch
            l == Len(mGnssLatencyInfoQueue)
<1>1. /\ mGnssLatencyInfoQueue' = Append(mGnssLatencyInfoQueue, h)
      /\ UNCHANGED <<hub, mClientData, tracking, mGnssSvIdUsedInPosition, mLocSystemInfo, learnt,
                     sources, logged, flagged, outcome, behind>>
  BY DEF R!MsgReportLatencyInfo, R!history
<1>2. /\ \A k, e : e \in Of(mail, k) <=> e \in Of(mail', k) \/ ("latency" = k /\ e = h)
      /\ \A e \in Of(mail', "latency") : 3 * h < 3 * e /\ e \in Int
      /\ h \in 1..MaxEpochs /\ h \in Int /\ UNCHANGED shape
      /\ moment' = moment /\ moment \in Int /\ Measured' = Measured /\ Located' = Located
  <2>1. \A e \in Of(mail', "latency") : 3 * h + offset("latency") < 3 * e + offset("latency")
                                        /\ e \in Int
    BY Took, Kinds
  <2>2. h \in 1..MaxEpochs /\ h \in Int
    BY Took, Kinds
  <2>3. \A e \in Of(mail', "latency") : 3 * h < 3 * e /\ e \in Int
    BY <2>1, <2>2, Kinds
  <2>. QED
    BY <2>2, <2>3, Took
<1>3. mGnssLatencyInfoQueue \in Seq(Nat) /\ h \in Nat
  BY <1>2, TypesBefore
<1>. HIDE DEF h, l
<1>4. /\ mGnssLatencyInfoQueue' \in Seq(Nat) /\ l \in Nat /\ l' = l + 1
      /\ \A i \in 1..l : mGnssLatencyInfoQueue'[i] = mGnssLatencyInfoQueue[i]
      /\ mGnssLatencyInfoQueue'[l + 1] = h
  BY <1>1, <1>3, Pushed DEF l
<1>5. Ordered'
  BY <1>1, OrderedTook
<1>6. ReportTypes'
  BY <1>1, <1>4, TypesTook, TypesBefore
<1>7. /\ \A e : e \in Of(mail', "position") <=> e \in Of(mail, "position")
      /\ \A e : e \in Of(mail', "fused") <=> e \in Of(mail, "fused")
      /\ \A e : e \in Of(mail', "satellites") <=> e \in Of(mail, "satellites")
      /\ \A e : e \in Of(mail, "latency") <=> e \in Of(mail', "latency") \/ e = h
  BY <1>2
<1>8. InStep'
  <2>1. PICK n \in 0..MaxEpochs :
         /\ behind = 0 \/ ~shape.hub => PositionsDue(n)
         /\ behind = 0 => LatenciesDue(n)
         /\ ~shape.hub => SatellitesDue(n)
    BY DEF ReportInv, InStep
  <2>2. ASSUME PositionsDue(n)  PROVE PositionsDue(n)'
    BY <1>1, <1>2, <1>7, <2>2, PositionsKept
  <2>3. ASSUME LatenciesDue(n)  PROVE LatenciesDue(n)'
    <3>1. /\ \A i \in 1..l : mGnssLatencyInfoQueue[i] = n + i
          /\ n + l <= Measured /\ R!LatencyMatches
          /\ \A e : e \in Of(mail, "latency") <=> e \in n + l + 1..Measured
          /\ \A e \in Of(mail, "fused") \cup Of(hub, "fused") : e <= n + l
      BY <2>3 DEF LatenciesDue, l
    <3>2. n \in Int /\ Measured \in Int
      BY <1>6, <1>2 DEF ReportTypes, Measured
    <3>3. h \in n + l + 1..Measured
      BY <1>7, <3>1
    <3>4. n + l + 1 \in n + l + 1..Measured
      BY <1>4, <3>2, <3>3
    <3>5. n + l + 1 \in Of(mail, "latency")
      BY <3>1, <3>4
    <3>6. h = n + l + 1
      BY <1>2, <1>4, <1>7, <3>2, <3>3, <3>5
    <3>7. \A e : e \in Of(mail', "latency") <=> e \in n + l' + 1..Measured
      <4>. TAKE e
      <4>1. e \in Of(mail', "latency") => e \in n + l + 1..Measured /\ h < e /\ e \in Int
        BY <1>2, <1>7, <3>1
      <4>2. e \in n + l + 2..Measured => e \in n + l + 1..Measured /\ e # h
        BY <1>4, <3>2, <3>6
      <4>3. e \in n + l + 2..Measured => e \in Of(mail', "latency")
        BY <1>7, <3>1, <4>2
      <4>4. e \in Of(mail', "latency") => e \in n + l + 2..Measured
        BY <1>4, <3>2, <3>6, <4>1
      <4>5. n + l' + 1 = n + l + 2
        BY <1>4, <3>2
      <4>. QED
        BY <4>3, <4>4, <4>5
    <3>8. \A i \in 1..l' : mGnssLatencyInfoQueue'[i] = n + i
      <4>1. \A i \in 1..l' : i \in 1..l \/ i = l + 1
        BY <1>4
      <4>. QED
        BY <1>4, <3>1, <3>2, <3>6, <4>1
    <3>9. n + l' <= Measured'
      BY <1>2, <1>4, <3>2, <3>3, <3>6
    <3>10. \A e \in Of(mail', "fused") \cup Of(hub', "fused") : e <= n + l'
      <4>1. ASSUME NEW e \in Of(mail, "fused") \cup Of(hub, "fused")  PROVE e <= n + l'
        <5>1. e \in Int
          <6>1. e \in 1..MaxEpochs
            BY <4>1, HubTyped, EpochsAre, Kinds DEF ReportInv
          <6>. QED
            BY <6>1
        <5>. QED
          BY <1>4, <3>1, <3>2, <5>1
      <4>. QED
        BY <1>1, <1>7, <4>1
    <3>11. R!LatencyMatches'
      BY <1>1, <3>1 DEF R!LatencyMatches
    <3>12. \A e : e \in Of(mail', "latency") <=> e \in n + l' + 1..Measured'
      BY <1>2, <3>7
    <3>. QED
      BY <3>8, <3>9, <3>10, <3>11, <3>12 DEF LatenciesDue, l
  <2>4. ASSUME SatellitesDue(n)  PROVE SatellitesDue(n)'
    <3>1. n \in Nat /\ moment' \in Int /\ moment <= moment'
      BY <1>2
    <3>. QED
      BY <1>1, <1>2, <1>7, <2>4, <3>1, SatellitesKept
  <2>5. /\ behind' = 0 \/ ~shape'.hub => PositionsDue(n)'
        /\ behind' = 0 => LatenciesDue(n)'
        /\ ~shape'.hub => SatellitesDue(n)'
    BY <1>1, <1>2, <2>1, <2>2, <2>3, <2>4
  <2>. QED
    BY <2>5 DEF InStep
<1>9. R!InfoKnown' /\ NmeaOfOne'
  BY <1>1, InfoKept, NmeaTook DEF ReportInv
<1>. QED
  BY <1>5, <1>6, <1>8, <1>9 DEF ReportInv

\* A position that has its outcome: the next is due.
LEMMA PositionsDone ==
  ASSUME NEW n \in Nat, PositionsDue(n), NEW h \in Int, Located \in Int, Located' = Located,
         \A e \in 1..MaxEpochs : e # h => outcome'[e] = outcome[e],
         outcome'[h] # None,
         \A e : e \in Of(mail, "fused") \cup Of(hub, "fused") \cup Of(mail, "position")
                 <=> e \in Of(mail', "fused") \cup Of(hub', "fused") \cup Of(mail', "position")
                     \/ e = h,
         \A e \in Of(mail', "fused") \cup Of(hub', "fused") \cup Of(mail', "position") : h < e
  PROVE  h = n + 1 /\ PositionsDue(n + 1)'
<1>. DEFINE P == Of(mail, "fused") \cup Of(hub, "fused") \cup Of(mail, "position")
            Q == Of(mail', "fused") \cup Of(hub', "fused") \cup Of(mail', "position")
<1>1. /\ \A e \in 1..MaxEpochs : outcome[e] # None <=> e <= n
      /\ n <= Located /\ \A e : e \in P <=> e \in n + 1..Located
  BY DEF PositionsDue
<1>2. (\A e : e \in P <=> e \in Q \/ e = h) /\ \A e \in Q : h < e
  OBVIOUS
<1>. HIDE DEF P, Q
<1>3. h \in n + 1..Located
  BY <1>1, <1>2
<1>4. n + 1 \in n + 1..Located
  BY <1>3
<1>5. n + 1 \in Q \/ n + 1 = h
  BY <1>1, <1>2, <1>4
<1>6. h = n + 1
  BY <1>2, <1>3, <1>5
<1>7. \A e : e \in Q <=> e \in n + 1 + 1..Located
  <2>. TAKE e
  <2>1. e \in Q => e \in n + 1..Located /\ h < e
    BY <1>1, <1>2
  <2>2. e \in n + 1 + 1..Located => e \in n + 1..Located /\ e # h
    BY <1>6
  <2>. QED
    BY <1>1, <1>2, <1>6, <2>1, <2>2
<1>8. \A e \in 1..MaxEpochs : outcome'[e] # None <=> e <= n + 1
  BY <1>1, <1>6
<1>9. n + 1 <= Located
  BY <1>4
<1>10. (\A e : e \in Q <=> e \in n + 1 + 1..Located') /\ n + 1 <= Located'
  BY <1>7, <1>9
<1>. QED
  BY <1>6, <1>8, <1>10 DEF PositionsDue, Q

LEMMA LatenciesDone ==
  ASSUME NEW n \in Nat, LatenciesDue(n), mGnssLatencyInfoQueue \in Seq(Nat),
         mGnssLatencyInfoQueue # <<>>, R!logLatencyInfo(n + 1), Measured' = Measured,
         \A e : e \in Of(mail', "latency") <=> e \in Of(mail, "latency"),
         \A e : e \in Of(mail', "fused") \cup Of(hub', "fused")
                => e \in Of(mail, "fused") \cup Of(hub, "fused")
  PROVE  LatenciesDue(n + 1)'
<1>. DEFINE l == Len(mGnssLatencyInfoQueue)
<1>1. /\ \A i \in 1..l : mGnssLatencyInfoQueue[i] = n + i
      /\ n + l <= Measured
      /\ \A e : e \in Of(mail, "latency") <=> e \in n + l + 1..Measured
      /\ \A e \in Of(mail, "fused") \cup Of(hub, "fused") : e <= n + l
  BY DEF LatenciesDue
<1>2. /\ mGnssLatencyInfoQueue' = Tail(mGnssLatencyInfoQueue)
      /\ logged' = [latency |-> Head(mGnssLatencyInfoQueue), position |-> n + 1]
  BY DEF R!logLatencyInfo
<1>3. /\ l \in Nat /\ l >= 1 /\ l' = l - 1
      /\ \A i \in 1..(l - 1) : mGnssLatencyInfoQueue'[i] = mGnssLatencyInfoQueue[i + 1]
      /\ Head(mGnssLatencyInfoQueue) = mGnssLatencyInfoQueue[1]
  BY <1>2, Popped
<1>. HIDE DEF l
<1>4. \A i \in 1..l' : mGnssLatencyInfoQueue'[i] = n + 1 + i
  <2>1. \A i \in 1..l' : i \in 1..(l - 1) /\ i + 1 \in 1..l /\ n + (i + 1) = n + 1 + i
    BY <1>3
  <2>. QED
    BY <1>1, <1>3, <2>1
<1>5. Head(mGnssLatencyInfoQueue) = n + 1
  BY <1>1, <1>3
<1>6. R!LatencyMatches'
  BY <1>2, <1>5 DEF R!LatencyMatches
<1>7. n + 1 + l' = n + l
  BY <1>3
<1>8. n + 1 + l' <= Measured'
  BY <1>1, <1>7
<1>9. \A e : e \in Of(mail', "latency") <=> e \in n + 1 + l' + 1..Measured'
  BY <1>1, <1>7
<1>10. \A e \in Of(mail', "fused") \cup Of(hub', "fused") : e <= n + 1 + l'
  BY <1>1, <1>7
<1>. QED
  BY <1>4, <1>6, <1>8, <1>9, <1>10 DEF LatenciesDue, l

LEMMA SatellitesDone ==
  ASSUME NEW n \in Nat, SatellitesDue(n), UNCHANGED flagged, moment' = moment,
         \A e \in 1..n : outcome'[e] = outcome[e],
         \A e : e \in Of(mail', "satellites") => e \in Of(mail, "satellites") /\ n + 1 <= e,
         \/ outcome'[n + 1].to = "none" /\ UNCHANGED mGnssSvIdUsedInPosition
         \/ /\ outcome'[n + 1].to = "gnss"
            /\ mGnssSvIdUsedInPosition' = usedBy(outcome'[n + 1].fix)
         \/ outcome'[n + 1].to = "flp" /\ mGnssSvIdUsedInPosition' = None
  PROVE  SatellitesDue(n + 1)'
<1>1. /\ last \in 0..n /\ 3 * last + 2 < moment /\ FlagsFollow
      /\ (flagged # None => last # 0 /\ flagged.before \in Nat)
      /\ \A e \in Of(mail, "satellites") : last < e /\ n <= e
      /\ \/ mGnssSvIdUsedInPosition = None
         \/ \E e \in last + 1..n : /\ outcome[e].to = "gnss"
                                   /\ mGnssSvIdUsedInPosition = usedBy(outcome[e].fix)
  BY DEF SatellitesDue
<1>2. last' = last
  BY DEF last
<1>3. FlagsFollow'
  BY <1>1, FlagsKept
<1>4. last' \in 0..n + 1 /\ last' < n + 1 /\ n + 1 \in last' + 1..n + 1
      /\ \A e \in last + 1..n : e \in last' + 1..n + 1 /\ e \in 1..n
  BY <1>1, <1>2
<1>5. \/ mGnssSvIdUsedInPosition' = None
      \/ \E e \in last' + 1..n + 1 : /\ outcome'[e].to = "gnss"
                                     /\ mGnssSvIdUsedInPosition' = usedBy(outcome'[e].fix)
  BY Zenon, <1>1, <1>4
<1>6. \A f : usedBy(f)' = usedBy(f)
  BY DEF usedBy
<1>7. /\ \A e \in Of(mail', "satellites") : last' < e /\ n + 1 <= e
      /\ 3 * last' + 2 < moment' /\ (flagged' # None => last' # 0 /\ flagged'.before \in Nat)
  BY <1>1, <1>2
<1>8. /\ outcome'[n + 1].to = "gnss" => mGnssSvIdUsedInPosition' = usedBy(outcome'[n + 1].fix)
      /\ outcome'[n + 1].to = "flp" => mGnssSvIdUsedInPosition' = None
  OBVIOUS
<1>. QED
  BY Zenon, <1>3, <1>4, <1>5, <1>7, <1>8 DEF SatellitesDue, usedBy

\* Who was told, and what is kept of it; nobody was.
LEMMA Withheld ==
  ASSUME EpochsNumbered, ReportInv, NEW e \in 1..MaxEpochs, NEW fix \in Computed, R!withheld(e, fix)
  PROVE  /\ DOMAIN outcome' = 1..MaxEpochs /\ outcome'[e] # None
         /\ \A i \in 1..MaxEpochs : outcome'[i] # None => outcome'[i].fix \in Computed
         /\ \A i \in 1..MaxEpochs : i # e => outcome'[i] = outcome[i]
         /\ behind' \in Nat /\ behind' # 0 /\ outcome'[e].to = "none"
         /\ UNCHANGED <<mGnssLatencyInfoQueue, logged, mGnssSvIdUsedInPosition>>
<1>1. /\ behind' = behind + 1 /\ outcome' = [outcome EXCEPT ![e] = [to |-> "none", fix |-> fix]]
      /\ UNCHANGED <<mGnssLatencyInfoQueue, logged, mGnssSvIdUsedInPosition>>
  BY DEF R!withheld
<1>2. DOMAIN outcome = 1..MaxEpochs /\ behind \in Nat
      /\ \A i \in 1..MaxEpochs : outcome[i] # None => outcome[i].fix \in Computed
  BY TypesBefore
<1>3. [to |-> "none", fix |-> fix] # None
  BY DEF EpochsNumbered
<1>4. DOMAIN outcome' = 1..MaxEpochs /\ outcome'[e] = [to |-> "none", fix |-> fix]
      /\ \A i \in 1..MaxEpochs : i # e => outcome'[i] = outcome[i]
  BY <1>1, <1>2
<1>5. behind' \in Nat /\ behind' # 0
  BY <1>1, <1>2
<1>. QED
  BY <1>1, <1>2, <1>3, <1>4, <1>5

LEMMA OutcomeTold ==
  ASSUME EpochsNumbered, ReportInv, NEW e \in 1..MaxEpochs, NEW fix \in Computed,
         R!reportPosition(e, fix), ~R!withheld(e, fix)
  PROVE  /\ DOMAIN outcome' = 1..MaxEpochs /\ outcome'[e] # None
         /\ \A i \in 1..MaxEpochs : outcome'[i] # None => outcome'[i].fix \in Computed
         /\ \A i \in 1..MaxEpochs : i # e => outcome'[i] = outcome[i]
         /\ behind' = behind /\ R!logLatencyInfo(e) /\ mGnssLatencyInfoQueue' \in Seq(Nat)
         /\ \/ outcome'[e].to = "gnss" /\ mGnssSvIdUsedInPosition' = usedBy(outcome'[e].fix)
            \/ outcome'[e].to = "flp" /\ mGnssSvIdUsedInPosition' = None
<1>. DEFINE toGnss == R!needReportForGnssClient(fix)
            o == [to |-> IF toGnss THEN "gnss" ELSE "flp", fix |-> fix]
<1>1. /\ R!logLatencyInfo(e) /\ UNCHANGED behind
      /\ mGnssSvIdUsedInPosition' =
           IF toGnss /\ fix.used # None THEN [used |-> fix.used, multiband |-> fix.multiband] ELSE None
      /\ outcome' = [outcome EXCEPT ![e] = o]
  BY DEF R!reportPosition
<1>2. DOMAIN outcome = 1..MaxEpochs /\ mGnssLatencyInfoQueue \in Seq(Nat)
      /\ \A i \in 1..MaxEpochs : outcome[i] # None => outcome[i].fix \in Computed
  BY TypesBefore
<1>3. o # None
  BY DEF EpochsNumbered
<1>. HIDE DEF toGnss
<1>4. o.to = (IF toGnss THEN "gnss" ELSE "flp") /\ o.fix = fix
  OBVIOUS
<1>. HIDE DEF o
<1>5. DOMAIN outcome' = 1..MaxEpochs /\ outcome'[e] = o
      /\ \A i \in 1..MaxEpochs : i # e => outcome'[i] = outcome[i]
  BY <1>1, <1>2
<1>6. mGnssLatencyInfoQueue' \in Seq(Nat)
  BY Zenon, <1>1, <1>2, Popped DEF R!logLatencyInfo
<1>7. \/ o.to = "gnss" /\ mGnssSvIdUsedInPosition' = usedBy(o.fix)
      \/ o.to = "flp" /\ mGnssSvIdUsedInPosition' = None
  BY <1>1, <1>4 DEF usedBy
<1>. QED
  BY <1>1, <1>2, <1>3, <1>4, <1>5, <1>6, <1>7

\* NMEA is generated with a position, and with satellites.
LEMMA NmeaGenerated ==
  ASSUME ReportInv, NEW is, R!take(is), sources' = sources \/ R!generateNmea  PROVE NmeaOfOne'
BY NmeaTook DEF R!generateNmea

\* The first position that waits has its outcome.
LEMMA OutcomeTaken ==
  ASSUME EpochsNumbered, ReportInv, NEW is \in {"position", "fused"}, R!take(is),
         UNCHANGED <<hub, flagged>>,
         is = "position" => ~shape.hub,
         \/ R!withheld(R!taken.epoch, R!taken.fix) /\ ~shape.hub
         \/ R!reportPosition(R!taken.epoch, R!taken.fix) /\ ~R!withheld(R!taken.epoch, R!taken.fix)
  PROVE  InStep'
<1>. DEFINE h == R!taken.epoch
            fix == R!taken.fix
<1>1. /\ h \in 1..MaxEpochs /\ h \in Int /\ R!taken \in ReportMessage /\ R!taken.is = is
      /\ \A k, e : e \in Of(mail, k) <=> e \in Of(mail', k) \/ (is = k /\ e = h)
      /\ UNCHANGED <<shape, epoch, phase>>
      /\ moment' = moment /\ moment \in Int /\ Measured' = Measured /\ Located' = Located
  <2>1. is \in Direct \cup {"fused"}
    BY Kinds
  <2>. QED
    BY <2>1, Took
<1>2. fix \in Computed
  BY Zenon, <1>1, MessageIs
<1>3. /\ outcome'[h] # None
      /\ \A i \in 1..MaxEpochs : i # h => outcome'[i] = outcome[i]
      /\ \/ /\ ~shape.hub /\ behind' # 0 /\ outcome'[h].to = "none"
            /\ UNCHANGED mGnssSvIdUsedInPosition
         \/ /\ behind' = behind /\ R!logLatencyInfo(h)
            /\ \/ outcome'[h].to = "gnss" /\ mGnssSvIdUsedInPosition' = usedBy(outcome'[h].fix)
               \/ outcome'[h].to = "flp" /\ mGnssSvIdUsedInPosition' = None
  BY <1>1, <1>2, Withheld, OutcomeTold
<1>. HIDE DEF fix
<1>4. PICK n \in 0..MaxEpochs :
         /\ behind = 0 \/ ~shape.hub => PositionsDue(n)
         /\ behind = 0 => LatenciesDue(n)
         /\ ~shape.hub => SatellitesDue(n)
  BY DEF ReportInv, InStep
<1>5. n \in Nat /\ Located \in Int
  BY DEF ReportInv, ReportTypes, Located
<1>6. /\ \A f \in Of(mail, "fused"), e \in Of(hub, "fused") : f < e
      /\ \A f \in Of(mail, "fused"), p \in Of(mail, "position") : f < p
      /\ ~shape.hub => hub = <<>> /\ Of(mail, "fused") = {}
  BY DEF ReportInv, Ordered
<1>7. is = "position" => /\ \A e \in Of(mail', "position") : h < e
                         /\ \A e \in Of(mail', "latency") : h < e
                         /\ ~shape.hub => \A e \in Of(mail', "satellites") : h <= e
  <2>. SUFFICES ASSUME is = "position"
                PROVE  /\ \A e \in Of(mail', "position") : h < e
                       /\ \A e \in Of(mail', "latency") : h < e
                       /\ ~shape.hub => \A e \in Of(mail', "satellites") : h <= e
    OBVIOUS
  <2>1. \A k \in Direct : \A e \in Of(mail', k) :
                               3 * h + offset(is) < 3 * e + offset(k) /\ e \in Int
    BY Took, Kinds
  <2>2. /\ \A e \in Of(mail', "position") : 3 * h + 1 < 3 * e + 1 /\ e \in Int
        /\ \A e \in Of(mail', "latency") : 3 * h + 1 < 3 * e + 0 /\ e \in Int
        /\ ~shape.hub => \A e \in Of(mail', "satellites") : 3 * h + 1 < 3 * e + 2 /\ e \in Int
    BY <2>1, Kinds
  <2>. QED
    BY <1>1, <2>2
<1>8. \A e \in Of(mail', "fused") \cup Of(hub', "fused") \cup Of(mail', "position") : h < e
  <2>1. CASE is = "position"
    <3>1. Of(hub', "fused") = {} /\ \A e : e \notin Of(mail', "fused")
      BY <1>1, <1>6, <2>1, NoneOf
    <3>. QED
      BY <1>7, <2>1, <3>1
  <2>2. CASE is = "fused"
    <3>1. \A e \in Of(mail', "fused") : h < e
      BY <2>2, Took
    <3>2. h \in Of(mail, "fused") /\ \A e \in Of(mail', "position") : e \in Of(mail, "position")
      BY <1>1, <2>2
    <3>. QED
      BY <1>6, <3>1, <3>2
  <2>. QED
    BY <2>1, <2>2
<1>9. \A e : e \in Of(mail, "fused") \cup Of(hub, "fused") \cup Of(mail, "position")
              <=> e \in Of(mail', "fused") \cup Of(hub', "fused") \cup Of(mail', "position") \/ e = h
  BY <1>1
<1>. HIDE DEF h
<1>10. ASSUME PositionsDue(n)  PROVE h = n + 1 /\ PositionsDue(n + 1)'
  BY <1>1, <1>3, <1>5, <1>8, <1>9, <1>10, PositionsDone
<1>11. ASSUME behind' = 0  PROVE h = n + 1 /\ LatenciesDue(n + 1)'
  <2>1. behind = 0 /\ R!logLatencyInfo(h) /\ h = n + 1 /\ LatenciesDue(n)
    BY <1>3, <1>4, <1>10, <1>11
  <2>. DEFINE l == Len(mGnssLatencyInfoQueue)
  <2>2. /\ n + l <= Measured /\ \A e : e \in Of(mail, "latency") <=> e \in n + l + 1..Measured
        /\ \A e \in Of(mail, "fused") \cup Of(hub, "fused") : e <= n + l
    BY <2>1 DEF LatenciesDue
  <2>3. mGnssLatencyInfoQueue \in Seq(Nat) /\ l \in Nat /\ Measured \in Int
    BY TypesBefore DEF ReportInv, ReportTypes, Measured
  <2>4. h <= Measured
    <3>1. n + 1 <= Located'
      BY <1>4, <1>10, <2>1 DEF PositionsDue
    <3>2. Located <= Measured
      BY DEF ReportInv, ReportTypes, Located, Measured
    <3>. QED
      BY <1>1, <1>5, <2>1, <2>3, <3>1, <3>2
  <2>5. l # 0
    <3>. SUFFICES ASSUME l = 0  PROVE FALSE
      OBVIOUS
    <3>1. n + l + 1 = h /\ h \in n + l + 1..Measured
      BY <1>1, <1>5, <2>1, <2>3, <2>4
    <3>2. CASE is = "position"
      <4>1. h \in Of(mail, "latency")
        BY <2>2, <3>1
      <4>2. h \in Of(mail', "latency")
        BY <1>1, <3>2, <4>1
      <4>3. h < h
        BY <1>7, <3>2, <4>2
      <4>. QED
        BY <1>1, <4>3
    <3>3. CASE is = "fused"
      <4>1. h \in Of(mail, "fused")
        BY <1>1, <3>3
      <4>2. h <= n + l
        BY <2>2, <4>1
      <4>. QED
        BY <1>1, <1>5, <2>1, <2>3, <4>2
    <3>. QED
      BY <3>2, <3>3
  <2>6. mGnssLatencyInfoQueue # <<>>
    BY <2>5
  <2>7. R!logLatencyInfo(n + 1)
    BY <2>1
  <2>8. /\ \A e : e \in Of(mail', "latency") <=> e \in Of(mail, "latency")
        /\ \A e : e \in Of(mail', "fused") \cup Of(hub', "fused")
                  => e \in Of(mail, "fused") \cup Of(hub, "fused")
    BY <1>1
  <2>9. LatenciesDue(n + 1)'
    BY <1>1, <1>5, <2>1, <2>3, <2>6, <2>7, <2>8, LatenciesDone
  <2>. QED
    BY <2>1, <2>9
<1>12. ASSUME ~shape.hub  PROVE h = n + 1 /\ SatellitesDue(n + 1)'
  <2>1. SatellitesDue(n) /\ h = n + 1
    BY <1>4, <1>10, <1>12
  <2>2. is = "position"
    BY <1>1, <1>6, <1>12
  <2>3. \A e : e \in Of(mail', "satellites") => e \in Of(mail, "satellites") /\ n + 1 <= e
    BY <1>1, <1>7, <1>12, <2>1, <2>2
  <2>4. \A e \in 1..n : outcome'[e] = outcome[e]
    <3>1. \A e \in 1..n : e \in 1..MaxEpochs /\ e # h
      BY <1>5, <2>1 DEF EpochsNumbered
    <3>. QED
      BY <1>3, <3>1
  <2>5. \/ outcome'[n + 1].to = "none" /\ UNCHANGED mGnssSvIdUsedInPosition
        \/ /\ outcome'[n + 1].to = "gnss"
           /\ mGnssSvIdUsedInPosition' = usedBy(outcome'[n + 1].fix)
        \/ outcome'[n + 1].to = "flp" /\ mGnssSvIdUsedInPosition' = None
    BY <1>3, <2>1
  <2>. QED
    BY <1>1, <1>5, <2>1, <2>3, <2>4, <2>5, SatellitesDone
<1>13. CASE behind' = 0 \/ ~shape.hub
  <2>1. behind = 0 \/ ~shape.hub
    BY <1>3, <1>13
  <2>2. h = n + 1 /\ PositionsDue(n + 1)'
    BY <1>4, <1>10, <2>1
  <2>3. n + 1 \in 0..MaxEpochs
    BY <1>1, <1>5, <2>2
  <2>4. /\ behind' = 0 \/ ~shape'.hub => PositionsDue(n + 1)'
        /\ behind' = 0 => LatenciesDue(n + 1)'
        /\ ~shape'.hub => SatellitesDue(n + 1)'
    BY <1>1, <1>11, <1>12, <2>2
  <2>. QED
    BY <2>3, <2>4 DEF InStep
<1>14. CASE behind' # 0 /\ shape.hub
  BY <1>1, <1>14 DEF InStep
<1>. QED
  BY <1>13, <1>14

LEMMA PositionTaken ==
  ASSUME EpochsNumbered, ReportInv, R!take("position"), R!MsgReportSPEPosition(R!taken)
  PROVE  ReportInv'
<1>. DEFINE h == R!taken.epoch
            fix == R!taken.fix
<1>1. UNCHANGED <<mClientData, tracking, mLocSystemInfo, learnt, flagged>>
  BY DEF R!MsgReportSPEPosition
<1>2. /\ h \in 1..MaxEpochs /\ R!taken \in ReportMessage /\ R!taken.is = "position"
      /\ mail # <<>> /\ mail' = Tail(mail) /\ UNCHANGED <<shape, epoch, phase>>
      /\ moment' = moment /\ moment \in Int /\ Measured' = Measured /\ Located' = Located
  BY Took, Kinds
<1>3. fix \in Computed
  BY Zenon, <1>2, MessageIs
<1>4. R!InfoKnown'
  BY <1>1, InfoKept DEF ReportInv
<1>5. CASE tracking /\ shape.hub
  <2>1. /\ hub' = Append(hub, [R!taken EXCEPT !.is = "fused"])
        /\ UNCHANGED <<mGnssLatencyInfoQueue, mGnssSvIdUsedInPosition, sources, logged, outcome,
                       behind>>
    BY <1>5 DEF R!MsgReportSPEPosition
  <2>2. /\ Ordered' /\ hub' \in Seq(HubMessage) /\ mail' \in Seq(ReportMessage)
        /\ \A e : e \in Of(hub', "fused") <=> e \in Of(hub, "fused") \/ e = h
        /\ \A e : e \in Of(mail, "position") <=> e \in Of(mail', "position") \/ e = h
        /\ \A e : e \in Of(mail', "fused") <=> e \in Of(mail, "fused")
        /\ \A e : e \in Of(mail', "latency") <=> e \in Of(mail, "latency")
        /\ \A e \in Of(mail, "latency") : h < e
    <3>1. ReportTypes /\ Ordered
      BY DEF ReportInv
    <3>. QED
      BY Zenon, <1>2, <1>5, <2>1, <3>1, OrderedToHub DEF R!taken
  <2>3. ReportTypes'
    BY Zenon, <1>1, <2>1, <2>2, TypesTook, TypesBefore
  <2>4. NmeaOfOne'
    BY <2>1, NmeaTook
  <2>5. InStep'
    <3>1. PICK n \in 0..MaxEpochs :
             /\ behind = 0 \/ ~shape.hub => PositionsDue(n)
             /\ behind = 0 => LatenciesDue(n)
             /\ ~shape.hub => SatellitesDue(n)
      BY DEF ReportInv, InStep
    <3>2. ASSUME PositionsDue(n)  PROVE PositionsDue(n)' /\ h \in n + 1..Located
      <4>1. h \in Of(mail, "position")
        BY <2>2
      <4>2. \A e : e \in Of(mail', "fused") \cup Of(hub', "fused") \cup Of(mail', "position")
                    <=> e \in Of(mail, "fused") \cup Of(hub, "fused") \cup Of(mail, "position")
        BY <2>2
      <4>3. h \in n + 1..Located
        BY <3>2, <4>1 DEF PositionsDue
      <4>. QED
        BY <1>2, <2>1, <3>2, <4>2, <4>3, PositionsKept
    <3>3. ASSUME behind = 0  PROVE LatenciesDue(n)'
      <4>. DEFINE l == Len(mGnssLatencyInfoQueue)
      <4>1. LatenciesDue(n) /\ h \in n + 1..Located
        BY <3>1, <3>2, <3>3
      <4>2. /\ \A e : e \in Of(mail, "latency") <=> e \in n + l + 1..Measured
            /\ \A e \in Of(mail, "fused") \cup Of(hub, "fused") : e <= n + l
        BY <4>1 DEF LatenciesDue
      <4>3. l \in Nat /\ Located \in Int /\ Measured \in Int /\ Located <= Measured /\ h \in Int
        <5>1. mGnssLatencyInfoQueue \in Seq(Nat)
          BY TypesBefore
        <5>2. Located \in Int /\ Measured \in Int /\ Located <= Measured
          BY DEF ReportInv, ReportTypes, Located, Measured
        <5>. QED
          BY <1>2, <5>1, <5>2
      <4>. HIDE DEF l, h
      <4>4. h <= n + l
        <5>1. CASE h \in n + l + 1..Measured
          <6>1. h < h
            BY <2>2, <4>2, <5>1
          <6>. QED
            BY <4>3, <6>1
        <5>2. CASE h \notin n + l + 1..Measured
          BY <4>1, <4>3, <5>2
        <5>. QED
          BY <5>1, <5>2
      <4>5. \A e \in Of(mail', "fused") \cup Of(hub', "fused") : e <= n + l
        BY <2>2, <4>2, <4>4
      <4>. QED
        BY Zenon, <1>2, <2>1, <2>2, <4>1, <4>5, LatenciesKept DEF l
    <3>4. /\ behind' = 0 \/ ~shape'.hub => PositionsDue(n)'
          /\ behind' = 0 => LatenciesDue(n)'
          /\ ~shape'.hub => SatellitesDue(n)'
      BY <1>2, <1>5, <2>1, <3>1, <3>2, <3>3
    <3>. QED
      BY <3>4 DEF InStep
  <2>. QED
    BY <1>4, <2>2, <2>3, <2>4, <2>5 DEF ReportInv
<1>6. CASE ~(tracking /\ shape.hub)
  <2>1. /\ UNCHANGED hub
        /\ sources' = sources \/ R!generateNmea
        /\ R!withheld(h, fix) \/ (R!reportPosition(h, fix) /\ ~R!withheld(h, fix) /\ ~shape.hub)
    BY <1>6 DEF R!MsgReportSPEPosition, R!reportPosition
  <2>2. Ordered' /\ NmeaOfOne'
    BY <2>1, OrderedTook, NmeaGenerated
  <2>3. CASE R!withheld(h, fix)
    <3>1. ReportTypes'
      BY Zenon, <1>1, <1>2, <1>3, <2>1, <2>3, Withheld, TypesTook, TypesBefore
    <3>2. ASSUME ~shape.hub  PROVE InStep'
      <4>1. UNCHANGED <<hub, flagged>> /\ R!withheld(R!taken.epoch, R!taken.fix)
        BY <1>1, <2>1, <2>3
      <4>2. "position" \in {"position", "fused"}
        OBVIOUS
      <4>. QED
        BY ONLY EpochsNumbered, ReportInv, R!take("position"), <3>2, <4>1, <4>2, OutcomeTaken
    <3>3. ASSUME shape.hub  PROVE InStep'
      <4>1. behind' # 0 /\ shape'.hub
        BY <1>2, <1>3, <2>3, <3>3, Withheld
      <4>2. 0 \in 0..MaxEpochs
        BY DEF EpochsNumbered
      <4>. QED
        BY <4>1, <4>2 DEF InStep
    <3>. QED
      BY <1>4, <2>2, <3>1, <3>2, <3>3 DEF ReportInv
  <2>4. CASE R!reportPosition(h, fix) /\ ~R!withheld(h, fix) /\ ~shape.hub
    <3>1. ReportTypes'
      BY Zenon, <1>1, <1>2, <1>3, <2>1, <2>4, OutcomeTold, TypesTook, TypesBefore
    <3>2. InStep'
      BY <1>1, <2>1, <2>4, OutcomeTaken
    <3>. QED
      BY <1>4, <2>2, <3>1, <3>2 DEF ReportInv
  <2>. QED
    BY <2>1, <2>3, <2>4
<1>. QED
  BY <1>5, <1>6

LEMMA FusedTaken ==
  ASSUME EpochsNumbered, ReportInv, R!take("fused"), R!MsgReportEnginePositions(R!taken)
  PROVE  ReportInv'
<1>. DEFINE h == R!taken.epoch
            fix == R!taken.fix
<1>1. /\ UNCHANGED <<hub, mClientData, tracking, mLocSystemInfo, learnt, flagged>>
      /\ R!reportPosition(h, fix)
  BY DEF R!MsgReportEnginePositions
<1>2. /\ h \in 1..MaxEpochs /\ R!taken \in ReportMessage /\ R!taken.is = "fused"
      /\ \A k, e : e \in Of(mail, k) <=> e \in Of(mail', k) \/ ("fused" = k /\ e = h)
  BY Took, Kinds
<1>3. fix \in Computed
  BY Zenon, <1>2, MessageIs
<1>4. shape.hub
  BY Zenon, <1>2 DEF ReportInv, Ordered
<1>5. R!reportPosition(h, fix) /\ ~R!withheld(h, fix) /\ R!generateNmea
  <2>1. UNCHANGED behind /\ R!generateNmea
    BY <1>1, <1>4 DEF R!reportPosition, R!needReportForGnssClient
  <2>2. behind' = behind + 1 => FALSE
    BY <2>1, TypesBefore
  <2>. QED
    BY <1>1, <2>1, <2>2 DEF R!withheld
<1>6. Ordered' /\ R!InfoKnown' /\ NmeaOfOne'
  BY <1>1, <1>5, OrderedTook, InfoKept, NmeaGenerated DEF ReportInv
<1>7. ReportTypes'
  BY Zenon, <1>1, <1>2, <1>3, <1>5, OutcomeTold, TypesTook, TypesBefore
<1>8. InStep'
  BY <1>1, <1>5, OutcomeTaken
<1>. QED
  BY <1>6, <1>7, <1>8 DEF ReportInv

\* Satellites that are reported where there is no hub are those of the last position.
LEMMA Flagged ==
  ASSUME EpochsNumbered, ReportInv, ~shape.hub, R!take("satellites"), R!reportSv(R!taken), NEW n \in Nat,
         PositionsDue(n), SatellitesDue(n), n <= MaxEpochs
  PROVE  SatellitesDue(n)'
<1>. DEFINE h == R!taken.epoch
            used == {s \in Signals : R!svUsed(s, mGnssSvIdUsedInPosition)}
<1>1. /\ flagged' = [epoch |-> h, before |-> last, used |-> used]
      /\ mGnssSvIdUsedInPosition' = None
      /\ UNCHANGED <<hub, outcome>>
  BY DEF R!reportSv, last
<1>2. /\ h \in 1..MaxEpochs /\ 3 * h + 2 < moment /\ UNCHANGED shape
      /\ \A e \in Of(mail', "position") : 3 * h + 2 < 3 * e + 1 /\ e \in Int
      /\ \A e \in Of(mail', "satellites") : 3 * h + 2 < 3 * e + 2 /\ e \in Int
      /\ \A k, e : e \in Of(mail, k) <=> e \in Of(mail', k) \/ ("satellites" = k /\ e = h)
      /\ moment' = moment /\ moment \in Int /\ Located' = Located
  <2>1. "satellites" \in Direct /\ "position" \in Direct /\ "satellites" \in Direct \cup {"fused"}
        /\ offset("satellites") = 2 /\ offset("position") = 1
    BY Kinds
  <2>2. /\ h \in 1..MaxEpochs /\ 3 * h + 2 < moment /\ UNCHANGED shape
        /\ \A k, e : e \in Of(mail, k) <=> e \in Of(mail', k) \/ ("satellites" = k /\ e = h)
        /\ moment' = moment /\ moment \in Int /\ Located' = Located
    BY <2>1, Took
  <2>3. \A k \in Direct : \A e \in Of(mail', k) :
           3 * h + offset("satellites") < 3 * e + offset(k) /\ e \in Int
    BY <2>1, Took
  <2>. QED
    BY <2>1, <2>2, <2>3
<1>3. h \in Int
  BY <1>2
<1>4. /\ last \in 0..n /\ FlagsFollow
      /\ \A e \in Of(mail, "satellites") : last < e /\ n <= e
      /\ \/ mGnssSvIdUsedInPosition = None
         \/ \E e \in last + 1..n : /\ outcome[e].to = "gnss"
                                   /\ mGnssSvIdUsedInPosition = usedBy(outcome[e].fix)
      /\ last < n /\ outcome[n].to = "gnss" => mGnssSvIdUsedInPosition = usedBy(outcome[n].fix)
      /\ last < n /\ outcome[n].to = "flp" => mGnssSvIdUsedInPosition = None
  BY DEF SatellitesDue
<1>5. last < h /\ n <= h
  BY <1>2, <1>4
<1>. HIDE DEF h, used
<1>6. h <= Located
  BY <1>2, <1>3 DEF ReportInv, ReportTypes, moment, offset, Located
<1>7. h = n
  <2>1. CASE h <= n
    BY <1>3, <1>5, <2>1
  <2>2. CASE h > n
    <3>1. h \in n + 1..Located
      BY <1>3, <1>6, <2>2 DEF ReportInv, ReportTypes, Located
    <3>2. h \in Of(mail, "fused") \cup Of(hub, "fused") \cup Of(mail, "position")
      BY <3>1 DEF PositionsDue
    <3>3. Of(mail, "fused") = {} /\ Of(hub, "fused") = {}
      BY NoneOf DEF ReportInv, Ordered
    <3>4. h \in Of(mail', "position")
      BY <1>2, <3>2, <3>3
    <3>. QED
      BY <1>2, <1>3, <3>4
  <2>. QED
    BY <1>3, <2>1, <2>2
<1>8. [epoch |-> h, before |-> last, used |-> used] # None
  BY DEF EpochsNumbered
<1>9. flagged'.epoch = n /\ flagged'.before = last /\ flagged'.used = used /\ flagged' # None
  BY <1>1, <1>7, <1>8
<1>10. last' = n
  BY <1>9 DEF last
<1>11. \A e \in 1..n : outcome[e] # None /\ outcome[e].fix \in Computed
  <2>1. \A e \in 1..n : e \in 1..MaxEpochs /\ e <= n
    BY DEF EpochsNumbered
  <2>. QED
    BY <2>1, TypesBefore DEF PositionsDue
<1>12. mGnssSvIdUsedInPosition = None => used = {}
  BY DEF used, R!svUsed
<1>13. ASSUME NEW fix \in Computed, mGnssSvIdUsedInPosition = usedBy(fix)  PROVE used = flagsOf(fix)
  <2>1. CASE fix.used = None
    BY <1>12, <1>13, <2>1 DEF usedBy, flagsOf
  <2>2. CASE fix.used # None
    <3>. DEFINE u == [used |-> fix.used, multiband |-> fix.multiband]
    <3>1. u # None /\ fix # None /\ mGnssSvIdUsedInPosition = u /\ u.used = fix.used
          /\ u.multiband = fix.multiband
      BY <1>13, <2>2 DEF EpochsNumbered, usedBy
    <3>. HIDE DEF u
    <3>2. \A s : R!svUsed(s, u) <=> R!svUsed(s, fix)
      BY <3>1 DEF R!svUsed
    <3>. QED
      BY <2>2, <3>1, <3>2 DEF used, flagsOf
  <2>. QED
    BY <2>1, <2>2
<1>14. n \in 1..n /\ last < n /\ last \in Int
  BY <1>2, <1>4, <1>5, <1>7
<1>15. FlagsFollow'
  <2>1. outcome[n].to = "gnss" => used = flagsOf(outcome[n].fix)
    BY <1>4, <1>11, <1>13, <1>14
  <2>2. outcome[n].to = "flp" => used = {}
    BY <1>4, <1>12, <1>14
  <2>3. ASSUME outcome[n].to \notin {"gnss", "flp"}
        PROVE  \/ used = {}
               \/ \E e \in last + 1..n - 1 : outcome[e].to = "gnss" /\ used = flagsOf(outcome[e].fix)
    <3>1. CASE mGnssSvIdUsedInPosition = None
      BY <1>12, <3>1
    <3>2. ASSUME NEW e \in last + 1..n, outcome[e].to = "gnss",
                 mGnssSvIdUsedInPosition = usedBy(outcome[e].fix)
          PROVE  \E i \in last + 1..n - 1 : outcome[i].to = "gnss" /\ used = flagsOf(outcome[i].fix)
      <4>1. e # n
        BY <2>3, <3>2
      <4>2. e \in last + 1..n - 1 /\ e \in 1..n
        BY <1>4, <1>14, <4>1
      <4>3. used = flagsOf(outcome[e].fix)
        BY <1>11, <1>13, <3>2, <4>2
      <4>. QED
        BY <3>2, <4>2, <4>3
    <3>. QED
      BY <1>4, <3>1, <3>2
  <2>. QED
    BY <1>1, <1>9, <2>1, <2>2, <2>3 DEF FlagsFollow, flagsOf
<1>16. \A e \in Of(mail', "satellites") : n < e /\ n <= e
  BY <1>2, <1>3, <1>7
<1>17. last' \in 0..n /\ 3 * last' + 2 < moment' /\ last' # 0 /\ flagged'.before \in Nat /\ ~(last' < n)
  BY <1>2, <1>4, <1>7, <1>9, <1>10
<1>. QED
  BY <1>1, <1>10, <1>15, <1>16, <1>17 DEF SatellitesDue, usedBy

LEMMA SatellitesTaken ==
  ASSUME EpochsNumbered, ReportInv, R!take("satellites"), R!reportSv(R!taken)
  PROVE  ReportInv'
<1>1. /\ UNCHANGED <<hub, mClientData, tracking, mGnssLatencyInfoQueue, mLocSystemInfo, learnt,
                     logged, outcome, behind>>
      /\ R!generateNmea
  BY DEF R!reportSv
<1>2. /\ \A k, e : e \in Of(mail, k) <=> e \in Of(mail', k) \/ ("satellites" = k /\ e = R!taken.epoch)
      /\ UNCHANGED shape /\ Measured' = Measured /\ Located' = Located
  BY Took
<1>3. Ordered' /\ R!InfoKnown' /\ NmeaOfOne' /\ ReportTypes'
  BY <1>1, OrderedTook, InfoKept, NmeaGenerated, TypesTook, TypesBefore DEF ReportInv
<1>4. /\ \A e : e \in Of(mail', "position") <=> e \in Of(mail, "position")
      /\ \A e : e \in Of(mail', "fused") <=> e \in Of(mail, "fused")
      /\ \A e : e \in Of(mail', "latency") <=> e \in Of(mail, "latency")
  BY <1>2
<1>5. PICK n \in 0..MaxEpochs :
         /\ behind = 0 \/ ~shape.hub => PositionsDue(n)
         /\ behind = 0 => LatenciesDue(n)
         /\ ~shape.hub => SatellitesDue(n)
  BY DEF ReportInv, InStep
<1>6. ASSUME PositionsDue(n)  PROVE PositionsDue(n)'
  BY <1>1, <1>2, <1>4, <1>6, PositionsKept
<1>7. ASSUME LatenciesDue(n)  PROVE LatenciesDue(n)'
  <2>1. \A e \in Of(mail', "fused") \cup Of(hub', "fused") : e <= n + Len(mGnssLatencyInfoQueue)
    BY <1>1, <1>4, <1>7 DEF LatenciesDue
  <2>. QED
    BY <1>1, <1>2, <1>4, <1>7, <2>1, LatenciesKept
<1>8. n \in Nat /\ n <= MaxEpochs
  BY DEF EpochsNumbered
<1>9. ASSUME ~shape.hub  PROVE SatellitesDue(n)'
  BY <1>5, <1>8, <1>9, Flagged
<1>10. /\ behind' = 0 \/ ~shape'.hub => PositionsDue(n)'
       /\ behind' = 0 => LatenciesDue(n)'
       /\ ~shape'.hub => SatellitesDue(n)'
  BY <1>1, <1>2, <1>5, <1>6, <1>7, <1>9
<1>11. InStep'
  BY <1>10 DEF InStep
<1>. QED
  BY <1>3, <1>11 DEF ReportInv

LEMMA ReportNext == EpochsNumbered /\ ReportInv /\ R!Next => ReportInv'
<1>. SUFFICES ASSUME EpochsNumbered, ReportInv, R!Next  PROVE ReportInv'
  OBVIOUS
<1>1. CASE R!reportLatencyInfoEvent \/ \E fix \in Computed : R!reportPositionEvent(fix)
  BY <1>1, LatencySent, PositionSent
<1>2. CASE R!reportSvEvent
  <2>1. CASE shape.hub
    BY <1>2, <2>1, SvSentToHub DEF R!reportSvEvent
  <2>2. CASE ~shape.hub
    BY <1>2, <2>2, SvSent DEF R!reportSvEvent
  <2>. QED
    BY <2>1, <2>2
<1>3. CASE R!noSvEvent
  BY <1>3, SvSentToHub DEF R!noSvEvent
<1>4. CASE \E debug \in BOOLEAN : R!reportNmeaEvent(debug)
  <2>1. PICK debug \in BOOLEAN : R!reportNmeaEvent(debug)
    BY <1>4
  <2>. DEFINE m == [is |-> "nmea", debug |-> debug]
  <2>2. m \in ReportMessage /\ m.is \notin Timed /\ m.debug = debug
    BY OthersAre DEF ReportInv, Timed
  <2>3. R!other(m) /\ (debug \/ shape.provider # "AP")
    BY <2>1 DEF R!reportNmeaEvent
  <2>. HIDE DEF m
  <2>. QED
    BY <2>2, <2>3, OtherSent
<1>5. CASE \E parts \in {{"current"}, R!Part} : R!reportLocationSystemInfoEvent(parts)
  <2>1. PICK parts \in {{"current"}, R!Part} : R!reportLocationSystemInfoEvent(parts)
    BY <1>5
  <2>. DEFINE m == [is |-> "system", parts |-> parts, version |-> others + 1]
  <2>2. parts \in SUBSET R!Part
    BY DEF R!Part
  <2>3. m \in ReportMessage /\ m.is = "system" /\ "system" \notin Timed
    BY <2>2, OthersAre DEF ReportInv, Timed
  <2>4. R!other(m)
    BY <2>1 DEF R!reportLocationSystemInfoEvent
  <2>. HIDE DEF m
  <2>. QED
    BY <2>3, <2>4, OtherSent
<1>6. CASE \E c \in {1}, wanted \in Callbacks : R!addClientCommand(c, wanted)
  <2>1. PICK c \in {1}, wanted \in Callbacks : R!addClientCommand(c, wanted)
    BY <1>6
  <2>. DEFINE m == [is |-> "add", client |-> c, callbacks |-> wanted]
  <2>2. m \in ReportMessage /\ m.is = "add" /\ "add" \notin Timed
    BY OthersAre DEF ReportInv, Timed
  <2>3. R!other(m)
    BY <2>1 DEF R!addClientCommand
  <2>. HIDE DEF m
  <2>. QED
    BY <2>2, <2>3, OtherSent
<1>7. CASE \E c \in {1} : R!removeClientCommand(c)
  <2>1. PICK c \in {1} : R!removeClientCommand(c)
    BY <1>7
  <2>. DEFINE m == [is |-> "remove", client |-> c]
  <2>2. m \in ReportMessage /\ m.is = "remove" /\ "remove" \notin Timed
    BY OthersAre DEF ReportInv, Timed
  <2>3. R!other(m)
    BY <2>1 DEF R!removeClientCommand
  <2>. HIDE DEF m
  <2>. QED
    BY <2>2, <2>3, OtherSent
<1>8. CASE \E on \in BOOLEAN : R!track(on)
  <2>1. PICK on \in BOOLEAN : R!track(on)
    BY <1>8
  <2>. DEFINE m == [is |-> "track", on |-> on]
  <2>2. m \in ReportMessage /\ m.is = "track" /\ "track" \notin Timed
    BY OthersAre DEF ReportInv, Timed
  <2>3. R!other(m)
    BY <2>1 DEF R!track
  <2>. HIDE DEF m
  <2>. QED
    BY <2>2, <2>3, OtherSent
<1>9. CASE \/ R!reportFromEngineHub
           \/ R!take("latency") /\ R!MsgReportLatencyInfo(R!taken)
           \/ R!take("position") /\ R!MsgReportSPEPosition(R!taken)
           \/ R!take("fused") /\ R!MsgReportEnginePositions(R!taken)
           \/ R!take("satellites") /\ R!reportSv(R!taken)
  BY <1>9, HubReported, LatencyTaken, PositionTaken, FusedTaken, SatellitesTaken
<1>10. CASE \/ R!take("nmea") /\ R!MsgReportNmea(R!taken)
            \/ R!take("system") /\ R!reportLocationSystemInfo(R!taken)
            \/ R!take("add") /\ R!MsgAddClient(R!taken)
            \/ R!take("remove") /\ R!MsgRemoveClient(R!taken)
            \/ R!take("track") /\ R!MsgTrack(R!taken)
  BY <1>10, NmeaTaken, SystemTaken, AddTaken, RemoveTaken, TrackTaken
<1>. QED
  BY <1>1, <1>2, <1>3, <1>4, <1>5, <1>6, <1>7, <1>8, <1>9, <1>10 DEF R!Next

LEMMA ReportUnchanged == EpochsNumbered /\ ReportInv /\ UNCHANGED R!vars => ReportInv'
<1>. SUFFICES ASSUME EpochsNumbered, ReportInv, UNCHANGED R!vars  PROVE ReportInv'
  OBVIOUS
<1>1. UNCHANGED <<shape, mClientData, tracking, mail, hub, mGnssLatencyInfoQueue,
          mGnssSvIdUsedInPosition, mLocSystemInfo, epoch, phase, others, learnt, sources,
          logged, flagged, outcome, behind>>
  BY DEF R!vars
<1>2. moment' = moment /\ moment \in Int /\ Measured' = Measured /\ Located' = Located
  BY <1>1, Moments DEF moment, Measured, Located, ReportInv
<1>3. ReportTypes' /\ R!InfoKnown' /\ NmeaOfOne'
  BY <1>1 DEF ReportInv, ReportTypes, R!InfoKnown, R!wants, NmeaOfOne
<1>4. moment' \in Int /\ moment <= moment' /\ MaxEpochs \in Nat
  BY <1>2 DEF EpochsNumbered
<1>5. Ordered'
  BY <1>1, <1>4, OrderedLater DEF ReportInv
<1>6. InStep'
  BY <1>1, <1>2, <1>4, StepKept DEF ReportInv
<1>. QED
  BY <1>3, <1>5, <1>6 DEF ReportInv

LEMMA ReportsFollowInv == EpochsNumbered /\ ReportInv => R!ReportsFollow
<1>. SUFFICES ASSUME EpochsNumbered, ReportInv  PROVE R!ReportsFollow
  OBVIOUS
<1>1. PICK n \in 0..MaxEpochs :
         /\ behind = 0 \/ ~shape.hub => PositionsDue(n)
         /\ behind = 0 => LatenciesDue(n)
         /\ ~shape.hub => SatellitesDue(n)
  BY DEF ReportInv, InStep
<1>2. R!LatencyMatches
  BY <1>1 DEF R!LatencyMatches, LatenciesDue
<1>3. R!UsedFlags
  <2>. SUFFICES ASSUME flagged # None, ~shape.hub  PROVE R!UsedFlags
    BY DEF R!UsedFlags
  <2>1. /\ outcome[flagged.epoch].to = "gnss" => flagged.used = flagsOf(outcome[flagged.epoch].fix)
        /\ outcome[flagged.epoch].to = "flp" => flagged.used = {}
        /\ outcome[flagged.epoch].to \notin {"gnss", "flp"} =>
             \/ flagged.used = {}
             \/ \E e \in flagged.before + 1..flagged.epoch - 1 :
                  outcome[e].to = "gnss" /\ flagged.used = flagsOf(outcome[e].fix)
    BY <1>1 DEF SatellitesDue, FlagsFollow
  <2>2. CASE outcome[flagged.epoch].to = "gnss"
    BY <2>1, <2>2 DEF R!UsedFlags, flagsOf
  <2>3. CASE outcome[flagged.epoch].to = "flp"
    BY <2>1, <2>3 DEF R!UsedFlags
  <2>4. CASE outcome[flagged.epoch].to \notin {"gnss", "flp"}
    BY Zenon, <2>1, <2>4 DEF R!UsedFlags, flagsOf
  <2>. QED
    BY <2>2, <2>3, <2>4
<1>4. R!OneNmeaSource
  BY DEF ReportInv, NmeaOfOne, R!OneNmeaSource
<1>. QED
  BY <1>2, <1>3, <1>4 DEF R!ReportsFollow, ReportInv

\* Whenever the modem, the hub, the clients and the session report, come and go,
\* and the task takes what they sent: a latency is logged with its position,
\* unless one was withheld; satellites are flagged by the position of their
\* epoch; clients know the leap second; and NMEA is of one source only
\* (GnssAdapter.cpp).  The hypothesis: the epochs are numbered, and None is no
\* record and nothing the modem computes.
THEOREM ReportsAreFollowed ==
  ASSUME EpochsNumbered  PROVE Spec => []ReportsFollow
<1>. DEFINE Inv == part = "reports" => ReportInv
<1>1. Init => Inv
  BY ReportInit DEF Init
<1>2. Inv /\ [Next]_<<part, ni, observer, display, xtra, gnss, batch, reports>> => Inv'
  <2> SUFFICES ASSUME Inv, part' = "reports",
                      [Next]_<<part, ni, observer, display, xtra, gnss, batch, reports>>
               PROVE  ReportInv'
    OBVIOUS
  <2>1. part = "reports" /\ (R!Next \/ UNCHANGED reports)
    BY DEF Next, Ni, Items, Display, Xtra, Gnss, Batch, Reports
  <2>2. UNCHANGED reports => UNCHANGED R!vars
    BY DEF reports, R!vars, R!state, R!history
  <2>. QED
    BY <2>1, <2>2, ReportNext, ReportUnchanged
<1>3. Inv => ReportsFollow
  BY ReportsFollowInv DEF ReportsFollow
<1>. QED
  BY <1>1, <1>2, <1>3, PTL DEF Spec
================================================================================
