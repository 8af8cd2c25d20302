--------------------------- MODULE LocTimerProofs ---------------------------
(***************************************************************************)
(* For any number of clients, delegates and delays: the heap's root is the *)
(* soonest timer, and the kernel is always armed for it or an expire       *)
(* message is on its way.                                                  *)
(***************************************************************************)
EXTENDS LocTimer, TLAPS

\* an expire message is in the queue
ExpireQueued == \E i \in 1..Len(queue) : queue[i] = <<"expire", None>>

\* an expiry the message task has not seen yet
ExpiryPending == pollPc # "wait" \/ ExpireQueued

\* Delegates are born before anything refers to them, so the time of a
\* delegate in the heap never changes again.
Born ==
  /\ \A d \in heap : life[d] # "unborn"
  /\ \A c \in Client : mTimer[c] # None => life[mTimer[c]] # "unborn"
  /\ \A i \in 1..Len(queue) :
       queue[i][1] # "expire" =>
         queue[i][2] \in Delegate /\ life[queue[i][2]] # "unborn"

\* What each step of the message task finds in its locals.
Locals ==
  /\ taskPc \in {"read", "stop", "callback"} => held \in Delegate
  /\ taskPc \in {"stop", "callback"} => client \in Client
  /\ taskPc \in {"addPoll", "settime"} => top # None

\* The kernel will wake the poll thread for the root, between two messages
\* and in the middle of updating it.
Covered ==
  /\ taskPc = "idle" /\ heap # {} =>
       (polled = "polled" /\ armed = mFutureTime[top]) \/ ExpiryPending
  /\ taskPc = "settime" => polled = "polled" \/ ExpiryPending

Inv == TypeOK /\ Born /\ Locals /\ Covered
------------------------------------------------------------------------------
\* Sending appends one message and keeps the ones that were queued.
LEMMA SendMsg ==
  ASSUME NEW type \in {"push", "remove", "expire"},
         NEW d \in Delegate \cup {None}, TypeOK, sendMsg(type, d)
  PROVE  /\ queue' \in Seq(Msg)
         /\ Len(queue') = Len(queue) + 1
         /\ \A i \in 1..Len(queue) : queue'[i] = queue[i]
         /\ queue'[Len(queue')] = <<type, d>>
<1>1. <<type, d>> \in Msg
  BY DEF Msg
<1>. HIDE DEF Msg
<1>. QED
  BY <1>1 DEF sendMsg, TypeOK

\* A pending expiry stays pending while messages are only added.
LEMMA SendKeepsExpiry ==
  ASSUME NEW type \in {"push", "remove", "expire"},
         NEW d \in Delegate \cup {None}, TypeOK, sendMsg(type, d), ExpireQueued
  PROVE  ExpireQueued'
<1>1. PICK i \in 1..Len(queue) : queue[i] = <<"expire", None>>
  BY DEF ExpireQueued
<1>2. Len(queue) \in Nat
  BY DEF TypeOK
<1>3. i \in 1..Len(queue') /\ queue'[i] = queue[i]
  BY <1>2, SendMsg
<1>. QED
  BY <1>1, <1>3 DEF ExpireQueued

\* Beginning a message takes it off the queue and keeps the others.
LEMMA Begin ==
  ASSUME NEW type, TypeOK, begin(type)
  PROVE  /\ queue' \in Seq(Msg)
         /\ Len(queue) \in Nat \ {0}
         /\ Len(queue') = Len(queue) - 1
         /\ \A i \in 1..Len(queue') : queue'[i] = queue[i + 1]
         /\ queue[1][1] = type /\ Head(queue) = queue[1]
  BY DEF begin, TypeOK

\* A pending expiry survives the start of any other message.
LEMMA BeginKeepsExpiry ==
  ASSUME NEW type, type # "expire", TypeOK, begin(type), ExpireQueued
  PROVE  ExpireQueued'
<1>1. PICK i \in 1..Len(queue) : queue[i] = <<"expire", None>>
  BY DEF ExpireQueued
<1>2. i # 1
  BY <1>1, Begin
<1>3. i - 1 \in 1..Len(queue') /\ queue'[i - 1] = queue[i]
  BY <1>2, Begin
<1>. QED
  BY <1>1, <1>3 DEF ExpireQueued

\* A new root is one of the soonest of what is left.
LEMMA HeapRemove ==
  ASSUME TypeOK, NEW d \in Delegate, heapRemove(d), UNCHANGED mFutureTime
  PROVE  /\ heap' = heap \ {d}
         /\ top' \in heap' \cup {None}
         /\ top' = None <=> heap' = {}
         /\ \A e \in heap' : mFutureTime'[top'] <= mFutureTime'[e]
         /\ d # top => top' = top
<1>. USE TimerAssumption DEF TypeOK, heapRemove, rootsOf
<1>1. CASE d = top
  <2>1. CASE heap' = {}
    BY <1>1, <2>1
  <2>2. CASE heap' # {}
    BY <1>1, <2>2
  <2>. QED
    BY <2>1, <2>2
<1>2. CASE d # top
  BY <1>2
<1>. QED
  BY <1>1, <1>2
------------------------------------------------------------------------------
LEMMA InitInv == Init => Inv
<1> SUFFICES ASSUME Init PROVE Inv
  OBVIOUS
<1>1. TypeOK
  BY TimerAssumption DEF Init, TypeOK, Time
<1>. QED
  BY <1>1 DEF Init, Inv, Born, Locals, Covered

\* A stop that finds a timer ticking: one remove message for it.
LEMMA StopTicking ==
  ASSUME Inv, NEW c \in Client, stopTicking(c), UNCHANGED life
  PROVE  /\ mTimer' \in [Client -> Delegate \cup {None}]
         /\ mClient' \in [Delegate -> Client \cup {None}]
         /\ queue' \in Seq(Msg)
         /\ \A i \in 1..Len(queue') : queue'[i][1] # "expire" =>
              queue'[i][2] \in Delegate /\ life[queue'[i][2]] # "unborn"
         /\ \A b \in Client : mTimer'[b] # None => life[mTimer'[b]] # "unborn"
         /\ ExpireQueued => ExpireQueued'
<1>. DEFINE d == mTimer[c]
<1>1. d \in Delegate /\ sendMsg("remove", d) /\ life[d] # "unborn"
  BY DEF Inv, TypeOK, Born, stopTicking, destroyLocked
<1>2. TypeOK
  BY DEF Inv
<1>3. /\ mTimer' \in [Client -> Delegate \cup {None}]
      /\ mClient' \in [Delegate -> Client \cup {None}]
  BY <1>1, <1>2 DEF TypeOK, stopTicking, destroyLocked
<1>. HIDE DEF d
<1>4. /\ queue' \in Seq(Msg)
      /\ Len(queue') = Len(queue) + 1
      /\ \A i \in 1..Len(queue) : queue'[i] = queue[i]
      /\ queue'[Len(queue')] = <<"remove", d>>
  BY <1>1, <1>2, SendMsg
<1>5. ASSUME NEW i \in 1..Len(queue'), queue'[i][1] # "expire"
      PROVE  queue'[i][2] \in Delegate /\ life[queue'[i][2]] # "unborn"
  <2>0. Len(queue) \in Nat
    BY <1>2 DEF TypeOK
  <2>1. CASE i \in 1..Len(queue)
    BY <2>1, <1>4, <1>5 DEF Inv, Born
  <2>2. CASE i = Len(queue')
    BY <2>2, <1>1, <1>4
  <2>. QED
    BY <2>0, <2>1, <2>2, <1>4
<1>6. \A b \in Client : mTimer'[b] # None => life[mTimer'[b]] # "unborn"
  BY <1>2 DEF Inv, TypeOK, Born, stopTicking
<1>7. ExpireQueued => ExpireQueued'
  BY <1>1, <1>2, SendKeepsExpiry
<1>. QED
  BY <1>3, <1>4, <1>5, <1>6, <1>7

LEMMA StartInv ==
  ASSUME Inv, NEW c \in Client, NEW delay \in Delay, start(c, delay)
  PROVE  Inv'
<1>. DEFINE t == now + delay
<1>1. TypeOK
  BY DEF Inv
<1>2. t \in Time
  BY <1>1, TimerAssumption DEF start, TypeOK, Time
<1>3. PICK d \in Delegate :
        /\ life[d] = "unborn"
        /\ life' = [life EXCEPT ![d] = "live"]
        /\ mClient' = [mClient EXCEPT ![d] = c]
        /\ mFutureTime' = [mFutureTime EXCEPT ![d] = t]
        /\ mTimer' = [mTimer EXCEPT ![c] = d]
        /\ sendMsg("push", d)
  BY DEF start
<1>4. UNCHANGED <<alive, heap, top, taskVars, pollPc, armed, polled, now,
                  stopped, fired>>
  BY DEF start
<1>. HIDE DEF t
<1>5. /\ queue' \in Seq(Msg)
      /\ Len(queue') = Len(queue) + 1
      /\ \A i \in 1..Len(queue) : queue'[i] = queue[i]
      /\ queue'[Len(queue')] = <<"push", d>>
  BY <1>1, <1>3, SendMsg
<1>6. /\ life' \in [Delegate -> {"unborn", "live", "deleted"}]
      /\ mClient' \in [Delegate -> Client \cup {None}]
      /\ mFutureTime' \in [Delegate -> Time]
      /\ mTimer' \in [Client -> Delegate \cup {None}]
  BY <1>1, <1>2, <1>3 DEF TypeOK
<1>7. d \notin heap /\ \A e \in heap : mFutureTime'[e] = mFutureTime[e]
  BY <1>1, <1>3 DEF Inv, Born, TypeOK
<1>8. \A e \in Delegate : life'[e] = "unborn" => life[e] = "unborn" /\ e # d
  BY <1>1, <1>3 DEF TypeOK
<1>9. TypeOK'
  BY <1>1, <1>4, <1>5, <1>6, <1>7 DEF TypeOK, taskVars
<1>10. Born'
  <2>1. \A e \in heap' : life'[e] # "unborn"
    BY <1>1, <1>4, <1>8 DEF Inv, Born, TypeOK
  <2>2. \A b \in Client : mTimer'[b] # None => life'[mTimer'[b]] # "unborn"
    BY <1>1, <1>3, <1>8 DEF Inv, Born, TypeOK
  <2>3. ASSUME NEW i \in 1..Len(queue'), queue'[i][1] # "expire"
        PROVE  queue'[i][2] \in Delegate /\ life'[queue'[i][2]] # "unborn"
    <3>0. Len(queue) \in Nat
      BY <1>1 DEF TypeOK
    <3>1. CASE i \in 1..Len(queue)
      BY <3>1, <2>3, <1>5, <1>8 DEF Inv, Born
    <3>2. CASE i = Len(queue')
      BY <3>2, <1>5, <1>8
    <3>. QED
      BY <3>0, <3>1, <3>2, <1>5
  <2>. QED
    BY <2>1, <2>2, <2>3 DEF Born
<1>11. Locals'
  BY <1>4 DEF Inv, Locals, taskVars
<1>12. ExpiryPending => ExpiryPending'
  BY <1>1, <1>3, <1>4, SendKeepsExpiry DEF ExpiryPending
<1>13. Covered'
  BY <1>1, <1>4, <1>7, <1>12 DEF Inv, Covered, TypeOK, taskVars
<1>. QED
  BY <1>9, <1>10, <1>11, <1>13 DEF Inv

LEMMA StopInv == ASSUME Inv, NEW c \in Client, stop(c) \/ destroy(c) PROVE Inv'
<1>1. CASE stopTicking(c)
  <2>1. /\ stopped' \subseteq Delegate /\ alive' \subseteq Client
        /\ UNCHANGED <<mFutureTime, life, heap, top, taskVars, pollPc, armed,
                       polled, now, fired>>
    BY <1>1 DEF stop, destroy, Inv, TypeOK, stopTicking
  <2>2. /\ mTimer' \in [Client -> Delegate \cup {None}]
        /\ mClient' \in [Delegate -> Client \cup {None}]
        /\ queue' \in Seq(Msg)
        /\ \A i \in 1..Len(queue') : queue'[i][1] # "expire" =>
             queue'[i][2] \in Delegate /\ life[queue'[i][2]] # "unborn"
        /\ \A b \in Client : mTimer'[b] # None => life[mTimer'[b]] # "unborn"
        /\ ExpireQueued => ExpireQueued'
    BY <1>1, <2>1, StopTicking
  <2>3. TypeOK'
    BY <2>1, <2>2 DEF Inv, TypeOK, taskVars
  <2>4. Born' /\ Locals'
    BY <2>1, <2>2 DEF Inv, Born, Locals, taskVars
  <2>5. Covered'
    BY <2>1, <2>2 DEF Inv, Covered, ExpiryPending, taskVars
  <2>. QED
    BY <2>3, <2>4, <2>5 DEF Inv
<1>2. CASE mTimer[c] = None
  <2>1. /\ alive' \subseteq Client
        /\ UNCHANGED <<mTimer, mClient, queue, stopped, mFutureTime, life, heap,
                       top, taskVars, pollPc, armed, polled, now, fired>>
    BY <1>2 DEF stop, destroy, stopTicking, Inv, TypeOK
  <2>. QED
    BY <2>1 DEF Inv, TypeOK, Born, Locals, Covered, ExpiryPending,
                ExpireQueued, taskVars
<1>. QED
  BY <1>1, <1>2 DEF stop, destroy

\* Clock and poll thread: once it has woken, the poll thread will send.
LEMMA KernelInv == ASSUME Inv, Tick \/ Poll PROVE Inv'
<1>. USE DEF Inv, Born, Locals
<1>1. CASE Tick
  BY <1>1, TimerAssumption DEF Tick, TypeOK, Covered, ExpiryPending,
     ExpireQueued, clientVars, taskVars, Time
<1>2. CASE PollWake
  BY <1>2 DEF PollWake, TypeOK, Covered, ExpiryPending, clientVars, taskVars
<1>3. CASE PollDisarm
  BY <1>3 DEF PollDisarm, TypeOK, Covered, ExpiryPending, clientVars, taskVars
<1>4. CASE removePoll
  BY <1>4 DEF removePoll, TypeOK, Covered, ExpiryPending, clientVars, taskVars
<1>5. CASE PollSend
  <2>1. /\ queue' \in Seq(Msg)
        /\ Len(queue') = Len(queue) + 1
        /\ \A i \in 1..Len(queue) : queue'[i] = queue[i]
        /\ queue'[Len(queue')] = <<"expire", None>>
    BY <1>5, SendMsg DEF PollSend
  <2>2. Len(queue) \in Nat
    BY DEF TypeOK
  <2>3. UNCHANGED <<clientVars, heap, top, taskVars, armed, polled, now,
                    stopped, fired>> /\ pollPc' = "wait"
    BY <1>5 DEF PollSend
  <2>4. ExpireQueued'
    BY <2>1, <2>2 DEF ExpireQueued
  <2>5. TypeOK'
    BY <2>1, <2>3 DEF TypeOK, clientVars, taskVars
  <2>6. Born' /\ Locals'
    <3>1. ASSUME NEW i \in 1..Len(queue'), queue'[i][1] # "expire"
          PROVE  i \in 1..Len(queue) /\ queue'[i] = queue[i]
      BY <3>1, <2>1, <2>2
    <3>. QED
      BY <3>1, <2>3 DEF clientVars, taskVars
  <2>7. Covered'
    BY <2>3, <2>4 DEF Covered, ExpiryPending, taskVars
  <2>. QED
    BY <2>5, <2>6, <2>7
<1>. QED
  BY <1>1, <1>2, <1>3, <1>4, <1>5 DEF Poll

\* Taking a message off the queue keeps what the others say.
LEMMA BeginBorn ==
  ASSUME Inv, NEW type, begin(type)
  PROVE  /\ \A i \in 1..Len(queue') : queue'[i][1] # "expire" =>
              queue'[i][2] \in Delegate /\ life[queue'[i][2]] # "unborn"
         /\ type # "expire" => /\ Head(queue)[2] \in Delegate
                               /\ life[Head(queue)[2]] # "unborn"
<1>1. /\ Len(queue) \in Nat \ {0} /\ Len(queue') = Len(queue) - 1
      /\ \A i \in 1..Len(queue') : queue'[i] = queue[i + 1]
      /\ queue[1][1] = type /\ Head(queue) = queue[1]
  BY Begin DEF Inv
<1>2. \A i \in 1..Len(queue') : i + 1 \in 1..Len(queue)
  BY <1>1
<1>3. 1 \in 1..Len(queue)
  BY <1>1
<1>. QED
  BY <1>1, <1>2, <1>3 DEF Inv, Born

LEMMA PushInv == ASSUME Inv, MsgTimerPush PROVE Inv'
<1>. DEFINE d == Head(queue)[2]
<1>1. /\ begin("push") /\ TypeOK /\ taskPc = "idle"
      /\ heap' = heap \cup {d}
      /\ IF top = None \/ mFutureTime[d] < mFutureTime[top]
         THEN top' = d /\ taskPc' = "addPoll" ELSE UNCHANGED <<top, taskPc>>
      /\ UNCHANGED <<clientVars, held, client, timerOfNow, pollPc, armed,
                     polled, now, stopped, fired>>
  BY DEF MsgTimerPush, Inv, begin
<1>2. d \in Delegate /\ life[d] # "unborn"
  BY <1>1, BeginBorn
<1>. HIDE DEF d
<1>3. queue' \in Seq(Msg)
  BY <1>1, Begin
<1>4. /\ top' \in heap' /\ heap' \subseteq Delegate /\ heap' # {}
      /\ \A e \in heap' : mFutureTime'[top'] <= mFutureTime'[e]
  BY <1>1, <1>2, TimerAssumption DEF TypeOK, clientVars, Time
<1>5. TypeOK'
  BY <1>1, <1>3, <1>4, TimerAssumption DEF TypeOK, clientVars
<1>6. Born'
  BY <1>1, <1>2, BeginBorn DEF Inv, Born, clientVars
<1>7. Locals'
  BY <1>1, <1>4, TimerAssumption DEF Inv, Locals, TypeOK
<1>8. ExpiryPending => ExpiryPending'
  BY <1>1, BeginKeepsExpiry DEF ExpiryPending
<1>9. Covered'
  BY <1>1, <1>8 DEF Inv, Covered, TypeOK, clientVars
<1>. QED
  BY <1>5, <1>6, <1>7, <1>9 DEF Inv

LEMMA RemoveInv == ASSUME Inv, MsgTimerRemove PROVE Inv'
<1>. DEFINE d == Head(queue)[2]
<1>1. /\ begin("remove") /\ TypeOK /\ taskPc = "idle"
      /\ heapRemove(d) /\ life' = [life EXCEPT ![d] = "deleted"]
      /\ IF d = top THEN updateSoonestTime ELSE UNCHANGED taskPc
      /\ UNCHANGED <<alive, mTimer, mClient, mFutureTime, held, client,
                     timerOfNow, pollPc, armed, polled, now, stopped, fired>>
  BY DEF MsgTimerRemove, Inv, begin
<1>2. d \in Delegate
  BY <1>1, BeginBorn
<1>. HIDE DEF d
<1>3. queue' \in Seq(Msg)
  BY <1>1, Begin
<1>4. /\ heap' = heap \ {d}
      /\ top' \in heap' \cup {None}
      /\ top' = None <=> heap' = {}
      /\ \A e \in heap' : mFutureTime'[top'] <= mFutureTime'[e]
      /\ d # top => top' = top
  BY <1>1, <1>2, HeapRemove
<1>5. life' \in [Delegate -> {"unborn", "live", "deleted"}]
      /\ \A e \in Delegate : life'[e] = "unborn" => life[e] = "unborn"
  BY <1>1, <1>2 DEF TypeOK
<1>6. taskPc' \in {"idle", "addPoll"}
      /\ (taskPc' = "addPoll" => top' # None)
      /\ (taskPc' = "idle" /\ heap' # {} => top' = top)
  BY <1>1, <1>4 DEF updateSoonestTime
<1>7. TypeOK'
  BY <1>1, <1>3, <1>4, <1>5, <1>6 DEF TypeOK
<1>8. Born'
  <2>1. \A e \in heap' : life'[e] # "unborn"
    BY <1>1, <1>4, <1>5 DEF Inv, Born, TypeOK
  <2>2. \A b \in Client : mTimer'[b] # None => life'[mTimer'[b]] # "unborn"
    BY <1>1, <1>5 DEF Inv, Born, TypeOK
  <2>3. \A i \in 1..Len(queue') : queue'[i][1] # "expire" =>
          queue'[i][2] \in Delegate /\ life'[queue'[i][2]] # "unborn"
    BY <1>1, <1>5, BeginBorn
  <2>. QED
    BY <2>1, <2>2, <2>3 DEF Born
<1>9. Locals'
  BY <1>6 DEF Locals
<1>10. ExpiryPending => ExpiryPending'
  BY <1>1, BeginKeepsExpiry DEF ExpiryPending
<1>11. Covered'
  BY <1>1, <1>4, <1>6, <1>10 DEF Inv, Covered
<1>. QED
  BY <1>7, <1>8, <1>9, <1>11 DEF Inv

\* The root leaves the heap for the task's hand.
LEMMA PopTop ==
  ASSUME TypeOK, top # None, popTop, UNCHANGED mFutureTime
  PROVE  /\ held' \in Delegate /\ taskPc' = "read"
         /\ heap' \subseteq heap
         /\ top' \in heap' \cup {None}
         /\ top' = None <=> heap' = {}
         /\ \A e \in heap' : mFutureTime'[top'] <= mFutureTime'[e]
  BY HeapRemove DEF popTop, TypeOK

LEMMA ExpireInv == ASSUME Inv, MsgTimerExpire PROVE Inv'
<1>1. /\ begin("expire") /\ TypeOK /\ taskPc = "idle" /\ timerOfNow' = now
      /\ UNCHANGED <<clientVars, client, pollPc, armed, polled, now, stopped,
                     fired>>
  BY DEF MsgTimerExpire, Inv, begin
<1>2. queue' \in Seq(Msg)
  BY <1>1, Begin
<1>3. \A i \in 1..Len(queue') : queue'[i][1] # "expire" =>
        queue'[i][2] \in Delegate /\ life[queue'[i][2]] # "unborn"
  BY <1>1, BeginBorn
<1>4. CASE top # None
  <2>1. popTop
    BY <1>4 DEF MsgTimerExpire
  <2>2. /\ held' \in Delegate /\ taskPc' = "read"
        /\ heap' \subseteq heap
        /\ top' \in heap' \cup {None}
        /\ top' = None <=> heap' = {}
        /\ \A e \in heap' : mFutureTime'[top'] <= mFutureTime'[e]
    BY <1>1, <1>4, <2>1, PopTop DEF clientVars
  <2>3. TypeOK'
    BY <1>1, <1>2, <2>2 DEF TypeOK, clientVars
  <2>4. Born' /\ Locals' /\ Covered'
    BY <1>1, <1>3, <2>2 DEF Inv, Born, Locals, Covered, clientVars
  <2>. QED
    BY <2>3, <2>4 DEF Inv
<1>5. CASE top = None
  <2>1. UNCHANGED <<heap, top, held, taskPc>>
    BY <1>5 DEF MsgTimerExpire
  <2>2. TypeOK'
    BY <1>1, <1>2, <2>1 DEF TypeOK, clientVars
  <2>3. Born' /\ Locals'
    BY <1>1, <1>3, <2>1 DEF Inv, Born, Locals, clientVars
  <2>4. Covered'
    BY <1>1, <1>5, <2>1 DEF Covered, TypeOK
  <2>. QED
    BY <2>2, <2>3, <2>4 DEF Inv
<1>. QED
  BY <1>4, <1>5

LEMMA ExpireStopInv == ASSUME Inv, ExpireStop PROVE Inv'
<1>1. /\ taskPc = "stop" /\ client \in Client /\ held \in Delegate
      /\ UNCHANGED <<alive, mFutureTime, life, heap, top, held, client,
                     timerOfNow, pollPc, armed, polled, now, stopped>>
  BY DEF ExpireStop, Inv, Locals
<1>2. CASE mTimer[client] # None
  <2>1. /\ stopTicking(client) /\ taskPc' = "callback"
        /\ fired' = fired \cup {mTimer[client]}
    BY <1>2 DEF ExpireStop
  <2>2. /\ mTimer' \in [Client -> Delegate \cup {None}]
        /\ mClient' \in [Delegate -> Client \cup {None}]
        /\ queue' \in Seq(Msg)
        /\ \A i \in 1..Len(queue') : queue'[i][1] # "expire" =>
             queue'[i][2] \in Delegate /\ life[queue'[i][2]] # "unborn"
        /\ \A b \in Client : mTimer'[b] # None => life[mTimer'[b]] # "unborn"
    BY <1>1, <2>1, StopTicking
  <2>3. TypeOK'
    BY <1>1, <1>2, <2>1, <2>2 DEF Inv, TypeOK
  <2>. QED
    BY <1>1, <2>1, <2>2, <2>3 DEF Inv, Born, Locals, Covered
<1>3. CASE mTimer[client] = None
  <2>1. taskPc' = "next" /\ UNCHANGED <<mTimer, mClient, queue, fired>>
    BY <1>3 DEF ExpireStop
  <2>. QED
    BY <1>1, <2>1 DEF Inv, TypeOK, Born, Locals, Covered
<1>. QED
  BY <1>2, <1>3

LEMMA ExpireNextInv == ASSUME Inv, ExpireNext PROVE Inv'
<1>1. /\ TypeOK /\ taskPc = "next" /\ client' = None
      /\ UNCHANGED <<clientVars, queue, timerOfNow, pollPc, armed, polled, now,
                     stopped, fired>>
  BY DEF ExpireNext, Inv
<1>2. CASE top # None /\ mFutureTime[top] <= timerOfNow
  <2>1. /\ held' \in Delegate /\ taskPc' = "read"
        /\ heap' \subseteq heap
        /\ top' \in heap' \cup {None}
        /\ top' = None <=> heap' = {}
        /\ \A e \in heap' : mFutureTime'[top'] <= mFutureTime'[e]
    BY <1>1, <1>2, PopTop DEF ExpireNext, clientVars
  <2>2. TypeOK'
    BY <1>1, <2>1 DEF TypeOK, clientVars
  <2>. QED
    BY <1>1, <2>1, <2>2 DEF Inv, Born, Locals, Covered, clientVars
<1>3. CASE ~(top # None /\ mFutureTime[top] <= timerOfNow)
  <2>1. /\ UNCHANGED <<heap, top>> /\ held' = None
        /\ taskPc' = IF top = None THEN "idle" ELSE "addPoll"
    BY <1>3 DEF ExpireNext, updateSoonestTime
  <2>2. TypeOK'
    BY <1>1, <2>1 DEF TypeOK, clientVars
  <2>3. Born' /\ Locals'
    BY <1>1, <2>1 DEF Inv, Born, Locals, clientVars
  <2>4. Covered'
    BY <1>1, <2>1 DEF TypeOK, Covered
  <2>. QED
    BY <2>2, <2>3, <2>4 DEF Inv
<1>. QED
  BY <1>2, <1>3
------------------------------------------------------------------------------
\* Every step keeps the invariant.
LEMMA NextInv == Inv /\ [Next]_vars => Inv'
<1> SUFFICES ASSUME Inv, [Next]_vars PROVE Inv'
  OBVIOUS
<1>1. CASE ClientStep
  BY <1>1, StartInv, StopInv DEF ClientStep
<1>2. CASE Tick \/ Poll
  BY <1>2, KernelInv
<1>3. CASE MsgTimerPush
  BY <1>3, PushInv
<1>4. CASE MsgTimerRemove
  BY <1>4, RemoveInv
<1>5. CASE MsgTimerExpire
  BY <1>5, ExpireInv
<1>6. CASE ExpireRead
  BY <1>6 DEF ExpireRead, Inv, TypeOK, Born, Locals, Covered, clientVars
<1>7. CASE ExpireStop
  BY <1>7, ExpireStopInv
<1>8. CASE ExpireCallback \/ ExpireOnDead
  BY <1>8 DEF ExpireCallback, ExpireOnDead, Inv, TypeOK, Born, Locals, Covered,
     clientVars
<1>9. CASE ExpireNext
  BY <1>9, ExpireNextInv
<1>10. CASE addPoll
  BY <1>10 DEF addPoll, Inv, TypeOK, Born, Locals, Covered, clientVars
<1>11. CASE SetTime
  BY <1>11 DEF SetTime, Inv, TypeOK, Born, Locals, Covered, ExpiryPending,
     ExpireQueued, clientVars
<1>12. CASE UNCHANGED vars
  BY <1>12 DEF vars, Inv, TypeOK, Born, Locals, Covered, ExpiryPending,
     ExpireQueued
<1>. QED
  BY <1>1, <1>2, <1>3, <1>4, <1>5, <1>6, <1>7, <1>8, <1>9, <1>10, <1>11,
     <1>12 DEF Next, Task

\* The inductive invariant holds in every reachable state.
THEOREM Invariance == Spec => []Inv
  BY InitInv, NextInv, PTL DEF Spec

\* Type correctness; the root of the heap is always a soonest timer.
THEOREM TypeCorrect == Spec => []TypeOK
<1>1. Inv => TypeOK
  BY DEF Inv
<1>. QED
  BY <1>1, Invariance, PTL

\* No expiry is ever lost between the clients, the message task, the poll
\* thread and the kernel.
THEOREM WakeupsAreNotLost == Spec => []NoLostWakeup
<1>1. Inv => NoLostWakeup
  BY DEF Inv, Covered, ExpiryPending, ExpireQueued, NoLostWakeup, queued, TypeOK
<1>. QED
  BY <1>1, Invariance, PTL
------------------------------------------------------------------------------
(* Who holds a delegate.                                                   *)

\* A client's timer is live and its own; one that was stopped or called back
\* is nobody's.
Owners ==
  /\ \A c \in Client : mTimer[c] # None => life[mTimer[c]] = "live"
  /\ \A b, c \in Client : mTimer[b] = mTimer[c] /\ mTimer[b] # None => b = c
  /\ \A d \in stopped \cup fired : life[d] # "unborn" /\ \A c \in Client : mTimer[c] # d
  /\ stopped \cap fired = {}

\* A live delegate is a client's or has a remove message, the only one.
Removes ==
  /\ \A d \in Delegate, i \in 1..Len(queue) : queue[i] = <<"remove", d>> =>
       /\ life[d] = "live" /\ \A c \in Client : mTimer[c] # d
       /\ \A j \in 1..Len(queue) : queue[j] = <<"remove", d>> => j = i
  /\ \A d \in Delegate : life[d] = "live" =>
       (\E c \in Client : mTimer[c] = d) \/ \E i \in 1..Len(queue) : queue[i] = <<"remove", d>>

\* It is pushed before it is removed.
Pushes ==
  \A d \in Delegate, i \in 1..Len(queue) : queue[i] = <<"push", d>> =>
    life[d] = "live" /\ \A j \in 1..Len(queue) : queue[j] = <<"remove", d>> => i < j

\* Between two messages the task holds nothing outside the heap.
Held ==
  /\ \A d \in heap : life[d] = "live"
  /\ held # None => life[held] = "live"
  /\ taskPc \in {"idle", "addPoll", "settime"} => held = None

Owned == Owners /\ Removes /\ Pushes /\ Held

\* What does not touch the clients' timers, the lives and the queue.
LEMMA Untouched ==
  ASSUME Owned, UNCHANGED <<mTimer, life>>
  PROVE  /\ UNCHANGED <<stopped, fired>> => Owners'
         /\ UNCHANGED queue => Removes' /\ Pushes'
<1>1. UNCHANGED <<stopped, fired>> => Owners'
  BY DEF Owned, Owners
<1>2. ASSUME UNCHANGED queue  PROVE Removes'
  BY <1>2 DEF Owned, Removes
<1>3. ASSUME UNCHANGED queue  PROVE Pushes'
  BY <1>3 DEF Owned, Pushes
<1>. QED
  BY <1>1, <1>2, <1>3

\* A message is its type and its delegate.
LEMMA MessageIsPair == \A m \in Msg : m = <<m[1], m[2]>>
  BY DEF Msg

\* What begins is at the head; the others move up by one.
LEMMA Began ==
  ASSUME Inv, NEW type, begin(type)
  PROVE  /\ Len(queue) \in Nat /\ Len(queue') \in Nat
         /\ 1 \in 1..Len(queue) /\ queue[1] = <<type, Head(queue)[2]>>
         /\ type # "expire" => Head(queue)[2] \in Delegate
         /\ \A i \in 1..Len(queue') : i + 1 \in 1..Len(queue) /\ queue'[i] = queue[i + 1]
         /\ \A i \in 1..Len(queue) : i # 1 =>
              i - 1 \in 1..Len(queue') /\ queue'[i - 1] = queue[i]
<1>1. /\ Len(queue) \in Nat \ {0} /\ Len(queue') = Len(queue) - 1
      /\ \A i \in 1..Len(queue') : queue'[i] = queue[i + 1]
      /\ queue[1][1] = type /\ Head(queue) = queue[1]
  BY Begin DEF Inv
<1>2. queue[1] \in Msg
  BY <1>1 DEF Inv, TypeOK
<1>3. queue[1] = <<type, Head(queue)[2]>>
  BY <1>1, <1>2, MessageIsPair
<1>4. type # "expire" => Head(queue)[2] \in Delegate
  BY BeginBorn
<1>. QED
  BY <1>1, <1>3, <1>4

\* A message leaves the queue and no delegate is deleted.
LEMMA BeganOwned ==
  ASSUME Inv, Owned, NEW type, type # "remove", begin(type), UNCHANGED <<mTimer, life>>
  PROVE  Removes' /\ Pushes'
<1>1. /\ Len(queue) \in Nat /\ Len(queue') \in Nat
      /\ queue[1] = <<type, Head(queue)[2]>>
      /\ \A i \in 1..Len(queue') : i + 1 \in 1..Len(queue) /\ queue'[i] = queue[i + 1]
      /\ \A i \in 1..Len(queue) : i # 1 =>
           i - 1 \in 1..Len(queue') /\ queue'[i - 1] = queue[i]
  BY Began
<1>2. \A d \in Delegate, i \in 1..Len(queue') : queue'[i] = <<"remove", d>> =>
        /\ life[d] = "live" /\ \A c \in Client : mTimer[c] # d
        /\ \A j \in 1..Len(queue') : queue'[j] = <<"remove", d>> => j = i
  <2> SUFFICES ASSUME NEW d \in Delegate, NEW i \in 1..Len(queue'), queue'[i] = <<"remove", d>>
               PROVE  /\ life[d] = "live" /\ \A c \in Client : mTimer[c] # d
                      /\ \A j \in 1..Len(queue') : queue'[j] = <<"remove", d>> => j = i
    OBVIOUS
  <2>1. i + 1 \in 1..Len(queue) /\ queue[i + 1] = <<"remove", d>>
    BY <1>1
  <2>2. /\ life[d] = "live" /\ \A c \in Client : mTimer[c] # d
        /\ \A j \in 1..Len(queue) : queue[j] = <<"remove", d>> => j = i + 1
    BY <2>1 DEF Owned, Removes
  <2>3. ASSUME NEW j \in 1..Len(queue'), queue'[j] = <<"remove", d>>  PROVE j = i
    <3>1. j + 1 \in 1..Len(queue) /\ queue[j + 1] = <<"remove", d>>
      BY <1>1, <2>3
    <3>. QED
      BY <2>2, <3>1
  <2>. QED
    BY <2>2, <2>3
<1>3. \A d \in Delegate : life[d] = "live" =>
        (\E c \in Client : mTimer[c] = d) \/ \E i \in 1..Len(queue') : queue'[i] = <<"remove", d>>
  <2> SUFFICES ASSUME NEW d \in Delegate, life[d] = "live", \A c \in Client : mTimer[c] # d
               PROVE  \E i \in 1..Len(queue') : queue'[i] = <<"remove", d>>
    OBVIOUS
  <2>1. PICK i \in 1..Len(queue) : queue[i] = <<"remove", d>>
    BY DEF Owned, Removes
  <2>2. i # 1
    BY <1>1, <2>1
  <2>. QED
    BY <1>1, <2>1, <2>2
<1>4. Pushes'
  <2> SUFFICES ASSUME NEW d \in Delegate, NEW i \in 1..Len(queue'), queue'[i] = <<"push", d>>
               PROVE  /\ life[d] = "live"
                      /\ \A j \in 1..Len(queue') : queue'[j] = <<"remove", d>> => i < j
    BY DEF Pushes
  <2>1. i + 1 \in 1..Len(queue) /\ queue[i + 1] = <<"push", d>>
    BY <1>1
  <2>2. life[d] = "live" /\ \A j \in 1..Len(queue) : queue[j] = <<"remove", d>> => i + 1 < j
    BY <2>1 DEF Owned, Pushes
  <2>3. ASSUME NEW j \in 1..Len(queue'), queue'[j] = <<"remove", d>>  PROVE i < j
    <3>1. j + 1 \in 1..Len(queue) /\ queue[j + 1] = <<"remove", d>>
      BY <1>1, <2>3
    <3>. QED
      BY <2>2, <3>1
  <2>. QED
    BY <2>2, <2>3
<1>. QED
  BY <1>2, <1>3, <1>4 DEF Removes

\* A remove message is the last word about its delegate.
LEMMA RemoveOwned == ASSUME Inv, Owned, MsgTimerRemove  PROVE Owned'
<1> DEFINE d == Head(queue)[2]
<1>1. /\ begin("remove") /\ taskPc = "idle" /\ heapRemove(d)
      /\ life' = [life EXCEPT ![d] = "deleted"]
      /\ UNCHANGED <<mTimer, mFutureTime, held, stopped, fired>>
      /\ taskPc' \in {"idle", "addPoll"}
  BY DEF MsgTimerRemove, updateSoonestTime, begin
<1>2. TypeOK /\ held = None
  BY <1>1 DEF Inv, Owned, Held
<1>3. /\ Len(queue) \in Nat /\ Len(queue') \in Nat
      /\ 1 \in 1..Len(queue) /\ queue[1] = <<"remove", d>> /\ d \in Delegate
      /\ \A i \in 1..Len(queue') : i + 1 \in 1..Len(queue) /\ queue'[i] = queue[i + 1]
      /\ \A i \in 1..Len(queue) : i # 1 =>
           i - 1 \in 1..Len(queue') /\ queue'[i - 1] = queue[i]
  BY <1>1, Began
<1>4. heap' = heap \ {d}
  BY <1>1, <1>2, <1>3, HeapRemove
<1>. HIDE DEF d
<1>5. /\ life[d] = "live" /\ \A c \in Client : mTimer[c] # d
      /\ \A j \in 1..Len(queue) : queue[j] = <<"remove", d>> => j = 1
      /\ \A i \in 1..Len(queue) : queue[i] # <<"push", d>>
  <2>1. /\ life[d] = "live" /\ \A c \in Client : mTimer[c] # d
        /\ \A j \in 1..Len(queue) : queue[j] = <<"remove", d>> => j = 1
    BY <1>3 DEF Owned, Removes
  <2>2. ASSUME NEW i \in 1..Len(queue), queue[i] = <<"push", d>>  PROVE FALSE
    <3>1. i < 1
      BY <1>3, <2>2 DEF Owned, Pushes
    <3>. QED
      BY <1>3, <3>1
  <2>. QED
    BY <2>1, <2>2
<1>6. \A e \in Delegate : e # d => life'[e] = life[e]
  BY <1>1, <1>2, <1>3 DEF TypeOK
<1>7. ASSUME NEW i \in 1..Len(queue')
      PROVE  queue'[i] # <<"remove", d>> /\ queue'[i] # <<"push", d>>
  <2>1. i + 1 \in 1..Len(queue) /\ queue'[i] = queue[i + 1] /\ i + 1 # 1
    BY <1>3
  <2>. QED
    BY <1>5, <2>1
<1>8. Owners'
  BY <1>1, <1>2, <1>3, <1>5, <1>6 DEF Owned, Owners, TypeOK
<1>9. Held'
  BY <1>1, <1>2, <1>4, <1>6 DEF Owned, Held, TypeOK
<1>10. \A e \in Delegate, i \in 1..Len(queue') : queue'[i] = <<"remove", e>> =>
         /\ life'[e] = "live" /\ \A c \in Client : mTimer'[c] # e
         /\ \A j \in 1..Len(queue') : queue'[j] = <<"remove", e>> => j = i
  <2> SUFFICES ASSUME NEW e \in Delegate, NEW i \in 1..Len(queue'), queue'[i] = <<"remove", e>>
               PROVE  /\ life'[e] = "live" /\ \A c \in Client : mTimer'[c] # e
                      /\ \A j \in 1..Len(queue') : queue'[j] = <<"remove", e>> => j = i
    OBVIOUS
  <2>1. e # d /\ i + 1 \in 1..Len(queue) /\ queue[i + 1] = <<"remove", e>>
    BY <1>3, <1>7
  <2>2. /\ life[e] = "live" /\ \A c \in Client : mTimer[c] # e
        /\ \A j \in 1..Len(queue) : queue[j] = <<"remove", e>> => j = i + 1
    BY <2>1 DEF Owned, Removes
  <2>3. ASSUME NEW j \in 1..Len(queue'), queue'[j] = <<"remove", e>>  PROVE j = i
    <3>1. j + 1 \in 1..Len(queue) /\ queue[j + 1] = <<"remove", e>>
      BY <1>3, <2>3
    <3>. QED
      BY <2>2, <3>1
  <2>. QED
    BY <1>1, <1>6, <2>1, <2>2, <2>3
<1>11. \A e \in Delegate : life'[e] = "live" =>
         (\E c \in Client : mTimer'[c] = e) \/ \E i \in 1..Len(queue') : queue'[i] = <<"remove", e>>
  <2> SUFFICES ASSUME NEW e \in Delegate, life'[e] = "live", \A c \in Client : mTimer[c] # e
               PROVE  \E i \in 1..Len(queue') : queue'[i] = <<"remove", e>>
    BY <1>1
  <2>1. e # d /\ life[e] = "live"
    BY <1>1, <1>2, <1>3 DEF TypeOK
  <2>2. PICK i \in 1..Len(queue) : queue[i] = <<"remove", e>>
    BY <2>1 DEF Owned, Removes
  <2>3. i # 1
    BY <1>3, <2>1, <2>2
  <2>. QED
    BY <1>3, <2>2, <2>3
<1>12. Pushes'
  <2> SUFFICES ASSUME NEW e \in Delegate, NEW i \in 1..Len(queue'), queue'[i] = <<"push", e>>
               PROVE  /\ life'[e] = "live"
                      /\ \A j \in 1..Len(queue') : queue'[j] = <<"remove", e>> => i < j
    BY DEF Pushes
  <2>1. e # d /\ i + 1 \in 1..Len(queue) /\ queue[i + 1] = <<"push", e>>
    BY <1>3, <1>7
  <2>2. life[e] = "live" /\ \A j \in 1..Len(queue) : queue[j] = <<"remove", e>> => i + 1 < j
    BY <2>1 DEF Owned, Pushes
  <2>3. ASSUME NEW j \in 1..Len(queue'), queue'[j] = <<"remove", e>>  PROVE i < j
    <3>1. j + 1 \in 1..Len(queue) /\ queue[j + 1] = <<"remove", e>>
      BY <1>3, <2>3
    <3>. QED
      BY <2>2, <3>1
  <2>. QED
    BY <1>6, <2>1, <2>2, <2>3
<1>. QED
  BY <1>8, <1>9, <1>10, <1>11, <1>12 DEF Owned, Removes

\* A message is added and no delegate is deleted or taken from the queue.
LEMMA SentKeeps ==
  ASSUME TypeOK, NEW type \in {"push", "remove", "expire"},
         NEW d \in Delegate \cup {None}, sendMsg(type, d)
  PROVE  /\ Len(queue) \in Nat /\ Len(queue') = Len(queue) + 1
         /\ \A i \in 1..Len(queue) : queue'[i] = queue[i] /\ i \in 1..Len(queue')
         /\ queue'[Len(queue')] = <<type, d>>
         /\ \A i \in 1..Len(queue') : i \notin 1..Len(queue) => i = Len(queue')
<1>1. Len(queue) \in Nat
  BY DEF TypeOK
<1>. QED
  BY <1>1, SendMsg

\* A new delegate is nobody else's.
LEMMA StartOwned ==
  ASSUME Inv, Owned, NEW c \in Client, NEW delay \in Delay, start(c, delay)
  PROVE  Owned'
<1>1. TypeOK
  BY DEF Inv
<1>2. PICK d \in Delegate :
        /\ life[d] = "unborn"
        /\ life' = [life EXCEPT ![d] = "live"]
        /\ mTimer' = [mTimer EXCEPT ![c] = d]
        /\ sendMsg("push", d)
  BY DEF start
<1>3. mTimer[c] = None /\ UNCHANGED <<heap, held, taskPc, stopped, fired>>
  BY DEF start, taskVars
<1>4. /\ Len(queue) \in Nat /\ Len(queue') = Len(queue) + 1
      /\ \A i \in 1..Len(queue) : queue'[i] = queue[i] /\ i \in 1..Len(queue')
      /\ queue'[Len(queue')] = <<"push", d>>
      /\ \A i \in 1..Len(queue') : i \notin 1..Len(queue) => i = Len(queue')
  BY <1>1, <1>2, SentKeeps
<1>5. /\ \A e \in Delegate : life[e] # "unborn" => e # d /\ life'[e] = life[e]
      /\ life'[d] = "live"
  BY <1>1, <1>2 DEF TypeOK
<1>6. /\ \A b \in Client : b # c => mTimer'[b] = mTimer[b]
      /\ mTimer'[c] = d
      /\ \A b \in Client : mTimer[b] # d
  BY <1>1, <1>2, <1>3, TimerAssumption DEF TypeOK, Owned, Owners
<1>7. Owners'
  <2>1. \A b \in Client : mTimer'[b] # None => life'[mTimer'[b]] = "live"
    BY <1>1, <1>5, <1>6 DEF TypeOK, Owned, Owners
  <2>2. \A a, b \in Client : mTimer'[a] = mTimer'[b] /\ mTimer'[a] # None => a = b
    BY <1>6 DEF Owned, Owners
  <2>3. \A e \in stopped' \cup fired' : life'[e] # "unborn" /\ \A b \in Client : mTimer'[b] # e
    <3> SUFFICES ASSUME NEW e \in stopped \cup fired
                 PROVE  life'[e] # "unborn" /\ \A b \in Client : mTimer'[b] # e
      BY <1>3
    <3>1. e \in Delegate /\ life[e] # "unborn" /\ \A b \in Client : mTimer[b] # e
      BY <1>1 DEF TypeOK, Owned, Owners
    <3>. QED
      BY <1>5, <1>6, <3>1
  <2>4. (stopped \cap fired = {})'
    BY <1>3 DEF Owned, Owners
  <2>. QED
    BY <2>1, <2>2, <2>3, <2>4 DEF Owners
<1>8. Held'
  BY <1>1, <1>3, <1>5 DEF TypeOK, Owned, Held
<1>9. \A e \in Delegate, i \in 1..Len(queue') : queue'[i] = <<"remove", e>> =>
        i \in 1..Len(queue) /\ queue[i] = <<"remove", e>> /\ life[e] = "live"
  BY <1>4 DEF Owned, Removes
<1>10. Removes'
  <2>1. \A e \in Delegate, i \in 1..Len(queue') : queue'[i] = <<"remove", e>> =>
          /\ life'[e] = "live" /\ \A b \in Client : mTimer'[b] # e
          /\ \A j \in 1..Len(queue') : queue'[j] = <<"remove", e>> => j = i
    BY <1>5, <1>6, <1>9 DEF Owned, Removes
  <2>2. \A e \in Delegate : life'[e] = "live" =>
          (\E b \in Client : mTimer'[b] = e) \/ \E i \in 1..Len(queue') : queue'[i] = <<"remove", e>>
    <3> SUFFICES ASSUME NEW e \in Delegate, life'[e] = "live", e # d
                 PROVE  \/ \E b \in Client : mTimer'[b] = e
                        \/ \E i \in 1..Len(queue') : queue'[i] = <<"remove", e>>
      BY <1>6
    <3>1. life[e] = "live"
      BY <1>1, <1>2 DEF TypeOK
    <3>2. CASE \E b \in Client : mTimer[b] = e
      BY <1>3, <1>6, <3>2, TimerAssumption
    <3>3. CASE \E i \in 1..Len(queue) : queue[i] = <<"remove", e>>
      BY <1>4, <3>3
    <3>. QED
      BY <3>1, <3>2, <3>3 DEF Owned, Removes
  <2>. QED
    BY <2>1, <2>2 DEF Removes
<1>11. Pushes'
  <2> SUFFICES ASSUME NEW e \in Delegate, NEW i \in 1..Len(queue'), queue'[i] = <<"push", e>>
               PROVE  /\ life'[e] = "live"
                      /\ \A j \in 1..Len(queue') : queue'[j] = <<"remove", e>> => i < j
    BY DEF Pushes
  <2>1. CASE i \in 1..Len(queue)
    BY <1>4, <1>5, <1>9, <2>1 DEF Owned, Pushes
  <2>2. CASE i = Len(queue')
    <3>1. e = d
      BY <1>4, <2>2
    <3>. QED
      BY <1>2, <1>5, <1>9, <3>1
  <2>. QED
    BY <1>4, <2>1, <2>2
<1>. QED
  BY <1>7, <1>8, <1>10, <1>11 DEF Owned

\* Whoever stops a timer queues its remove message and owns it no more.
LEMMA StopTickingOwned ==
  ASSUME Inv, Owned, NEW c \in Client, stopTicking(c), UNCHANGED life
  PROVE  /\ Removes' /\ Pushes'
         /\ mTimer[c] \in Delegate /\ life[mTimer[c]] = "live"
         /\ mTimer[c] \notin stopped \cup fired
         /\ mTimer' = [mTimer EXCEPT ![c] = None]
         /\ \A b \in Client : mTimer'[b] # mTimer[c]
<1>1. TypeOK
  BY DEF Inv
<1>2. /\ mTimer[c] \in Delegate /\ sendMsg("remove", mTimer[c])
      /\ mTimer' = [mTimer EXCEPT ![c] = None]
  BY <1>1 DEF TypeOK, stopTicking, destroyLocked
<1> DEFINE d == mTimer[c]
<1>3. /\ life[d] = "live" /\ d \notin stopped \cup fired /\ d # None
      /\ \A i \in 1..Len(queue) : queue[i] # <<"remove", d>>
  BY <1>2, TimerAssumption DEF Owned, Owners, Removes
<1>4. /\ \A b \in Client : b # c => mTimer'[b] = mTimer[b]
      /\ mTimer'[c] = None
      /\ \A b \in Client : mTimer'[b] # d
  BY <1>1, <1>2, <1>3 DEF TypeOK, Owned, Owners
<1>5. /\ Len(queue) \in Nat /\ Len(queue') = Len(queue) + 1
      /\ \A i \in 1..Len(queue) : queue'[i] = queue[i] /\ i \in 1..Len(queue')
      /\ queue'[Len(queue')] = <<"remove", d>>
      /\ \A i \in 1..Len(queue') : i \notin 1..Len(queue) => i = Len(queue')
  BY <1>1, <1>2, SentKeeps
<1>. HIDE DEF d
<1>6. Removes'
  <2>1. \A e \in Delegate, i \in 1..Len(queue') : queue'[i] = <<"remove", e>> =>
          /\ life'[e] = "live" /\ \A b \in Client : mTimer'[b] # e
          /\ \A j \in 1..Len(queue') : queue'[j] = <<"remove", e>> => j = i
    <3> SUFFICES ASSUME NEW e \in Delegate, NEW i \in 1..Len(queue'), queue'[i] = <<"remove", e>>
                 PROVE  /\ life'[e] = "live" /\ \A b \in Client : mTimer'[b] # e
                        /\ \A j \in 1..Len(queue') : queue'[j] = <<"remove", e>> => j = i
      OBVIOUS
    <3>1. CASE e = d
      BY <1>3, <1>4, <1>5, <3>1
    <3>2. CASE e # d
      <4>1. i \in 1..Len(queue) /\ queue[i] = <<"remove", e>>
        BY <1>5, <3>2
      <4>2. /\ life[e] = "live" /\ \A b \in Client : mTimer[b] # e
            /\ \A j \in 1..Len(queue) : queue[j] = <<"remove", e>> => j = i
        BY <4>1 DEF Owned, Removes
      <4>3. \A j \in 1..Len(queue') : queue'[j] = <<"remove", e>> =>
              j \in 1..Len(queue) /\ queue[j] = <<"remove", e>>
        BY <1>5, <3>2
      <4>4. \A b \in Client : mTimer'[b] # e
        BY <1>4, <4>2, TimerAssumption
      <4>. QED
        BY <4>2, <4>3, <4>4
    <3>. QED
      BY <3>1, <3>2
  <2>2. \A e \in Delegate : life'[e] = "live" =>
          (\E b \in Client : mTimer'[b] = e) \/ \E i \in 1..Len(queue') : queue'[i] = <<"remove", e>>
    <3> SUFFICES ASSUME NEW e \in Delegate, life[e] = "live"
                 PROVE  \/ \E b \in Client : mTimer'[b] = e
                        \/ \E i \in 1..Len(queue') : queue'[i] = <<"remove", e>>
      OBVIOUS
    <3>1. CASE e = d
      <4>1. Len(queue') \in 1..Len(queue')
        BY <1>5
      <4>. QED
        BY <1>5, <3>1, <4>1
    <3>2. CASE e # d /\ \E b \in Client : mTimer[b] = e
      BY <1>4, <3>2 DEF d
    <3>3. CASE \E i \in 1..Len(queue) : queue[i] = <<"remove", e>>
      BY <1>5, <3>3
    <3>. QED
      BY <3>1, <3>2, <3>3 DEF Owned, Removes
  <2>. QED
    BY <2>1, <2>2 DEF Removes
<1>7. Pushes'
  <2> SUFFICES ASSUME NEW e \in Delegate, NEW i \in 1..Len(queue'), queue'[i] = <<"push", e>>
               PROVE  /\ life[e] = "live"
                      /\ \A j \in 1..Len(queue') : queue'[j] = <<"remove", e>> => i < j
    BY DEF Pushes
  <2>1. i \in 1..Len(queue) /\ queue[i] = <<"push", e>>
    BY <1>5
  <2>2. life[e] = "live" /\ \A j \in 1..Len(queue) : queue[j] = <<"remove", e>> => i < j
    BY <2>1 DEF Owned, Pushes
  <2>3. i < Len(queue')
    BY <1>5, <2>1
  <2>. QED
    BY <1>5, <2>2, <2>3
<1>. QED
  BY <1>2, <1>3, <1>4, <1>6, <1>7 DEF d

LEMMA StopOwned == ASSUME Inv, Owned, NEW c \in Client, stop(c) \/ destroy(c)  PROVE Owned'
<1>1. UNCHANGED <<life, heap, held, taskPc, fired>>
  BY DEF stop, destroy, taskVars
<1>2. Held'
  BY <1>1 DEF Owned, Held
<1>3. CASE stopTicking(c) /\ stopped' = stopped \cup {mTimer[c]}
  <2>1. /\ Removes' /\ Pushes'
        /\ mTimer[c] \in Delegate /\ life[mTimer[c]] = "live"
        /\ mTimer[c] \notin stopped \cup fired
        /\ mTimer' = [mTimer EXCEPT ![c] = None]
        /\ \A b \in Client : mTimer'[b] # mTimer[c]
    BY <1>1, <1>3, StopTickingOwned
  <2>2. \A b \in Client : mTimer'[b] = mTimer[b] \/ mTimer'[b] = None
    BY <2>1 DEF Inv, TypeOK
  <2>3. Owners'
    BY <1>1, <1>3, <2>1, <2>2, TimerAssumption DEF Inv, TypeOK, Owned, Owners
  <2>. QED
    BY <1>2, <2>1, <2>3 DEF Owned
<1>4. CASE UNCHANGED <<mTimer, queue, stopped>>
  BY <1>1, <1>2, <1>4, Untouched DEF Owned
<1>. QED
  BY <1>3, <1>4 DEF stop, destroy

LEMMA ExpireStopOwned == ASSUME Inv, Owned, ExpireStop  PROVE Owned'
<1>1. UNCHANGED <<life, heap, held, stopped>> /\ client \in Client
  BY DEF ExpireStop, Inv, Locals
<1>2. Held'
  BY <1>1 DEF ExpireStop, Owned, Held
<1>3. CASE mTimer[client] # None
  <2>1. stopTicking(client) /\ fired' = fired \cup {mTimer[client]}
    BY <1>3 DEF ExpireStop
  <2>2. /\ Removes' /\ Pushes'
        /\ mTimer[client] \in Delegate /\ life[mTimer[client]] = "live"
        /\ mTimer[client] \notin stopped \cup fired
        /\ mTimer' = [mTimer EXCEPT ![client] = None]
        /\ \A b \in Client : mTimer'[b] # mTimer[client]
    BY <1>1, <2>1, StopTickingOwned
  <2>3. \A b \in Client : mTimer'[b] = mTimer[b] \/ mTimer'[b] = None
    BY <2>2 DEF Inv, TypeOK
  <2>4. Owners'
    BY <1>1, <2>1, <2>2, <2>3, TimerAssumption DEF Inv, TypeOK, Owned, Owners
  <2>. QED
    BY <1>2, <2>2, <2>4 DEF Owned
<1>4. CASE mTimer[client] = None
  <2>1. UNCHANGED <<mTimer, queue, fired>>
    BY <1>4 DEF ExpireStop
  <2>. QED
    BY <1>1, <1>2, <2>1, Untouched DEF Owned
<1>. QED
  BY <1>3, <1>4

LEMMA PushOwned == ASSUME Inv, Owned, MsgTimerPush  PROVE Owned'
<1> DEFINE d == Head(queue)[2]
<1>1. /\ begin("push") /\ heap' = heap \cup {d}
      /\ UNCHANGED <<mTimer, life, held, stopped, fired>>
      /\ taskPc = "idle"
  BY DEF MsgTimerPush, clientVars, begin
<1>2. 1 \in 1..Len(queue) /\ queue[1] = <<"push", d>> /\ d \in Delegate
  BY <1>1, Began
<1>3. life[d] = "live"
  BY <1>2 DEF Owned, Pushes
<1>4. Held'
  BY <1>1, <1>3 DEF Owned, Held
<1>5. Removes' /\ Pushes'
  BY <1>1, BeganOwned
<1>6. Owners'
  BY <1>1 DEF Owned, Owners
<1>. QED
  BY <1>4, <1>5, <1>6 DEF Owned

\* The popped root was in the heap.
LEMMA PopOwned ==
  ASSUME Inv, Owned, top # None, popTop, UNCHANGED <<life, mFutureTime>>
  PROVE  Held'
<1>1. top \in heap /\ top \in Delegate /\ held' = top /\ taskPc' = "read"
  BY DEF popTop, Inv, TypeOK
<1>2. heap' \subseteq heap
  BY <1>1 DEF popTop, heapRemove
<1>. QED
  BY <1>1, <1>2 DEF Owned, Held

LEMMA ExpireOwned == ASSUME Inv, Owned, MsgTimerExpire  PROVE Owned'
<1>1. /\ begin("expire") /\ taskPc = "idle"
      /\ UNCHANGED <<mTimer, life, mFutureTime, stopped, fired>>
  BY DEF MsgTimerExpire, clientVars, begin
<1>2. Removes' /\ Pushes'
  BY <1>1, BeganOwned
<1>3. ASSUME top # None  PROVE Held'
  BY <1>1, <1>3, PopOwned DEF MsgTimerExpire
<1>4. ASSUME top = None  PROVE Held'
  BY <1>1, <1>4 DEF MsgTimerExpire, Owned, Held
<1>5. Owners'
  BY <1>1, Untouched
<1>. QED
  BY <1>2, <1>3, <1>4, <1>5 DEF Owned

LEMMA ExpireNextOwned == ASSUME Inv, Owned, ExpireNext  PROVE Owned'
<1>1. UNCHANGED <<mTimer, life, mFutureTime, stopped, fired, queue>>
  BY DEF ExpireNext, clientVars
<1>2. Owners' /\ Removes' /\ Pushes'
  BY <1>1, Untouched
<1>3. CASE top # None /\ mFutureTime[top] <= timerOfNow
  <2>1. Held'
    BY <1>1, <1>3, PopOwned DEF ExpireNext
  <2>. QED
    BY <1>2, <2>1 DEF Owned
<1>4. CASE ~(top # None /\ mFutureTime[top] <= timerOfNow)
  <2>1. Held'
    BY <1>1, <1>4 DEF ExpireNext, Owned, Held
  <2>. QED
    BY <1>2, <2>1 DEF Owned
<1>. QED
  BY <1>3, <1>4

\* The rest touches no delegate.
LEMMA OthersOwned ==
  ASSUME Inv, Owned,
         Tick \/ Poll \/ ExpireRead \/ ExpireCallback \/ ExpireOnDead \/ addPoll \/ SetTime
           \/ UNCHANGED vars
  PROVE  Owned'
<1>1. CASE PollSend
  <2>1. /\ Len(queue) \in Nat /\ Len(queue') = Len(queue) + 1
        /\ \A i \in 1..Len(queue) : queue'[i] = queue[i] /\ i \in 1..Len(queue')
        /\ queue'[Len(queue')] = <<"expire", None>>
        /\ \A i \in 1..Len(queue') : i \notin 1..Len(queue) => i = Len(queue')
    BY <1>1, SentKeeps DEF PollSend, Inv
  <2>2. UNCHANGED <<mTimer, life, heap, held, taskPc, stopped, fired>>
    BY <1>1 DEF PollSend, clientVars, taskVars
  <2>3. \A i \in 1..Len(queue'), d \in Delegate, type \in {"push", "remove"} :
          queue'[i] = <<type, d>> => i \in 1..Len(queue) /\ queue[i] = <<type, d>>
    BY <2>1
  <2>4. Owners' /\ Held'
    BY <2>2 DEF Owned, Owners, Held
  <2>5. Removes'
    <3>1. \A d \in Delegate, i \in 1..Len(queue') : queue'[i] = <<"remove", d>> =>
            /\ life'[d] = "live" /\ \A c \in Client : mTimer'[c] # d
            /\ \A j \in 1..Len(queue') : queue'[j] = <<"remove", d>> => j = i
      BY <2>2, <2>3 DEF Owned, Removes
    <3>2. \A d \in Delegate : life'[d] = "live" =>
            (\E c \in Client : mTimer'[c] = d)
              \/ \E i \in 1..Len(queue') : queue'[i] = <<"remove", d>>
      BY <2>1, <2>2 DEF Owned, Removes
    <3>. QED
      BY <3>1, <3>2 DEF Removes
  <2>6. Pushes'
    BY <2>1, <2>2, <2>3 DEF Owned, Pushes
  <2>. QED
    BY <2>4, <2>5, <2>6 DEF Owned
<1>2. CASE \/ Tick \/ PollWake \/ PollDisarm \/ removePoll \/ ExpireRead \/ ExpireCallback
           \/ ExpireOnDead \/ addPoll \/ SetTime \/ UNCHANGED vars
  <2>1. /\ UNCHANGED <<mTimer, life, heap, held, stopped, fired, queue>>
        /\ taskPc' = taskPc \/ taskPc' \notin {"idle", "addPoll", "settime"}
           \/ taskPc \in {"addPoll", "settime"}
    BY <1>2 DEF Tick, PollWake, PollDisarm, removePoll, ExpireRead, ExpireCallback,
                ExpireOnDead, addPoll, SetTime, vars, clientVars, taskVars
  <2>2. Held'
    BY <2>1 DEF Owned, Held
  <2>. QED
    BY <2>1, <2>2, Untouched DEF Owned
<1>. QED
  BY <1>1, <1>2 DEF Poll

\* Every step keeps the owners of the delegates.
LEMMA NextOwned == Inv /\ Owned /\ [Next]_vars => Owned'
<1> SUFFICES ASSUME Inv, Owned, [Next]_vars  PROVE Owned'
  OBVIOUS
<1>1. CASE ClientStep
  BY <1>1, StartOwned, StopOwned DEF ClientStep
<1>2. CASE MsgTimerPush
  BY <1>2, PushOwned
<1>3. CASE MsgTimerRemove
  BY <1>3, RemoveOwned
<1>4. CASE MsgTimerExpire
  BY <1>4, ExpireOwned
<1>5. CASE ExpireStop
  BY <1>5, ExpireStopOwned
<1>6. CASE ExpireNext
  BY <1>6, ExpireNextOwned
<1>7. CASE Tick \/ Poll \/ ExpireRead \/ ExpireCallback \/ ExpireOnDead \/ addPoll
             \/ SetTime \/ UNCHANGED vars
  BY <1>7, OthersOwned
<1>. QED
  BY <1>1, <1>2, <1>3, <1>4, <1>5, <1>6, <1>7 DEF Next, Task

LEMMA InitOwned == Init => Owned
<1> SUFFICES ASSUME Init  PROVE Owned
  OBVIOUS
<1>1. queue = <<>> /\ Len(queue) = 0 /\ 1..Len(queue) = {}
  BY DEF Init
<1>. QED
  BY <1>1 DEF Init, Owned, Owners, Removes, Pushes, Held

\* Who owns a delegate, in every reachable state.
THEOREM OwnersKnown == Spec => []Owned
  BY InitOwned, NextOwned, Invariance, PTL DEF Spec

\* The message task deletes each delegate once, and not while the heap, a client,
\* a message or the expiry in progress still refers to it (MsgTimerRemove).
THEOREM DelegatesAreDeletedOnce == Spec => []DelegatesLive
<1>1. Inv /\ Owned => DeletedOnce
  <2> SUFFICES ASSUME Inv, Owned, NEW d \in Delegate
               PROVE  /\ life[d] = "live" <=> (\E c \in Client : mTimer[c] = d)
                                               \/ queued("remove", d) # {}
                      /\ \A c \in Client : mTimer[c] = d => queued("remove", d) = {}
                      /\ \A i, j \in queued("remove", d) : i = j
    BY DEF DeletedOnce
  <2>1. DOMAIN queue = 1..Len(queue)
    BY DEF Inv, TypeOK
  <2>2. queued("remove", d) = {i \in 1..Len(queue) : queue[i] = <<"remove", d>>}
    BY <2>1 DEF queued
  <2>. QED
    BY <2>2, TimerAssumption DEF Owned, Owners, Removes
<1>2. Inv /\ Owned => NoDanglingDelegate
  <2> SUFFICES ASSUME Inv, Owned  PROVE NoDanglingDelegate
    OBVIOUS
  <2>1. DOMAIN queue = 1..Len(queue)
    BY DEF Inv, TypeOK
  <2>2. \A d \in heap \cup ({held} \ {None}) : life[d] = "live"
    BY DEF Owned, Held
  <2>3. ASSUME NEW i \in 1..Len(queue), queue[i][1] = "push"
        PROVE  /\ life[queue[i][2]] = "live"
               /\ \A j \in queued("remove", queue[i][2]) : i < j
    <3>1. queue[i] \in Msg /\ queue[i][2] \in Delegate
      BY <2>3 DEF Inv, TypeOK, Born
    <3>2. queue[i] = <<"push", queue[i][2]>>
      BY <2>3, <3>1, MessageIsPair
    <3>. QED
      BY <2>1, <3>1, <3>2 DEF Owned, Pushes, queued
  <2>. QED
    BY <2>1, <2>2, <2>3 DEF NoDanglingDelegate
<1>3. DeletedOnce /\ NoDanglingDelegate => DelegatesLive
  BY DEF DelegatesLive
<1>. QED
  BY <1>1, <1>2, <1>3, Invariance, OwnersKnown, PTL

\* A timer that was stopped in time is not called back, however the stop races
\* with its expiry (LocTimerDelegate::expire).
THEOREM StoppedIsNotCalled == Spec => []StoppedNeverFires
<1>1. Owned => StoppedNeverFires
  BY DEF Owned, Owners, StoppedNeverFires
<1>. QED
  BY <1>1, OwnersKnown, PTL
==============================================================================
