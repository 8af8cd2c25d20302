------------------------------ MODULE LocTimer ------------------------------
(***************************************************************************)
(* The timer service of gps/utils/LocTimer.cpp.  Client threads start and  *)
(* stop LocTimer objects; each start makes a LocTimerDelegate that the     *)
(* timer message task keeps in a heap ordered by time.  The soonest time   *)
(* is written to a timerfd, a poll thread waits for it with epoll and      *)
(* turns each expiry into a message, and the message task calls the        *)
(* clients back.  One container (one timerfd) is modelled: the two of the  *)
(* code share only the message task and the poll thread, which handle one  *)
(* container at a time.                                                    *)
(*                                                                         *)
(* Four actors interleave: the clients (under LocTimer::mLock), the poll   *)
(* thread, the message task, and the kernel, whose clock only moves on.    *)
(***************************************************************************)
EXTENDS Naturals, Sequences

CONSTANTS
  Client,                  \* the LocTimer objects
  Delegate,                \* the LocTimerDelegate objects they may create
  Delay,                   \* time-outs a client may ask for
  MaxTime,                 \* bound: the clock stops here
  None                     \* no object; no time

ASSUME TimerAssumption ==
  /\ Delay \subseteq Nat /\ MaxTime \in Nat
  /\ None \notin Client /\ None \notin Delegate /\ None \notin Nat

Time == 0..MaxTime
Msg  == {"push", "remove", "expire"} \X (Delegate \cup {None})

VARIABLES
  alive,                   \* LocTimer objects not yet destroyed
  mTimer,                  \* LocTimer::mTimer
  mClient,                 \* LocTimerDelegate::mClient
  mFutureTime,             \* LocTimerDelegate::mFutureTime
  life,                    \* a delegate is unborn, live, then deleted
  heap, top,               \* the LocHeap and its root, peek()
  queue,                   \* messages of the timer message task
  taskPc, held, client, timerOfNow,   \* the message task and its locals
  pollPc,                  \* the poll thread
  armed, polled, now,      \* the kernel: timerfd, epoll set, CLOCK_BOOTTIME
  stopped, fired           \* history: delegates stopped by a client, called back

clientVars == <<alive, mTimer, mClient, mFutureTime, life>>
taskVars   == <<taskPc, held, client, timerOfNow>>
vars == <<alive, mTimer, mClient, mFutureTime, life, heap, top, queue, taskPc,
          held, client, timerOfNow, pollPc, armed, polled, now, stopped, fired>>

\* Types; the heap's root is in the heap and outranked by nothing in it.
TypeOK ==
  /\ alive \subseteq Client
  /\ mTimer \in [Client -> Delegate \cup {None}]
  /\ mClient \in [Delegate -> Client \cup {None}]
  /\ mFutureTime \in [Delegate -> Time]
  /\ life \in [Delegate -> {"unborn", "live", "deleted"}]
  /\ heap \subseteq Delegate
  /\ top \in heap \cup {None}
  /\ top = None <=> heap = {}
  /\ \A d \in heap : mFutureTime[top] <= mFutureTime[d]
  /\ queue \in Seq(Msg)
  /\ taskPc \in {"idle", "read", "stop", "callback", "next", "addPoll",
                 "settime", "crashed"}
  /\ held \in Delegate \cup {None}
  /\ client \in Client \cup {None}
  /\ timerOfNow \in Time
  /\ pollPc \in {"wait", "disarm", "removePoll", "send"}
  /\ armed \in Time \cup {None}
  /\ polled \in {"polled", "idle"}
  /\ now \in Time
  /\ stopped \subseteq Delegate
  /\ fired \subseteq Delegate

Init ==
  /\ alive = Client
  /\ mTimer = [c \in Client |-> None]
  /\ mClient = [d \in Delegate |-> None]
  /\ mFutureTime = [d \in Delegate |-> 0]
  /\ life = [d \in Delegate |-> "unborn"]
  /\ heap = {} /\ top = None
  /\ queue = <<>>
  /\ taskPc = "idle" /\ held = None /\ client = None /\ timerOfNow = 0
  /\ pollPc = "wait"
  /\ armed = None /\ polled = "idle" /\ now = 0
  /\ stopped = {} /\ fired = {}

sendMsg(type, d) == queue' = Append(queue, <<type, d>>)
------------------------------------------------------------------------------
(* Clients, under LocTimer::mLock. *)

\* LocTimer::start and the LocTimerDelegate constructor
start(c, delay) ==
  /\ c \in alive /\ mTimer[c] = None /\ now + delay <= MaxTime
  /\ \E d \in Delegate :
       /\ life[d] = "unborn"
       /\ life' = [life EXCEPT ![d] = "live"]
       /\ mClient' = [mClient EXCEPT ![d] = c]
       /\ mFutureTime' = [mFutureTime EXCEPT ![d] = now + delay]
       /\ mTimer' = [mTimer EXCEPT ![c] = d]
       /\ sendMsg("push", d)
  /\ UNCHANGED <<alive, heap, top, taskVars, pollPc, armed, polled, now,
                 stopped, fired>>

\* LocTimerDelegate::destroyLocked: the delegate is detached from its client
\* and its removal is left to the message task
destroyLocked(d) ==
  mClient' = [mClient EXCEPT ![d] = None] /\ sendMsg("remove", d)

\* LocTimer::stop when a timer is ticking; otherwise it returns false and
\* does nothing
stopTicking(c) ==
  /\ mTimer[c] # None
  /\ mTimer' = [mTimer EXCEPT ![c] = None]
  /\ destroyLocked(mTimer[c])

stop(c) ==
  /\ c \in alive
  /\ stopTicking(c)
  /\ stopped' = stopped \cup {mTimer[c]}
  /\ UNCHANGED <<alive, mFutureTime, life, heap, top, taskVars, pollPc, armed,
                 polled, now, fired>>

\* LocTimer::~LocTimer stops the timer, then the object is gone
destroy(c) ==
  /\ c \in alive /\ alive' = alive \ {c}
  /\ IF mTimer[c] = None
     THEN UNCHANGED <<mTimer, mClient, queue, stopped>>
     ELSE stopTicking(c) /\ stopped' = stopped \cup {mTimer[c]}
  /\ UNCHANGED <<mFutureTime, life, heap, top, taskVars, pollPc, armed, polled,
                 now, fired>>
------------------------------------------------------------------------------
(* The kernel and the poll thread. *)

Tick ==
  /\ now < MaxTime /\ now' = now + 1
  /\ UNCHANGED <<clientVars, heap, top, queue, taskVars, pollPc, armed, polled,
                 stopped, fired>>

\* epoll_wait: the fd is in the epoll set and readable (level-triggered)
PollWake ==
  /\ pollPc = "wait" /\ polled = "polled" /\ armed # None /\ armed <= now
  /\ pollPc' = "disarm"
  /\ UNCHANGED <<clientVars, heap, top, queue, taskVars, armed, polled, now,
                 stopped, fired>>

\* LocTimerContainer::expire, in three steps of the poll thread
PollDisarm ==
  /\ pollPc = "disarm" /\ pollPc' = "removePoll"
  /\ armed' = None
  /\ UNCHANGED <<clientVars, heap, top, queue, taskVars, polled, now, stopped,
                 fired>>

removePoll ==
  /\ pollPc = "removePoll" /\ pollPc' = "send"
  /\ polled' = "idle"
  /\ UNCHANGED <<clientVars, heap, top, queue, taskVars, armed, now, stopped,
                 fired>>

PollSend ==
  /\ pollPc = "send" /\ pollPc' = "wait"
  /\ sendMsg("expire", None)
  /\ UNCHANGED <<clientVars, heap, top, taskVars, armed, polled, now, stopped,
                 fired>>
------------------------------------------------------------------------------
(* The message task: the only one to touch the heap. *)

\* the roots that LocHeap may hold once its nodes are h: any of the soonest
rootsOf(h) ==
  IF h = {} THEN {None}
  ELSE {d \in h : \A e \in h : mFutureTime[d] <= mFutureTime[e]}

\* LocHeap::remove and pop: the node leaves, a soonest one is at the root
heapRemove(d) ==
  /\ heap' = heap \ {d}
  /\ IF d = top THEN top' \in rootsOf(heap') ELSE UNCHANGED top

\* updateSoonestTime(NULL): with an empty heap both pointers are NULL, so
\* nothing is written; otherwise the fd is polled and the root's time set
updateSoonestTime == taskPc' = IF top' = None THEN "idle" ELSE "addPoll"

begin(type) ==
  taskPc = "idle" /\ queue # <<>> /\ Head(queue)[1] = type /\ queue' = Tail(queue)

MsgTimerPush ==
  /\ begin("push")
  /\ LET d == Head(queue)[2] IN
     /\ heap' = heap \cup {d}
     /\ IF top = None \/ mFutureTime[d] < mFutureTime[top]
        THEN top' = d /\ taskPc' = "addPoll"
        ELSE UNCHANGED <<top, taskPc>>
  /\ UNCHANGED <<clientVars, held, client, timerOfNow, pollPc, armed, polled,
                 now, stopped, fired>>

\* the kernel is told only when the root is what was removed
MsgTimerRemove_NoUpdate ==
  /\ begin("remove")
  /\ LET d == Head(queue)[2] IN
     /\ heapRemove(d) /\ life' = [life EXCEPT ![d] = "deleted"]
     /\ UNCHANGED taskPc
  /\ UNCHANGED <<alive, mTimer, mClient, mFutureTime, held, client, timerOfNow,
                 pollPc, armed, polled, now, stopped, fired>>
MsgTimerRemove_KeepsNode ==
  /\ begin("remove")
  /\ LET d == Head(queue)[2] IN
     /\ life' = [life EXCEPT ![d] = "deleted"]
     /\ UNCHANGED <<heap, top, taskPc>>
  /\ UNCHANGED <<alive, mTimer, mClient, mFutureTime, held, client, timerOfNow,
                 pollPc, armed, polled, now, stopped, fired>>
MsgTimerRemove ==
  /\ begin("remove")
  /\ LET d == Head(queue)[2] IN
     /\ heapRemove(d) /\ life' = [life EXCEPT ![d] = "deleted"]
     /\ IF d = top THEN updateSoonestTime ELSE UNCHANGED taskPc
  /\ UNCHANGED <<alive, mTimer, mClient, mFutureTime, held, client, timerOfNow,
                 pollPc, armed, polled, now, stopped, fired>>

\* pop the root and go on to its expire(), or finish the message
popTop ==
  /\ held' = top /\ heapRemove(top)
  /\ taskPc' = "read"

\* the first pop does not look at the time of the timer it pops
MsgTimerExpire ==
  /\ begin("expire")
  /\ timerOfNow' = now
  /\ IF top # None THEN popTop
     ELSE UNCHANGED <<heap, top, held, taskPc>>
  /\ UNCHANGED <<clientVars, client, pollPc, armed, polled, now, stopped, fired>>

\* LocTimerDelegate::expire reads mClient without the client's lock ...
ExpireRead ==
  /\ taskPc = "read"
  /\ client' = mClient[held]
  /\ taskPc' = IF client' = None THEN "next" ELSE "stop"
  /\ UNCHANGED <<clientVars, heap, top, queue, held, timerOfNow, pollPc, armed,
                 polled, now, stopped, fired>>

\* ... then stops that client, if it still has a timer ticking
ExpireStop_ResultUnread ==
  /\ taskPc = "stop" /\ client \in alive
  /\ taskPc' = "callback" /\ fired' = fired \cup {held}
  /\ IF mTimer[client] # None THEN stopTicking(client)
                              ELSE UNCHANGED <<mTimer, mClient, queue>>
  /\ UNCHANGED <<alive, mFutureTime, life, heap, top, held, client, timerOfNow,
                 pollPc, armed, polled, now, stopped>>
ExpireStop ==
  /\ taskPc = "stop" /\ client \in alive
  /\ IF mTimer[client] # None
     THEN /\ stopTicking(client) /\ taskPc' = "callback"
          /\ fired' = fired \cup {mTimer[client]}
     ELSE /\ taskPc' = "next" /\ UNCHANGED <<mTimer, mClient, queue, fired>>
  /\ UNCHANGED <<alive, mFutureTime, life, heap, top, held, client, timerOfNow,
                 pollPc, armed, polled, now, stopped>>

\* client->timeOutCallback(); what it starts or stops is an action of a client
ExpireCallback ==
  /\ taskPc = "callback" /\ client \in alive
  /\ taskPc' = "next"
  /\ UNCHANGED <<clientVars, heap, top, queue, held, client, timerOfNow, pollPc,
                 armed, polled, now, stopped, fired>>

\* a call on a LocTimer that was destroyed meanwhile: its mLock and its
\* virtual table are gone, the process dies
ExpireOnDead ==
  /\ taskPc \in {"stop", "callback"} /\ client \notin alive
  /\ taskPc' = "crashed"
  /\ UNCHANGED <<clientVars, heap, top, queue, held, client, timerOfNow, pollPc,
                 armed, polled, now, stopped, fired>>

\* popIfOutRanks(timerOfNow), the loop's end and updateSoonestTime(NULL)
ExpireNext_NoUpdate ==
  /\ taskPc = "next"
  /\ IF top # None /\ mFutureTime[top] <= timerOfNow THEN popTop
     ELSE UNCHANGED <<heap, top>> /\ taskPc' = "idle" /\ held' = None
  /\ client' = None
  /\ UNCHANGED <<clientVars, queue, timerOfNow, pollPc, armed, polled, now,
                 stopped, fired>>
ExpireNext ==
  /\ taskPc = "next"
  /\ IF top # None /\ mFutureTime[top] <= timerOfNow THEN popTop
     ELSE UNCHANGED <<heap, top>> /\ updateSoonestTime /\ held' = None
  /\ client' = None
  /\ UNCHANGED <<clientVars, queue, timerOfNow, pollPc, armed, polled, now,
                 stopped, fired>>

addPoll ==
  /\ taskPc = "addPoll" /\ taskPc' = "settime"
  /\ polled' = "polled"
  /\ UNCHANGED <<clientVars, heap, top, queue, held, client, timerOfNow, pollPc,
                 armed, now, stopped, fired>>

SetTime ==
  /\ taskPc = "settime" /\ taskPc' = "idle"
  /\ armed' = mFutureTime[top]
  /\ UNCHANGED <<clientVars, heap, top, queue, held, client, timerOfNow, pollPc,
                 polled, now, stopped, fired>>
------------------------------------------------------------------------------
ClientStep == \E c \in Client :
  (\E delay \in Delay : start(c, delay)) \/ stop(c) \/ destroy(c)
Poll == PollWake \/ PollDisarm \/ removePoll \/ PollSend
Task == \/ MsgTimerPush \/ MsgTimerRemove \/ MsgTimerExpire
        \/ ExpireRead \/ ExpireStop \/ ExpireCallback \/ ExpireOnDead
        \/ ExpireNext \/ addPoll \/ SetTime

Next == ClientStep \/ Tick \/ Poll \/ Task

\* The clock runs and both service threads are scheduled; clients need not act.
Fairness == WF_vars(Tick) /\ WF_vars(Poll) /\ WF_vars(Task)

Spec == Init /\ [][Next]_vars /\ Fairness
------------------------------------------------------------------------------
(* Properties. *)

queued(type, d) == {i \in DOMAIN queue : queue[i] = <<type, d>>}

\* No wake-up is lost: whenever timers tick and the message task is between
\* two messages, the kernel is armed and polled for the soonest of them, or an
\* expire message is queued or about to be.  updateSoonestTime, expire.
NoLostWakeup ==
  taskPc = "idle" /\ heap # {} =>
    \/ polled = "polled" /\ armed = mFutureTime[top]
    \/ queued("expire", None) # {}
    \/ pollPc # "wait"

\* Every delegate born has exactly one way out: it is its client's mTimer, or
\* exactly one remove message for it is queued, or it was deleted.  "all
\* timers are deleted here, and only here" (MsgTimerRemove).
DeletedOnce == \A d \in Delegate :
  /\ life[d] = "live" <=> (\E c \in Client : mTimer[c] = d) \/ queued("remove", d) # {}
  /\ \A c \in Client : mTimer[c] = d => queued("remove", d) = {}
  /\ \A i, j \in queued("remove", d) : i = j

\* The heap, the task's hand and the push messages never name a deleted
\* delegate: its remove message is behind all of them.
NoDanglingDelegate ==
  /\ \A d \in heap \cup ({held} \ {None}) : life[d] = "live"
  /\ \A i \in DOMAIN queue :
       queue[i][1] = "push" =>
         life[queue[i][2]] = "live" /\ \A j \in queued("remove", queue[i][2]) : i < j

\* Delegates are deleted once, and not while anybody holds one.
DelegatesLive == DeletedOnce /\ NoDanglingDelegate

\* A timer that a client stopped in time is never called back: stop() and the
\* task's own stop() end a delegate only once.  LocTimerDelegate::expire.
StoppedNeverFires == stopped \cap fired = {}

\* Unless the process died, a started timer is called back or stopped.
TimersExpire == \A d \in Delegate :
  (life[d] = "live") ~> (d \in stopped \cup fired \/ taskPc = "crashed")
=============================================================================
