# Verification of the veux device tree

`device_xiaomi_veux` is the Android device tree of one phone.  Almost all of
its program logic is the GNSS HAL under `gps/` (Qualcomm's location stack);
the rest is a settings application (`parts/`), boot-time helpers and data.
This directory holds TLA+ models of the parts of the program where threads,
messages, timers, modem restarts and late answers meet, TLC configurations
that check them on small instances, and proofs (TLAPS) for instances of any
size.

1. [The system](#1-the-system) - inventory, interactions, what is hard
2. [The modules](#2-the-modules) - what each models and how it maps to the code
3. [The runs](#3-the-runs) - what is checked, bounds, fairness, exceptions
4. [The proofs](#4-the-proofs) - theorems, invariants, what is only checked
5. [Disagreements with the code's own words](#5-disagreements)
6. [Behaviour worth knowing](#6-behaviour-worth-knowing) - what the code does
   and the properties except
7. [Not modelled](#7-not-modelled), and [the plan](#8-the-plan)

## 1. The system

### Components

| Component | State | Operations | Correct if |
|---|---|---|---|
| `gps/utils` MsgTask, msg_q, LocThread | a locked list, a condition variable, an "unblocked" flag; a thread that shares its runnable with the caller of `stop` | post, receive, unblock, flush, destroy | messages run once, in order; each is freed once; the sleeper is woken; `stop` ends the thread and frees the queue last |
| LocTimer, LocHeap | a heap of delegates, one timerfd, an epoll thread, a message task; per client one pending delegate | start, stop, destroy, expire | every timer is called back or stopped, none after its stop; a delegate is deleted once and after its last use |
| LocIpc | a socket, a listening thread | send, receive in pieces, abort | messages arrive whole, in order; the listener can be stopped |
| `gps/core` LocApiBase, LocAdapterBase, ContextBase | up to ten adapters; event masks; clients; capabilities known or not | add, remove, engine up and down, postponed messages | masks follow the clients; a deleted client is forgotten |
| LocationAPI, LocationAPIClientBase | clients, a mask of adapters to wait for; sessions; queues of requests | create, update, destroy, start, stop | destruction completes once, after all adapters; a session ends with its client; an answer meets its request |
| GnssAdapter: tracking sessions | two maps of sessions, messages parked until the capabilities are known | start, update, stop, client removed, engine up | one true answer per command; the engine runs what the sessions need |
| GnssAdapter: registrations | event mask, NMEA types, capabilities, rate of the fixes, engine hub | clients and hub come and go, engine up | the modem is registered for the union of what is wanted |
| GnssAdapter: control | lock, configuration, blacklist, settings, ids to answer | enable, NFW, configuration, aiding data, engine up | at rest the modem has what was asked for last; every id is answered once |
| GnssAdapter: network-initiated requests | two sessions, each with a thread | notify, answer, time out | each request ends once, as its user decides |
| GnssAdapter: ODCPI | a request flag and a timer | start, stop, expire, engine up | a request that lasts is asked again and reaches the framework |
| GnssAdapter: reports, NMEA | a queue of latencies, satellites used, leap seconds; sentences | reports of the modem | reports of one epoch stay together; sentences tell what was reported |
| Agps | two state machines with a subscriber list each | requestATL, releaseATL, open, failed, closed | every ATL answered and closed once; machine and framework agree |
| GeofenceAdapter | client id to hardware id and back | add, remove, pause, resume, modify; engine up | maps inverse; answers meet requests; fences survive a restart |
| BatchingAdapter | sessions, trips with accumulated distance | start, update, stop, trip reports, engine up | trips share one engine session and are reported at their distance |
| SystemStatus | histories of debug sentences | sentences, positions, reset | debug reports tell the last sentences |
| SystemStatusOsObserver | two maps between clients and data items, a cache | subscribe, update, unsubscribe, notify | maps inverse; the framework is subscribed to the union |
| Networks: AGnssRil, NativeAgpsHandler | a table of networks, a history | connect, disconnect, death of the framework | the modem gets a data connection when there is one |
| XtraSystemStatusObserver, DGNSS | what the daemon was told; an NTRIP source | updates, sessions, consent, daemon restarts | the daemon knows and runs what was set last |
| HIDL: Gnss, GnssAPIClient | four versions of a callback, cached capabilities | register, report, die | what was registered last is called |
| HIDL: tracking and batching sessions | one session, a queue of requests | start, stop, options, flush | the adapter runs the session started last |
| HIDL: measurements | one of four callbacks, a session | register, close, report, die | the engine measures for the open registration |
| HIDL: settings (GnssConfiguration, AGnss) | values kept until there is a client | set, blacklist | the adapter has what was accepted last |
| AutoHBMService (`parts/`) | brightness mode, jobs of a worker thread | sensor, screen on and off | the mode follows the light; brightness is restored |
| other services and screens of `parts/`, `init/`, `camera/` | a preference and a sysfs node each | set, restore at boot | - |

### How they interact

Binder threads call LocationAPI, which calls an adapter's `...Command`.  That
posts a `LocMsg` to the message task all adapters share and returns an id;
everything else happens in `proc()` on that task.  `proc()` calls the engine
through `LocApiBase` with a `LocApiResponse`; the engine's answer is posted
back as a message that runs the response's continuation.  So no adapter state
is locked, and every adapter works with a queue of commands, a queue of
engine calls, and a queue of answers in which anything may come between.  A
modem restart (`handleEngineDownEvent`, `handleEngineUpEvent`) arrives as a
message too.  Timers have a message task and a poll thread of their own and
call clients back on that task; AgpsManager also talks to the Android
framework, whose answers carry no request id.  `LocApiBase` has a task of its
own, from which a few functions use the adapters' state.

### What is hard

`PROJECT.json` lists the hazards at their lines.  They are of five kinds:
lost wake-ups and double frees below the adapters (MsgTask, LocTimer); answers
that meet a later state than the one they were asked in (Agps, ODCPI, every
continuation, every queue of requests); sessions that are in no map while an
engine call is under way (tracking, batching, geofences); state that must
survive a restart of the modem, of a daemon or of the framework; and reports
that belong together and come apart.

## 2. The modules

| Module | Models | Checked in | Proofs |
|---|---|---|---|
| `FifoService` (abstract) | what a message task promises | `MsgTask_MC` | |
| `MsgTask` | `MsgTask.cpp`, `msg_q.c`, `linked_list.c`, `LocThread.cpp` | `MsgTask_MC` | `MsgTaskProofs` |
| `LocIpc` | `LocIpc.cpp` over local datagram sockets | `MsgTask_MC` | |
| `RankedSet` (abstract) | what LocTimer needs from its heap | `LocTimer_MC` | |
| `LocHeap` | `LocHeap.cpp`: the recursive tree | `LocTimer_MC` | |
| `LocTimer` | `LocTimer.cpp` over a ranked set | `LocTimer_MC` | `LocTimerProofs` |
| `OnDemand` | ODCPI in `GnssAdapter.cpp` | `LocTimer_MC` | |
| `AtlSessions` (abstract) | what the modem is promised for each ATL | `Agps_MC` | |
| `Agps` | `Agps.cpp`, its messages in `GnssAdapter.cpp`, `AGnss.cpp` and `NativeAgpsHandler.cpp` | `Agps_MC`, `Adapter_MC` | `AgpsProofs` |
| `Tracking` | the tracking sessions of `GnssAdapter.cpp` | `Tracking_MC` | `TrackingProofs` |
| `GnssHal`, `Measurements` | callbacks and measurements of the framework (`Gnss.cpp`, `GnssAPIClient.cpp`, `GnssMeasurement.cpp`, `MeasurementAPIClient.cpp`) | `Tracking_MC` | `TrackingProofs` |
| `Geofence` | `GeofenceAdapter.cpp` with the request queues of `LocationAPIClientBase` and the task of `LocApiBase` | `Geofence_MC` | `GeofenceProofs` |
| `Batching` | `BatchingAdapter.cpp` | `Batching_MC` | |
| `LocationAPI` | `LocationAPI.cpp`, `LocAdapterBase.cpp`, `LocApiBase.cpp`: the life of clients | `LocationAPI_MC` | `LocationAPIProofs` |
| `Registrations` | what GnssAdapter registers for at the modem | `LocationAPI_MC` | `LocationAPIProofs` |
| `Control` | lock, configuration, settings and their answers | `Adapter_MC` | |
| `SystemStatus`, `Nmea`, `Networks`, `GnssSettings` | debug reports; `loc_nmea.cpp`; networks; settings of the framework | `Adapter_MC` | |
| `NetworkInitiated`, `OsObserver` | NI requests; data items | `Services_MC` | `ServicesProofs` |
| `AutoHBM`, `Xtra` | the display; the XTRA daemon and its source | `Services_MC` | `ServicesProofs` |
| `GnssClient`, `BatchingClient`, `Reports` | the sessions of the framework; reports of the modem | `Services_MC` | `FrameworkProofs` |

Definitions carry the names of the code; `PROJECT.json` maps each to its lines.
A definition with a suffix (`msg_q_snd_NoSignal`) is the definition of that
name with a plausible bug, kept beside it: put in its place, it must make the
named property fail.  An action is a whole handler - what the message task does
with one message, what a thread does between two points where another may come
in - and a step is split only where the code releases a lock, makes a system
call another thread can see the middle of, or posts a message.

**Parts share runs.**  Components that share no state are composed in one MC
module: the variable `part` is chosen in the initial state, only that part acts,
the others rest, and each property is guarded by its part.  So the states add
up and do not multiply, and each part is checked exactly as if it were alone.

**MsgTask.**  `msgList`, `queue` (open, unblocked, released) are the queue;
`pc`, `cur` the thread inside `msg_q_rcv` and `proc()`; `refs` the owners of the
shared runnable; `stopPc` the steps of `LocThread::stop`.  One action is one
critical section under `list_mutex`.  The wait is split at `pthread_cond_wait`:
`RcvEmpty` sleeps, `WaitTake` and `WaitClosed` are its two ways on.  Messages
posted after `msg_q_unblock` are refused and, as `MsgTask::sendMsg` ignores the
error, leaked (MsgTask.cpp:70); nothing in the tree stops a task that is still
posted to.  `accepted`, `taken`, `freed`, `takenLate` are history.

**LocHeap and LocTimer.**  `LocHeap` is the code's tree, method by method, with
RECURSIVE operators; it implements `RankedSet`, and `LocTimer` uses the set
view (`heap`, `top`, any soonest item may be the root).  `LocTimer` interleaves
clients (under the client's lock), the poll thread (`pollPc`: wake, disarm,
unpoll, send - three calls, three steps), the message task (`taskPc`) and the
kernel (`now`, `armed`, `polled`).  `LocTimerDelegate::expire` is split where it
reads `mClient` without the lock.

**Agps.**  Two state machines over one queue.  "internet" (`mInternetNif`, for
WWAN calls) is made when the adapter starts (`initDefaultAgps`), and
`NativeAgpsHandler` answers its requests in the same step by a message to the
adapter's task.  "agnss" (`mAgnssNif`, for SUPL and SUPL_ES) is made when the
framework registers (`AGnss::setCallback`), at any time or never; until then its
requests are denied.  `queue` is the adapter's message queue, `calls` the
framework's, `conn` its connection, `modem` what the modem was told about each
handle; a status it has no use for makes it "confused", which
`ImplementsSessions` excludes.  `Features`
selects what a build or a run may meet: the PDN-type query of the WDS library
("wds"), APNs longer than the limit ("longApn"), modem restarts ("ssr").

**Tracking.**  `timeBased` and `distanceBased` are the two session maps,
`pending` the parked messages, `queue` the adapter's messages, `calls` the
engine's.  A call carries its continuation (`then`) and the options to restore
(`saved`); `continue` runs it.  `begin`, `procStart` ... are one message each,
with every engine call the handler makes.  `client` is the client's view (one
session per client, as `LocationAPIClientBase` keeps it); `owed` counts its
unanswered commands.  A client that sends a command while one is owed is
`hasty`; a session with a failed call is `failed`.

**Geofence and Batching** follow the same scheme: commands, engine calls and
answers as messages, continuations as actions.  `Geofence` adds the client side
(one request queue per client, answers given to its head), and the hardware ids
that a restart renews.  `Batching` counts distance modulo `Modulus`, as the code
does in unsigned arithmetic, and lets the engine travel.

**LocationAPI.**  `gData` is the locked state of `LocationAPI.cpp` (clients, and
those being destroyed, each with the adapters still to answer), `object` the life
of a client's object, `adapter` the clients, sessions and postponed messages of
each adapter, `queue` and `apiQueue` the two tasks.  Sessions are of four kinds,
by what their start, their stop and the removal of their client do to the maps:
"time" (shared fix, gone at once), "distance" (gone when the modem grants the
stop), "routine" (gone at once, saved again if the stop fails) and "trip" (kept
with the batches).  `asked` is what the modem has yet to answer, `issued` the
sessions a client may stop, `refused` (history) the stops the modem refused.
`Tracking` and `Batching` have the engine's side of the same handlers.

**Control.**  A menu of commands is chosen in the initial state; `queue` is the
adapter's task and `locApi` the task of `LocApiBase`, on which two functions use
the adapter's state from outside.  `owed` counts the answers of each id.

**The framework's side.**  In `GnssClient`, `BatchingClient`, `GnssHal` and
`Measurements` a call of the binder is several steps wherever the code looks up
or copies a member, and the adapter's task comes between them; deaths of the
framework are reported by another thread, later.

## 3. The runs

| Run | Instance | States | Properties |
|---|---|---|---|
| `msgtask` | 2 threads and the task post 2 messages each; or 2 senders on a socket | 96 503 | `FreedOnce`, `Shutdown`, `NoLostWakeup`, `ImplementsFifo`, `StopReleases`, `IpcServes` |
| `loctimer` | 2 clients, 2 delegates, delays 1-2, time to 3; or a heap of 5 items with ties; or ODCPI with 2 frameworks | 200 568 | `NoLostWakeup`, `DelegatesLive`, `StoppedNeverFires`, `TimersExpire`, `HeapServes`, `OdcpiServed` |
| `agps` | two machines, 3 handles, 3 in flight | 506 845 | `Settled`, `AcquiredIsConnected`, `ImplementsSessions`, `AtlsComplete` |
| `tracking` | 2 clients, 3 options, 2 in flight, 1 failure; or callbacks and measurements of 4 versions | 3.8 M | `EngineServes`, `CommandsAnswered`, `ClientsFollowed` |
| `geofencing` | a careful client with 2 fences, a hasty one with 1; 3 calls, 1 restart | 909 720 | `EngineFollows`, `BreachIsOwn`, `AnswersReach` |
| `batching` | a routine session or short trip, and a long trip; 1 update, failure or restart | 2.8 M | `BatchesReach`, `TripsKept`, `AnsweredOnce` |
| `clients` | 2 clients, 3 adapters of which one has no library, sessions of every kind, 1 start, change or restart; or registrations of 2 clients | 896 907 | `ClientsEnd`, `MasksFollow`, `ClientsServed` |
| `adapter` | 7 menus of commands, 3 of one; or sentences and reports; or NMEA of 2 satellites; or 3 networks; or settings; or ATLs of 2 handles with late answers, or with restarts, symmetric | 2.7 M | `ModemFollows`, `CommandsAnswered`, `StatusFollows`, `SentencesTell`, `ListFitsState` |
| `services` | NI with 2 requests; 2 observers and 2 items; the display; the XTRA daemon; tracking and batching of a framework; reports of 2 epochs | 2.3 M | `RequestsEnd`, `SubscriptionsHold`, `LightFollowed`, `DaemonFollows`, `TrackingFollows`, `BatchingFollows`, `ReportsFollow` |
| `agps_acquiredisconnected`, `tracking_stopped`, `services_kept` | small | | counterexamples, section 5 |

Some properties join what belongs together: `Shutdown` that the queue is freed
last and that at most one message is taken after the unblock; `CommandsAnswered`
of Tracking that no command is answered twice, all are answered once at rest,
and truly; `ClientsFollowed` that a client that is gone leaves no session behind,
`CallbacksFollow` and `MeasurementsFollow`; `AnswersReach`, `BatchesReach`,
`TripsKept`, `MasksFollow` (`MaskFollows` and `RegistrationsFollow`),
`ModemFollows` (with `LockFollows` and `SettingsHold`) and `StatusFollows` (with
`NetworksFollow`) likewise; `HeapServes` that the heap implements `RankedSet`,
that `remove` finds what it is asked for, and that the tree stays ordered by rank
with a count of each subtree (how even it is, is not claimed); `ClientsEnd` that
a deleted client is forgotten and a session does not outlive its client but where
the code keeps it.  Each is defined, with its parts, at the end of its module.

**Why these bounds.**  *msgtask*: two foreign posters and the task itself
reorder every pair of posts; a second message per poster fills the queue behind
a running `proc()`.  On the socket, two messages of length two and three against
a piece length of two need one or two pieces.  *loctimer*: two delegates are
enough to be replaced, removed or overtaken at the root; two delays make the
second the sooner one; three instants let one expire while the other is
started.  Five nodes make a tree of three levels with an unbalanced side.
*agps*: one handle to hold the connection, one to be closing, one to arrive.
Its next-state relation names the actions that can happen without
features (`Prompt`); those of the features happen in *adapter*.
There a late answer or a restart needs a reused handle and one beside it,
of two that are alike.  *tracking*: two
sessions merge, three options differ in interval and in kind; two messages or
calls in flight let a command or restart cross every continuation (a handler may
add more: the bound only holds back new commands).  *geofencing*: a request, one
that overtakes it and a breach or restart between.  `MaxCrossed` bounds the
messages under way when the modem restarts and is 0 in the run; a restart that
meets some sets `crossed`, after which `EngineFollows` is not claimed.  With
MaxCrossed = 1 all three properties hold as well (1 773 098 states, five minutes);
unbounded, `BreachIsOwn` and `AnswersReach` do (1 861 970 states).
*batching*: a trip that joins, one that completes and one
event besides.  *clients*: a client with two adapters is deleted by the second
of two messages; one adapter without a library is the third case; a session and
its stop cross one removal (MaxCalls bounds sessions, changes of callbacks and
restarts together, MaxWaiting the messages of the registrations).  *adapter*: a
command, one that overlaps it, one after the restart.  *services*: two of
everything that can be confused with another.

**Stopping.**  `agps` and `tracking_stopped` check deadlock.  The
others set CHECK_DEADLOCK FALSE because a stopped task, an ended clock, a menu
used up or a bound on calls, restarts and reports reached is final; in
`agps_acquiredisconnected` a connection lost while a query runs can leave a
released handle without its answer and nothing to do.

**Fairness.**  MsgTask: the task thread and the stopper are threads the kernel
schedules (weak fairness each); posters owe nothing.  LocIpc: the listening
thread.  LocTimer: clock, poll thread and message task; clients owe nothing.
OnDemand: the message task and the timer.  Agps: the message task, the
framework's handler, and that an attempt to connect ends one way or another and
a WDS query is answered; the modem owes nothing, so a handle that shares its
connection with one still open is excepted from being closed; the framework
need not register, as "internet" answers without it.  Geofence: the two
message tasks.  LocationAPI: the two tasks, and that a modem that is down comes
up (it need not answer).  All are threads that wait on a queue and nothing else.  The other modules
assume none: that nothing is forgotten is stated there as "once all queues are
empty, all is answered", which needs no promise of the engine.

**What the properties except, and why.**

* `EngineServes` bounds the engine from one side: it may run faster than needed
  (an update that slows the fastest session does not slow the engine), and a
  distance-based session that is being stopped when the modem comes up is started
  again by `restartSessions` and stays in the engine for good.  It is stated
  without failures: a second client told SUCCESS without a call of its own is
  left without a fix if the first one's call fails (GnssAdapter.cpp:3087).
* For a hasty client that mixes distance and time updates with a stop,
  `distanceStopped` erases the time-based session without stopping the engine; so
  "no session, no fix" is stated for patient clients.
* Sessions with a failed call are excepted from the answers: the failure of a
  distance restart is never answered (GnssAdapter.cpp:3231), a failed update
  re-saves a session stopped meanwhile (3120), and a client told SUCCESS on the
  strength of another's merged call keeps its answer when that call fails (3087).
* `AtlsComplete` is checked without `longApn`: an APN refused by length is
  reported as RELEASED, which PENDING ignores (Agps.cpp:234), so the modem is
  never answered, by either machine.
* `ImplementsSessions` holds without modem restarts: no one calls
  `AgpsManager::handleModemSSR`, so the machines keep the subscribers of a
  modem that has forgotten them.
* `SessionsEnd` names the sessions the code keeps for a client that was removed:
  by distance, while the stop is to be answered; one whose stop the modem refused
  (`refused`); a trip.
* `SubscriptionsHold` excepts the pairs of client and item that an
  `updateSubscription()` left in one of the two maps, until a later request of the
  client heals them (`updated`), and for the framework an item that was first
  asked for with `requestData()` (`requested`).  What the update does to them is
  the disagreement `services_kept`.
* `MessagesArrive` of LocIpc speaks of messages whose pieces no other datagram came
  between: `torn` is set as soon as the pieces of two senders mix, and nothing is
  claimed from then on.
* The flags of the other modules (`crossed`, `resumeFailed`, `strayed`, `missed`,
  `late`, `leftover`, `muted`, `shifted`, `revived`, `swallowed`, `torn`, `raced`,
  `behind`, `full`, `phantom`, `repeated` ...) mark behaviours in which the code
  does something section 6 describes; a property says what holds otherwise, and
  TLC visits both.  So a hazard whose bad case is behind a flag is described, not
  ruled out; the note of the hazard in `PROJECT.json` says which it is.

## 4. The proofs

Every theorem holds for all values of the constants that satisfy the named
assumptions of the modules (numbers are naturals, `None` is not an element), and
of the hypotheses in the table, if any.

| Theorem | States |
|---|---|
| `MsgTaskProofs!TypeCorrect`, `WakeupsAreNotLost`, `ShutdownIsOrderly` | types, `NoLostWakeup`, `Shutdown` |
| `MsgTaskProofs!MessagesAreFreedOnce` | `FreedOnce`: every accepted message is run and freed once, in order, or still queued |
| `MsgTaskProofs!TaskIsFifo` | every step is a step of `FifoService` or leaves it alone: the safety part of `ImplementsFifo` |
| `LocTimerProofs!TypeCorrect`, `WakeupsAreNotLost` | types with the heap order, `NoLostWakeup` |
| `LocTimerProofs!OwnersKnown` | each delegate has one owner at a time, as its life allows |
| `LocTimerProofs!DelegatesAreDeletedOnce`, `StoppedIsNotCalled` | `DelegatesLive`, `StoppedNeverFires` |
| `AgpsProofs!TypeCorrect`, `ListIsConsistent` | types, `ListFitsState` of both machines, for any `Features` |
| `AgpsProofs!ListFollowsModem`, `AgpsImplementsSessions` | the lists follow the modem, a handle is in at most one; the two machines together refine `AtlSessions`; hypothesis: "ssr" is not in `Features` |
| `AgpsProofs!ConnectionSettles`, `AcquiredMeansConnected` | `Settled`, `AcquiredIsConnected`; hypotheses: neither "wds" nor "longApn" is in `Features`, while restarts may be |
| `ServicesProofs!SubscriptionsFollow`, `DaemonIsFollowed` | `SubscriptionsHold`, `DaemonFollows` |
| `ServicesProofs!RequestsEndOnce` | `RequestsEnd`; hypothesis `NoneIsNone`: `None` is neither a request nor a session |
| `ServicesProofs!LightIsFollowed` | `LightFollowed`; hypothesis `NoSetting`: `None` is no job and no brightness |
| `FrameworkProofs!TrackingIsFollowed` | `TrackingFollows`; hypothesis `SessionsBounded`: sessions are numbered, `None` stands for no options |
| `FrameworkProofs!BatchingIsFollowed` | `BatchingFollows`; hypothesis `BatchNumbered`: sessions are numbered, `None` is none of them |
| `FrameworkProofs!ReportsAreFollowed` | `ReportsFollow`; hypothesis `EpochsNumbered`: epochs are numbered, `None` is no record and nothing the modem computes |
| `LocationAPIProofs!ClientsAreForgotten` | `ClientsEnd`, with the sessions that removals, refused stops and trips leave |
| `LocationAPIProofs!MasksAreFollowed` | `MasksFollow`; hypothesis `ConfsFit`: the switches of a configuration are on or off, `None` is no interval |
| `GeofenceProofs!GeofencesAgree`, `EngineIsFollowed`, `BreachesAreOwn` | `EngineFollows` in every behaviour, as it is checked; the invariant below and `BreachIsOwn` until the modem restarts with messages under way (`~crossed =>`) |
| `TrackingProofs!TypeCorrect`, `EngineIsServed`, `CommandsAreAnswered` | types, `EngineServes`, `CommandsAnswered`; hypothesis: `Session` is a finite set of naturals |
| `TrackingProofs!NothingIsOrphaned` | a patient client that was removed leaves no session (`NoOrphans`, a part of `ClientsFollowed`) |
| `TrackingProofs!PartsFollowed` | `ClientsFollowed`: sessions of clients that are gone, callbacks of the framework, measurements |

*MsgTask.*  That the queue is freed last needs that `refs` holds exactly the
parties that have not let go, by the program counters; that one late message is
the most needs that a thread at "run" with a closed queue leaves.  `FreedOnce`
counts; its inductive form says more: what was freed, what the thread holds and
what is queued, joined in this order, is what was accepted.  The same equation
maps the states of the task to those of `FifoService`.

*LocTimer.*  `NoLostWakeup` speaks of the moments the message task is idle; the
invariant says what covers the heap at every step: `Covered` (armed and polled
for the root, or an expiry queued or on its way, or the task itself is about to
arm it), `Locals` (which locals are set at which step) and `Born` (what a queue
or a heap names was created).  `Owned` gives each delegate one owner, according to
its `life`: `Owners` (a client's timer is live and no other client's, and neither
stopped nor fired), `Removes` (a live delegate is a client's or has a remove
message, the only one), `Pushes` (it is pushed before it is removed) and `Held`
(what the heap and the expiring task name is live).  Deletion once and silence
after a stop follow from it.

*Agps.*  `ListFitsState` holds with types alone for every feature.  That the lists
follow the modem needs, for each handle, where it is on its way: `Disjoint` (it is
in one list at most), `StageFits` (its stage fits the state of the machine that
lists it), `RequestFits` and `ReleaseFits` (a request is queued once, for a handle
in no list, and a release for a handle the modem is done with or that is in no
list), and `NotConfused`.  An event of one machine changes the handles of
its own list only, so that the refinement follows handle by handle: each is moved
along `Moves` or left alone.  A restart reuses handles the list still holds, so these
theorems exclude it.  `Settled` and `AcquiredIsConnected` follow one attempt to
connect (`OneAttempt`): a
request is made only once the last attempt was reported ended, each attempt is
reported ended once, and a release that comes after the end is not answered;
`Idle`, `Asking`, `Holding` and `Ending` list, for each state of the machine, how
far the attempt got, what of it is still to be told, and which calls the
framework has yet to handle.  For "internet", whose requests are answered in the
step that makes them, it is enough that an answer is queued in the states that
wait for one.

*Services.*  Each part of the composition takes its own steps and leaves the
others' variables alone, so an invariant of a part, kept by its steps, is one of
the composition; the theorems speak of the composition that `services` checks.

*OsObserver.*  The maps are inverse, the framework is subscribed to what some
client wants, and each client knows the cached value of what it wants: to these
the invariant adds that the framework, once set, has the keys of the second map
but for what was only requested (`FrameworkHasKeys`, which holds through updates
too), that a one-time request is wanted as well (`RequestedAreWanted`) and that
nothing is subscribed before the framework is set (`NothingBefore`).  That keys
and lists of clients name the same items is `MapsAreInverse`; it is what an update
breaks, for the pairs in `updated`.

*NetworkInitiated.*  The invariant follows each request through the places that
can hold it - a message, a session, a thread, its end: `Apart` (no two hold it),
`Shown` (what the user saw is still somewhere), `Linked` and `Ids` (an id leads
from an answer to the request it was given to), `Threads`, `Handled`, `Stored`
and `OnItsWay` (an answer on its way to the modem is the user's, or none, unless
it was stored as its request timed out).

*AutoHBM.*  At rest nothing is left to correct a wrong mode; the invariant says
what is left to do so before.  While the mode is on in a light that turned low a
reading, the main thread or a job that no cancellation took back will still turn
it off (`Reads`, `Follows`); with the screen off or the service destroyed that is
the deactivation, which is queued last (`Dark`, `Destroyed`); and `Transition`,
`Mode` and `Setting` say between which steps of the worker the flag, the panel and
the stored brightness differ.  A cancellation takes jobs out of the middle of the
queue: `without` does it, a recursive function, and the lemma `Filtered` says by
the least index at which it would fail what it returns.

*Xtra.*  What the daemon knows once it has read all its datagrams, in their order,
is what the adapter knows (`ItemsTold`), and the source it then runs is the one the
adapter means it to run (`SourceTold`); before the daemon has asked, its request
is on the way (`Heard`).  That source is the one enabled last, in a session, or is
left over (`SourceKept`), and is started as soon as it may be (`SourceDue`).

*GnssClient.*  Requests that wait for an answer are as many as the calls of the
session in the adapter's mail or behind the engine (`Matched`).  A session that runs
is the last one and wanted, or its stop is on its way (`Stopped`); a wanted one runs,
or its start is on its way or failed (`Started`); the last change on its way, or the
session, has the options set last (`Options`); and while answers have kept to their
requests, what the framework was told is true but for what is due (`Told`).

*BatchingClient.*  While each call on its way has its request and its session
(`Attributed`), the requests are those calls in their order (`InOrder`), the client
knows the last session only (`OneSession`), which the engine runs from the answer
of its start to that of its stop (`EngineRuns`); there is one exactly if it is wanted
or its stop is due (`BatchWanted`), and `Owed` has a report due for each flush.

*Reports.*  `Ordered`: reports are in the order of their epochs on each stretch of
their way, from the modem through the hub to the task.  `InStep`: with no hub, or
none withheld, there is an epoch n up to which all positions had their outcome, and
the latency kept first is that of the next (`PositionsDue`, `LatenciesDue`,
`SatellitesDue`).  `ReportsFollow` says the latter at the moment of logging.

*LocationAPI.*  `Untouched` (a client that is not there is in no adapter, in no
table and named by no addition or removal), `Present` (a client in use has no
removal on its way, and its adapters are loaded) and `TakenApart` (for a client
being destroyed, the adapters still to answer are those with a removal on its
way, once - `RemovedOnce` - and behind every addition - `AddsFirst`; so the
object is deleted when no adapter can name it any more).  `SessionsEnd` is
inductive beside them and the types of what is under way (`SessionTypes`): a start
looks for its client, also when it was postponed; the removal takes the client and
puts its sessions by distance into `asked`, and the answer that takes one
out of it erases the session or marks it refused.

*Registrations.*  The mask of the adapter is what is asked for now, and the modem
has it unless an opening is on its way (`Masked`).  Sentences (`NmeaSet`), what the
clients were told (`ToldOrAsks`) and the interval of the fixes (`RateSet`) are so
once the modem is there and the adapter has learned of it (`Settled`); before
that, the last message of its kind makes it so (`LastIs`), or who has it wrong still
has a question queued behind the change (`AsksAfter`).  `HubOnce` orders the
messages that load the hub.  `MaskFollows`, of the other part of the run, needs
that only adapters with a library have clients (`InLoaded`).

*Geofence.*  The modem has changed, and the adapter learns of it when its task
reads the answer: `Agrees` says of each fence the modem watches that the last
answer on its way that sets an option tells what the modem has, or that none does
and the adapter has it.  For a step of either side to keep this, an answer must
tell of one fence: `HwIds` (a number of the modem stands for one, and is given to
the adapter once) and `OnePlace` (a fence that is being added is at one place on
its way, and not in the maps).  `Removed`, `Kept` and `Leaving` say which fences
are watched while removals are on their way, `Inverses` that the two maps fit, for
the clients there are.  A restart empties the modem at once and the maps when its
message is read: in between nothing is watched and no answer of success is on its
way (`Fresh` in `Restart`), for which requests must not cross it.  So the
invariant is proved up to the first restart that does (`~crossed =>`), which is
all `EngineFollows` claims, and no hypothesis on restarts is needed.  `Breaches`
follows a breach to the task, and `Owners` gives each session one client, whose
maps lead from the session to the fence and, for a careful one, back.

*Tracking.*  A session can be in both maps, in one or in none, and which of them is
right depends on what is under way for it.  `Counted` says that the commands, calls
and answers under way for a client are what it is owed, and at most one for a
patient client.  `Staged` says, for each kind of thing that can be under way, what
the maps hold and whether the client wants it (`Stage`), and that with nothing
under way they hold what it wants.  `Waits` keeps parked commands to the time the
capabilities are unknown, when the modem is down or its engine-up message is
queued, `Told` gives each failure message a failed session.  The engine is spoken
of ahead of its calls: `Final` is the fix it will run once the last queued
time-based call is executed, and `Watches` the same of a distance-based
session, so a step that queues a call changes what is final at once.  `Served`,
`Rests` and `Watched` state `EngineServes` with these, at every step; when no call
is left, final and present are one.  `Served` and `Watched` are not claimed
while the modem is down or its engine-up message is queued: `restartSessions`,
which the message runs, establishes them anew.  The lemmas underneath are of two
kinds: on sequences (elements, counts and the last element of a sequence that
is appended to, joined or shortened at its head) and on the merging of options
(the fastest session decides, and which calls a start, a stop or a restart
makes).  The hasty clients, which send a command before the last was answered,
are excepted only where `StoppedStaysStopped` shows that they must be.

*GnssHal and Measurements.*  `PartsFollowed` joins the invariant of tracking with
those of the two other parts of its run.  A registration is a list of steps of the
binder's thread; for each remainder of that list, `Callbacks` says which callbacks
of older versions are still to be cleared and whether the new one is set and
remembered, `Written` which capabilities each thread has read or is about to write
back, and `Hears` that the last registration has heard them or they are on their
way to it.  For the measurements `Opened` and `Listens` tie the callback to the
steps of opening and closing that are left, `StopsComing`, `SessionStarts` and
`Powered` say which start, stop or power mode is queued for the engine, and
`Telling` that a report about to be told goes to the registration it was measured for,
in that one's version.

*With TLC only.*  All liveness (`StopReleases`, `TimersExpire`, `OdcpiServed`,
`AtlsComplete`, `ClientsServed`, the parts of `IpcServes` and `AnswersReach`) and
the fairness of `FifoService`, which are beyond the prover.  `HeapServes`: the
recursive tree of `LocHeap` cannot be unfolded by it.  `SentencesTell`,
`StatusFollows` and `IpcServes` rest on what `SelectSeq` and folds over
histories return, for which the proof would need induction over data.  The rest
has invariants of more flags than a proof has been written for: Batching, the
properties of `adapter` but `ListFitsState`, and the part `AnswersMatch` of
`AnswersReach`.

## 5. Disagreements

| Run | The code | Its words |
|---|---|---|
| `agps_acquiredisconnected` | a late PDN-type answer grants a connection that was lost or closed (GnssAdapter.cpp:5252) | "We already have the data connection setup" (Agps.cpp:93) |
| `services_kept` | `LocUnorderedSetMap::update` returns what old and new list have in common (LocUnorderedSetMap.h:196), so `updateSubscription` unsubscribes the framework from an item the client keeps; nothing in the tree calls it yet | "returns the VALs that are in effect removed from the keyed VAL set" (LocUnorderedSetMap.h:186-188), "no longer used by client" (SystemStatusOsObserver.cpp:160), "to only contain the following Data Item Ids 2,3,4,5" (IDataItemSubscription.h:72-76) |
| `tracking_stopped` | a stop that finds its session in neither map is answered ID_UNKNOWN, and the session starts afterwards (GnssAdapter.cpp:3359) | "LOCATION_ERROR_ID_UNKNOWN if id is not associated with a tracking session" (LocationAPI.h:78) |

## 6. Behaviour worth knowing

What the code does, the models have, and the properties except.  Some of it the
interface documents more strongly, without a run of its own here: `LocationAPI.h`
lets a caller wait for the destroy-complete callback, which is never invoked
(49-51), and lists for each call the response codes it is answered with (107-117
for batching, 166-171 for fences, 276-304 for aiding data and configuration),
where the code may answer an unknown batching session never, an update twice and a
second deletion of aiding data never; the comments of `LocationAPI.cpp` say the same.  For the
rest no document says what should happen.

**Tasks and timers.**  An emptied timer heap leaves the timerfd armed and costs
one spurious wake-up (LocTimer.cpp:303, 353); the first `pop()` of an expire
message is unconditional (381); `expire` may call a client destroyed after the
unlocked read of `mClient` (521); a timer stopped and started again while it
expires is called back at once (523).

**LocIpc.**  The pieces of a long message are joined with whatever datagram
comes between them; the abort message, too, is swallowed so.  `recv()` overwrites
`mAddr` with the address of a bound sender, after which `abort()` and the unlink
go to the peer; the senders of this library are unbound.

**Tracking.**  A start while another, slower session is merged restarts the fix
with the power mode of the fastest session and may drop a smaller one (3043).
Parked commands are posted again behind those that came later (2957).

**Agps.**  `setType` is overwritten by each request, whatever the earlier ones
asked for (Agps.cpp:588).  Until `AGnss::setCallback` all SUPL requests are
denied.  `NativeAgpsHandler` answers requests and never reports that the network it
answered with is lost, so an ATL of the internet machine stays open.  With the WDS
query, a grant left from an earlier attempt can make a machine ACQUIRED, and the
"closed" of an earlier release then ends the newer call.  An APN that is too long
leaves the internet machine PENDING as well.

**Data items.**  An item first asked for with `requestData` is in the map, so a
later `subscribe` of another client does not subscribe the framework to it
(SystemStatusOsObserver.cpp:112-125).  The update is section 5.

**Geofences.**  Answers that arrive after a restart fill maps that were emptied
(`crossed`).  Whether a fence is paused is lost by the first restart
(149), a resume that fails is never answered (671), a failed modify is answered
(505).

**Batching.**  An update is answered twice, an unknown session never.  A trip
that starts while the last other one is being stopped joins a batch that is
gone.  A completed trip stays in `mBatchingSessions` (891), so removing its client
stops another's.  After a restart the offset of a trip is reset in a copy (232).

**Clients of LocationAPI.**  The callback given to `destroy` is never called: its
test is inverted (LocationAPI.cpp:169, 344).  A client destroyed without one is
removed from the adapters, and its object stays; one destroyed without one while
no interface is loaded calls an empty function, which ends the process (343-347).
A session by distance of a removed client stays in the maps until the modem grants
its stop, for good if it refuses (GnssAdapter.cpp:2476-2485); a batch whose stop
fails is saved again for a client that is gone (BatchingAdapter.cpp:512-513), and a
trip stays (860-921).  `updateCallbacks` never
asks for capabilities; a batching stop between the engine-up message and its
processing overtakes a postponed start; a postponed message of a deleted client
would reach a new client at the same address.

**Registrations.**  A second request of the hub for the highest rate disables
the measurements it had enabled (GnssAdapter.cpp:6602-6609).
`getCapabilities` is not virtual: who asks is told the version of
`LocAdapterBase`, a broadcast tells the version of the adapter, so after a
restart or a change of the SUPL mode the framework loses
MEASUREMENT_CORRECTIONS and `yearOfHw` drops (GnssAPIClient.cpp:425-445).  Debug
NMEA types set before the modem is up, or kept over a restart, are lost if the
modem lacks DEBUG_NMEA, and NMEA types are never reduced.  What the hub wants is
registered only when clients come or go.

**Control.**  `gnssUpdateSvConfig` sends the satellite types of before the call
(5998).  A blacklist set by `gnssUpdateConfig` while another setting of it is
under way is lost.  `getConfig` names all items by one id of the list.  A second
deletion of aiding data within a second is never answered (2186).  The minimal
GPS week and two more settings are lost by a restart, and the client skips an
identical configuration.

**The framework's sessions.**  A start that fails leaves `mTracking` set, so
later starts are swallowed until a stop; a restart drops unanswered requests, and
answers are given to other ones; a failing update revives a stopped session; the
death of an old framework, told late, stops the session of the new one.  In
batching, a start while a stop is unanswered is dropped and reported as done;
double updates shift the queue of requests; `hasId` and `getExtById` may make an
entry for session 0, after which every start is refused (ALREADY_STARTED).

**SystemStatus, reports.**  P-sentences cut short store what the memory held as
complete items; equality of positions ignores speed and accuracy, so such an
update is dropped; NAVIC health and predictions are not parsed.  After a position
kept from all clients the queue of latencies stays one behind (3977).

**NMEA.**  After an SBAS satellite an offset of 87 is subtracted from the GPS
ids that follow (849); L1C, L1S and B2I are counted and not listed (2155); the
code of a tag block restarts within a group (678); NAVIC has no GSA and does not
make RMC valid; customized quality calls a fix what has no coordinates (1264).

**Networks.**  By version 1.0 all networks share handle 0, and a second one of
another type is not recorded; with a mobile and two wifi networks the loss of one
wifi leaves only the other; a network whose type changes is never removed; a first
report of a disconnection is taken as a connection; equality ignores `allTypes`; a
death of the framework walks the history unlocked and misses networks that left it.

**Callbacks, settings, measurements.**  `odcpiRequestCb` is tested and used
without the lock; capabilities read by `requestCapabilities` may be written back
over a newer report.  The host of a server set before `setCallback` is lost
(Gnss.cpp:234-239) and servers of other types overwrite it; `setGpsLock` answers
false always; QZSS ids by version 2.1 are offset twice and ignored; SBAS refused
alone is masked in a list with a valid source; `pending.flags` is never cleared.
A registration in another version finds the session of the one before, with its
power mode; one whose predecessor's death is untold is refused; a failed start is
not tried again before a close; V1_0 clamps to 64 measurements.

**XTRA, DGNSS.**  New parameters forget a running source without stopping it; a
consent withdrawn while the source waits for a position does not end the wait.

## 7. Not modelled

`PROJECT.json` has the full list with reasons.  Of the modelled components:
`msg_q_rmv`, `linked_list_search` and the C timer wrapper (no caller or plain
wrappers); `AgpsManager::handleModemSSR` (never called) and `libloc_net_iface.so`,
which a build may load in place of `NativeAgpsHandler` (external); APN and bearer
data; tracking's automotive fixed rates, builds without
distance-based tracking, `suspendSessions`; dwell reports and requests for several
fences; sessions switched between tracking and batching and trips of the
framework (no caller); PACE injection, the rate of NMEA and the time stamps of
reports; blank sentences; TCP, UDP and QRTR sockets; SBAS ids from 208 on, which
shift a mask by its width; `unlinkToDeath` that loses an obituary.  The HIDL
geofence service keeps no state: its `serviceDied` calls a TODO, and calls of
unknown ids are not answered.  Configuration readers, data items, logging and the
screens of the settings application translate or store single values.  About
6700 lines are headers that only declare data.

## 8. The plan

Every component with interacting state has a module; what is left is proofs:
those of Batching, `AnswersMatch` in `GeofenceProofs`, and the invariants of the
parts of `adapter`.  `EngineFollows` after a restart that meets messages under way
would need the fences whose answers crossed it named one by one.
