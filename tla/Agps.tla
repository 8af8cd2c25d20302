-------------------------------- MODULE Agps --------------------------------
(***************************************************************************)
(* The assisted-GPS data calls: AgpsManager and its two AgpsStateMachines  *)
(* of gps/gnss/Agps.cpp, driven through the message task of GnssAdapter.   *)
(*                                                                         *)
(* The modem asks for ATLs (connection handles) and releases them; a state *)
(* machine asks for one data connection shared by all of its ATLs, and     *)
(* tells the modem how each ATL fares.  "internet" (mInternetNif, for WWAN *)
(* calls) is made when the adapter starts, and NativeAgpsHandler answers   *)
(* it in the same step, by a message to the task.  "agnss" (mAgnssNif, for *)
(* SUPL calls) is made once the framework has registered, and asks the     *)
(* framework: an actor of its own, none of whose answers names the request *)
(* it answers.                                                             *)
(*                                                                         *)
(* requestATL subscribes every handle with mWaitForCloseComplete, so the   *)
(* branches for subscribers that do not wait cannot run.                   *)
(***************************************************************************)
EXTENDS Naturals, Sequences

CONSTANTS
  Handle,                  \* the modem's connection handles
  Features,                \* of {"wds", "longApn", "ssr"}, see below
  MaxInFlight              \* bound: no session starts with more under way

(* "wds": libloc_api_wds.so is installed and is asked for the PDN type     *)
(* before a grant is reported; "longApn": an APN may be of more than       *)
(* MAX_APN_LEN characters; "ssr": the modem may restart.                   *)

ASSUME AgpsAssumption ==
  /\ Features \subseteq {"wds", "longApn", "ssr"}
  /\ MaxInFlight \in Nat

Nif == {"agnss", "internet"}

VARIABLES
  created,                 \* the state machines there are
  mState,                  \* AgpsStateMachine::mState of each
  subscribers,             \* the handles in its mSubscriberList
  inactive,                \* those of them with mIsInactive
  queue,                   \* GnssAdapter's message queue
  wds,                     \* PDN type queries of each, not yet answered
  calls,                   \* statusCb calls the framework has yet to handle
  conn,                    \* the framework's data connection
  modem                    \* what the modem was told of each handle

smVars == <<mState, subscribers, inactive, calls, modem>>
vars   == <<created, mState, subscribers, inactive, queue, wds, calls, conn, modem>>

Request == Nif \cup {"release"}               \* from the modem, for a handle
Report  == {"opened", "granted", "failed", "closed"}      \* to a machine
Msg     == Request \X Handle \cup Report \X Nif \cup {<<"init", "agnss">>}

TypeOK ==
  /\ created \in SUBSET Nif
  /\ mState \in [Nif -> {"RELEASED", "PENDING", "ACQUIRED", "RELEASING"}]
  /\ subscribers \in [Nif -> SUBSET Handle]
  /\ inactive \in [Nif -> SUBSET Handle]
  /\ \A n \in Nif : inactive[n] \subseteq subscribers[n]
  /\ queue \in Seq(Msg)
  /\ wds \in [Nif -> Nat]
  /\ calls \in Seq({"request", "release"})
  /\ conn \in {"closed", "opening", "open"}
  /\ modem \in [Handle -> {"idle", "requested", "open", "closing", "confused"}]

\* the modem's requests are let in by the step that makes mInternetNif
Init ==
  /\ created = {"internet"}
  /\ mState = [n \in Nif |-> "RELEASED"]
  /\ subscribers = [n \in Nif |-> {}] /\ inactive = [n \in Nif |-> {}]
  /\ queue = <<>> /\ wds = [n \in Nif |-> 0]
  /\ calls = <<>> /\ conn = "closed"
  /\ modem = [h \in Handle |-> "idle"]

sendMsg(type, what) == queue' = Append(queue, <<type, what>>)
------------------------------------------------------------------------------
(* AgpsStateMachine.  Each operator says what becomes of smVars and, as    *)
(* NativeAgpsHandler answers at once, of the queue: rest is what is left   *)
(* of it without the message being processed.                              *)

\* what the modem makes of an ATL status; one it has no use for confuses it
told(stage, status) ==
  CASE status = "granted" /\ stage = "requested" -> "open"
    [] status = "granted" /\ stage = "closing" -> "closing"
    [] status = "denied" /\ stage \in {"requested", "closing"} -> "idle"
    [] status = "closed" /\ stage \in {"open", "closing"} -> "idle"
    [] OTHER -> "confused"

\* notifyEventToSubscriber for each of the handles hs
notify(hs, status) ==
  modem' = [h \in Handle |-> IF h \in hs THEN told(modem[h], status)
                                         ELSE modem[h]]

transitionState(n, state) == mState' = [mState EXCEPT ![n] = state]

\* NativeAgpsHandler opens what the phone is connected to, which may change at
\* any time; the command it calls reports "closed" at once for an APN it
\* refuses, which a machine that is RELEASED or PENDING ignores
processATLRequestRelease(what, rest) ==
  \/ /\ what = "request"
     /\ \E answer \in {"opened", "failed"} :
          queue' = Append(rest, <<answer, "internet">>)
  \/ what = "request" /\ "longApn" \in Features /\ queue' = rest
  \/ what = "release" /\ queue' = Append(rest, <<"closed", "internet">>)

requestOrReleaseDataConn(n, what, rest) ==
  \/ n = "agnss" /\ calls' = Append(calls, what) /\ queue' = rest
  \/ n = "internet" /\ processATLRequestRelease(what, rest) /\ UNCHANGED calls
noDataConn(rest) == queue' = rest /\ UNCHANGED calls

addSubscriber(n, h) ==
  subscribers' = [subscribers EXCEPT ![n] = @ \cup {h}] /\ UNCHANGED inactive

removeSubscribers(n, hs) ==
  /\ subscribers' = [subscribers EXCEPT ![n] = @ \ hs]
  /\ inactive' = [inactive EXCEPT ![n] = @ \ hs]

anyActiveSubscribers(n) == subscribers[n] # inactive[n]

processAgpsEventSubscribe_NoGrant(n, h, rest) ==
  /\ addSubscriber(n, h)
  /\ IF mState[n] = "RELEASED"
     THEN transitionState(n, "PENDING") /\ requestOrReleaseDataConn(n, "request", rest)
     ELSE UNCHANGED mState /\ noDataConn(rest)
  /\ UNCHANGED modem
processAgpsEventSubscribe(n, h, rest) ==
  /\ addSubscriber(n, h)
  /\ \/ /\ mState[n] = "RELEASED" /\ transitionState(n, "PENDING")
        /\ requestOrReleaseDataConn(n, "request", rest)
        /\ UNCHANGED modem
     \/ /\ mState[n] \in {"PENDING", "RELEASING"}
        /\ UNCHANGED <<mState, modem>> /\ noDataConn(rest)
     \/ /\ mState[n] = "ACQUIRED"
        /\ notify({h}, "granted")
        /\ UNCHANGED mState /\ noDataConn(rest)

\* h is in the list, which is therefore not empty
processAgpsEventUnsubscribe(n, h, rest) ==
  /\ inactive' = [inactive EXCEPT ![n] = @ \cup {h}]
  /\ UNCHANGED <<subscribers, modem>>
  /\ IF mState[n] # "RELEASING" /\ ~anyActiveSubscribers(n)'
     THEN transitionState(n, "RELEASING") /\ requestOrReleaseDataConn(n, "release", rest)
     ELSE UNCHANGED mState /\ noDataConn(rest)

ignored(rest) == UNCHANGED smVars /\ queue' = rest

processAgpsEventGranted(n, rest) ==
  IF mState[n] = "PENDING"
  THEN /\ transitionState(n, "ACQUIRED")
       /\ notify(subscribers[n] \ inactive[n], "granted")
       /\ UNCHANGED <<subscribers, inactive>> /\ noDataConn(rest)
  ELSE ignored(rest)

\* RELEASED or DENIED while RELEASING: the waiting subscribers are done; the
\* ones that came meanwhile need a connection
closeInactive_NoRetry(n, rest) ==
  /\ notify(inactive[n], "closed")
  /\ removeSubscribers(n, inactive[n])
  /\ transitionState(n, "RELEASED") /\ noDataConn(rest)
closeInactive_NoRequest(n, rest) ==
  /\ notify(inactive[n], "closed")
  /\ removeSubscribers(n, inactive[n])
  /\ transitionState(n, IF anyActiveSubscribers(n) THEN "PENDING" ELSE "RELEASED")
  /\ noDataConn(rest)
closeInactive_NotifiesAll(n, rest) ==
  /\ notify(subscribers[n], "closed")
  /\ removeSubscribers(n, inactive[n])
  /\ IF anyActiveSubscribers(n)
     THEN transitionState(n, "PENDING") /\ requestOrReleaseDataConn(n, "request", rest)
     ELSE transitionState(n, "RELEASED") /\ noDataConn(rest)
closeInactive(n, rest) ==
  /\ notify(inactive[n], "closed")
  /\ removeSubscribers(n, inactive[n])
  /\ IF anyActiveSubscribers(n)
     THEN transitionState(n, "PENDING") /\ requestOrReleaseDataConn(n, "request", rest)
     ELSE transitionState(n, "RELEASED") /\ noDataConn(rest)

dropAll(n, status, rest) ==
  /\ transitionState(n, "RELEASED")
  /\ notify(subscribers[n], status)
  /\ removeSubscribers(n, subscribers[n])
  /\ noDataConn(rest)

processAgpsEventReleased_NotForced(n, rest) ==
  IF mState[n] = "RELEASING" THEN closeInactive(n, rest) ELSE ignored(rest)
processAgpsEventReleased(n, rest) ==
  \/ mState[n] = "ACQUIRED" /\ dropAll(n, "closed", rest)      \* force release
  \/ mState[n] = "RELEASING" /\ closeInactive(n, rest)
  \/ mState[n] \in {"RELEASED", "PENDING"} /\ ignored(rest)

processAgpsEventDenied(n, rest) ==
  \/ mState[n] = "PENDING" /\ dropAll(n, "denied", rest)
  \/ mState[n] = "RELEASING" /\ closeInactive(n, rest)
  \/ mState[n] \in {"RELEASED", "ACQUIRED"} /\ ignored(rest)
------------------------------------------------------------------------------
(* AgpsManager, on the message task of the adapter: the messages of each   *)
(* kind, their handle or machine, and the messages behind them.            *)

begin(type) == queue # <<>> /\ Head(queue)[1] = type
subject == Head(queue)[2]
rest == Tail(queue)

initAgps ==
  /\ begin("init") /\ queue' = rest
  /\ created' = created \cup {"agnss"}
  /\ UNCHANGED <<smVars, wds, conn>>

requestATL ==
  /\ \E n \in created : begin(n) /\ processAgpsEventSubscribe(n, subject, rest)
  /\ UNCHANGED <<created, wds, conn>>

\* the framework has not registered yet: the request fails at once
requestATLNoMachine ==
  /\ \E n \in Nif \ created : begin(n)
  /\ notify({subject}, "denied") /\ queue' = rest
  /\ UNCHANGED <<created, mState, subscribers, inactive, wds, calls, conn>>

\* the lists are searched in this order; a handle in none is ignored
releaseATL ==
  /\ begin("release")
  /\ \/ /\ subject \in subscribers["agnss"]
        /\ processAgpsEventUnsubscribe("agnss", subject, rest)
     \/ /\ subject \in subscribers["internet"] \ subscribers["agnss"]
        /\ processAgpsEventUnsubscribe("internet", subject, rest)
     \/ /\ subject \notin subscribers["agnss"] \cup subscribers["internet"]
        /\ ignored(rest)
  /\ UNCHANGED <<created, wds, conn>>

\* AgpsMsgAtlOpenSuccess: grant, or ask the WDS library for the PDN type first
reportOpened ==
  /\ begin("opened")
  /\ IF "wds" \in Features
     THEN wds' = [wds EXCEPT ![subject] = @ + 1] /\ ignored(rest)
     ELSE processAgpsEventGranted(subject, rest) /\ UNCHANGED wds
  /\ UNCHANGED <<created, conn>>

\* MsgReportAtlPdn
reportAtlOpenSuccess ==
  /\ begin("granted") /\ processAgpsEventGranted(subject, rest)
  /\ UNCHANGED <<created, wds, conn>>

reportAtlOpenFailed ==
  /\ begin("failed") /\ processAgpsEventDenied(subject, rest)
  /\ UNCHANGED <<created, wds, conn>>

reportAtlClosed ==
  /\ begin("closed") /\ processAgpsEventReleased(subject, rest)
  /\ UNCHANGED <<created, wds, conn>>

Task ==
  \/ initAgps \/ requestATL \/ requestATLNoMachine \/ releaseATL
  \/ reportOpened \/ reportAtlOpenSuccess
  \/ reportAtlOpenFailed \/ reportAtlClosed
------------------------------------------------------------------------------
(* The modem: it reuses a handle only once it was told the last call ended. *)

ModemRequests(h) ==
  /\ modem[h] = "idle"
  /\ Len(queue) + Len(calls) + wds["agnss"] + wds["internet"] < MaxInFlight
  /\ modem' = [modem EXCEPT ![h] = "requested"]
  /\ \E n \in Nif : sendMsg(n, h)
  /\ UNCHANGED <<created, mState, subscribers, inactive, wds, calls, conn>>

ModemReleases(h) ==
  /\ modem[h] \in {"requested", "open"}
  /\ modem' = [modem EXCEPT ![h] = "closing"]
  /\ sendMsg("release", h)
  /\ UNCHANGED <<created, mState, subscribers, inactive, wds, calls, conn>>

\* A new modem knows of no handle.  GnssAdapter::handleEngineUpEvent restarts
\* the tracking sessions; nothing calls AgpsManager::handleModemSSR.
ModemRestarts ==
  /\ "ssr" \in Features
  /\ \E h \in Handle : modem[h] # "idle"
  /\ modem' = [h \in Handle |-> "idle"]
  /\ UNCHANGED <<created, mState, subscribers, inactive, queue, wds, calls, conn>>

(* The framework and the WDS library. *)

\* AGnss::setCallback; a machine that is there is kept, so once is enough
FrameworkRegisters ==
  /\ "agnss" \notin created /\ \A i \in 1..Len(queue) : queue[i][1] # "init"
  /\ sendMsg("init", "agnss")
  /\ UNCHANGED <<created, smVars, wds, conn>>

FrameworkRequested ==
  /\ calls # <<>> /\ Head(calls) = "request"
  /\ calls' = Tail(calls) /\ conn' = "opening"
  /\ UNCHANGED <<created, mState, subscribers, inactive, queue, wds, modem>>

\* a release with no connection left is not answered
FrameworkReleased ==
  /\ calls # <<>> /\ Head(calls) = "release"
  /\ calls' = Tail(calls) /\ conn' = "closed"
  /\ IF conn = "closed" THEN UNCHANGED queue ELSE sendMsg("closed", "agnss")
  /\ UNCHANGED <<created, mState, subscribers, inactive, wds, modem>>

FrameworkOpens ==
  /\ conn = "opening" /\ conn' = "open"
  /\ sendMsg("opened", "agnss")
  /\ UNCHANGED <<created, smVars, wds>>

\* dataConnOpenCommand refuses the APN and reports "closed" at once, on the
\* binder thread and past the queue
FrameworkOpensLongApn ==
  /\ "longApn" \in Features
  /\ conn = "opening" /\ conn' = "open"
  /\ processAgpsEventReleased("agnss", queue)
  /\ UNCHANGED <<created, wds>>

FrameworkFails ==
  /\ conn = "opening" /\ conn' = "closed"
  /\ sendMsg("failed", "agnss")
  /\ UNCHANGED <<created, smVars, wds>>

FrameworkLoses ==
  /\ conn = "open" /\ conn' = "closed"
  /\ sendMsg("closed", "agnss")
  /\ UNCHANGED <<created, smVars, wds>>

\* reportPdnTypeFromWds
WdsAnswers ==
  /\ \E n \in Nif : /\ wds[n] > 0 /\ wds' = [wds EXCEPT ![n] = @ - 1]
                    /\ sendMsg("granted", n)
  /\ UNCHANGED <<created, smVars, conn>>

Next ==
  \/ Task
  \/ \E h \in Handle : ModemRequests(h) \/ ModemReleases(h)
  \/ ModemRestarts
  \/ FrameworkRegisters
  \/ FrameworkRequested \/ FrameworkReleased
  \/ FrameworkOpens \/ FrameworkOpensLongApn
  \/ FrameworkFails \/ FrameworkLoses
  \/ WdsAnswers

(* The message task and the framework's handler keep working off what they *)
(* were sent, and an attempt to connect ends.  The modem owes nothing, and *)
(* the framework need not register.                                        *)
Fairness ==
  /\ WF_vars(Task)
  /\ WF_vars(FrameworkRequested \/ FrameworkReleased)
  /\ WF_vars(FrameworkOpens \/ FrameworkOpensLongApn \/ FrameworkFails)
  /\ WF_vars(WdsAnswers)

Spec == Init /\ [][Next]_vars /\ Fairness
------------------------------------------------------------------------------
(* Properties. *)

\* The list of subscribers of each machine fits its state: none while RELEASED,
\* someone who still wants the connection while it is asked for or held, someone
\* waiting for its end while it is released (the comments of Agps.cpp:201, 222).
ListFitsState ==
  \A n \in Nif :
    /\ mState[n] = "RELEASED" => subscribers[n] = {}
    /\ mState[n] \in {"PENDING", "ACQUIRED"} => anyActiveSubscribers(n)
    /\ mState[n] = "RELEASING" => inactive[n] # {}

\* No list entry outlives its session: a handle is in at most one list, and only
\* while the modem waits for it or uses it; an inactive one is one it released.
ListFitsModem ==
  /\ subscribers["agnss"] \cap subscribers["internet"] = {}
  /\ \A n \in Nif : /\ \A h \in subscribers[n] : modem[h] # "idle"
                    /\ \A h \in inactive[n] : modem[h] = "closing"

\* With nothing under way no machine waits for a release or for NativeAgpsHandler,
\* and the other agrees with the framework on the connection.
Settled ==
  queue = <<>> /\ calls = <<>> /\ (\A n \in Nif : wds[n] = 0) =>
    /\ mState["internet"] \in {"RELEASED", "ACQUIRED"}
    /\ mState["agnss"] # "RELEASING"
    /\ conn = [RELEASED |-> "closed", PENDING |-> "opening",
               ACQUIRED |-> "open"][mState["agnss"]]

\* While ACQUIRED the framework's connection is up, or the report of its loss is
\* queued: "We already have the data connection setup" (Agps.cpp:93).
AcquiredIsConnected ==
  mState["agnss"] = "ACQUIRED" =>
    conn = "open" \/ \E i \in 1..Len(queue) : queue[i] = <<"closed", "agnss">>

\* Every ATL the modem asks for is granted or denied, each at most once, and
\* reported closed once: the machines implement the sessions of AtlSessions.
Sessions == INSTANCE AtlSessions WITH session <- modem
ImplementsSessions == Sessions!Spec

\* A release is completed in the end, however the answers of modem and framework
\* cross; but a handle shares its machine's connection, and is reported closed
\* only once the others of that machine have released theirs too.
ReleasesComplete ==
  \A h \in Handle :
    modem[h] = "closing" ~>
      \/ modem[h] = "idle"
      \/ \E n \in Nif : /\ h \in inactive[n]
                        /\ \E g \in subscribers[n] : modem[g] = "open"

\* A request is granted, denied or given up by the modem in the end, however
\* often the connection is denied or lost.
RequestsAnswered ==
  \A h \in Handle : modem[h] = "requested" ~> modem[h] # "requested"

\* No ATL is left behind, on its way in or out.
AtlsComplete == RequestsAnswered /\ ReleasesComplete
==============================================================================
