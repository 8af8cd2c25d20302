------------------------------- MODULE Control -------------------------------
(***************************************************************************)
(* The control side of GnssAdapter (gps/gnss/GnssAdapter.cpp): the lock    *)
(* that keeps the modem from locating, configuration, blacklists and       *)
(* settings, what is sent again when the modem restarts, and the answers   *)
(* that reach LocationAPIControlClient (gps/location).                     *)
(*                                                                         *)
(* Commands are messages of the adapter's task.  Its calls to the modem    *)
(* are messages of the task of LocApiBase, and two of those,               *)
(* gnssUpdateConfig() and the lambda of setConfig(), use the adapter's     *)
(* state from there.  What a setting contains is a value.                  *)
(***************************************************************************)
EXTENDS Integers, Sequences, FiniteSets

CONSTANTS
  Menus,                   \* sets of commands; a behaviour uses one of them
  Svs, svTypeOf,           \* satellites, and the constellation of each
  MaxCommands,             \* bounds the commands of a behaviour
  MaxRestarts,             \* bounds the times the modem comes up
  MaxBacklog,              \* bounds the commands the adapter has not taken yet
  Unset                    \* a setting that is not valid

VARIABLES
  menu,                    \* the commands of this behaviour
  mEnabled,                \* LocationAPIControlClient::mEnabled
  mRequestQueues,          \* its session and requests for "aiding", "control"
  queue,                   \* the task of the adapter
  mPendingMsgs, known,     \* commands parked until the capabilities are known
  GPS_LOCK, SUPL_VER,      \* of ContextBase::mGps_conf; a lock is a set of bits
  afwControlId,            \* mAfwControlId, 0 while location is disabled
  mSupportNfwControl,      \* until the framework configures GPS_LOCK itself
  blacklist,               \* mBlacklistedSvIds and mGnssSvIdConfig
  mGnssSvTypeConfig,       \* constellations [valid, enabled, blacklisted]
  info,                    \* mLocConfigInfo, the power state, secondary band
  deleted,                 \* mLastDeleteAidingDataTime is set
  locApi,                  \* the task of LocApiBase
  modem,                   \* what the modem was configured with
  nextId,                  \* generateSessionId()
  restarts,
  \* history: answers each id still waits for, an answer that met another
  \* request, the blacklist asked for last, blacklists that overlapped
  owed, strayed, asked, crossed

client == <<mEnabled, mRequestQueues>>
task   == <<queue, mPendingMsgs, known>>
locks  == <<GPS_LOCK, SUPL_VER, afwControlId, mSupportNfwControl, deleted>>
svs    == <<blacklist, mGnssSvTypeConfig, asked, crossed>>
answered == <<mRequestQueues, owed, strayed>>
vars == <<menu, client, task, locks, svs, info, locApi, modem, nextId,
          restarts, owed, strayed>>

Constellations == {svTypeOf[s] : s \in Svs}
Settings == {"tunc", "pace", "robust", "power", "band"}
None == 0                  \* the id of a call nobody is answered for
Queues == {"aiding", "control"}

sendMsg(m) == queue' = Append(queue, m)
\* the message the task of the adapter takes next, nothing sent meanwhile
receive(fn) == queue # <<>> /\ Head(queue).fn = fn /\ queue' = Tail(queue)
here == Head(queue)
calls(messages) == locApi' = locApi \o messages

call(item, value, id) == <<[fn |-> "set", item |-> item, v |-> value, id |-> id]>>
setGpsLockSync(lock) == <<[fn |-> "lock", v |-> lock]>>

Init ==
  /\ menu \in Menus
  /\ mEnabled = FALSE
  /\ mRequestQueues = [q \in Queues |-> [session |-> 0, requests |-> <<>>]]
  /\ queue = <<>> /\ mPendingMsgs = <<>> /\ known = FALSE
  /\ GPS_LOCK = {"MO", "NI"} /\ SUPL_VER = 1
  /\ afwControlId = 0 /\ mSupportNfwControl = TRUE
  /\ blacklist = {}
  /\ mGnssSvTypeConfig = [valid |-> FALSE, enabled |-> {}, blacklisted |-> {}]
  /\ info = [s \in Settings |-> Unset]
  /\ deleted = FALSE /\ locApi = <<>> /\ nextId = 1 /\ restarts = 0
  /\ modem = [lock |-> {}, supl |-> Unset, blacklist |-> {},
              enabled |-> Constellations, set |-> [s \in Settings |-> Unset]]
  /\ owed = [i \in 1..(2 * MaxCommands) |-> 0]
  /\ strayed = FALSE /\ asked = {} /\ crossed = FALSE
------------------------------------------------------------------------------
(* LocationAPIControlClient and the commands of GnssAdapter.               *)

mayCall == nextId <= MaxCommands /\ Len(queue) < MaxBacklog
may(fn) == mayCall /\ \E c \in menu : c.fn = fn

\* an answer to the client's request: the one at the head of its queue
pop_AnyQueue(id, kind) ==
  LET q == IF mRequestQueues["aiding"].requests # <<>> THEN "aiding" ELSE "control"
  IN IF mRequestQueues[q].requests # <<>>
     THEN /\ mRequestQueues' = [mRequestQueues EXCEPT ![q].requests = Tail(@)]
          /\ strayed' = (strayed \/ Head(mRequestQueues[q].requests) # kind)
     ELSE UNCHANGED <<mRequestQueues, strayed>>
pop(id, kind) ==
  LET mine == {q \in Queues : mRequestQueues[q].session = id
                              /\ mRequestQueues[q].requests # <<>>}
  IN IF mine = {} THEN UNCHANGED <<mRequestQueues, strayed>>
     ELSE \E q \in mine :
       /\ mRequestQueues' = [mRequestQueues EXCEPT ![q].requests = Tail(@)]
       /\ strayed' = (strayed \/ Head(mRequestQueues[q].requests) # kind)

\* responseCb, and collectiveResponseCb, whose ids no request is found by
reportResponse(id, kind) ==
  IF id = None THEN UNCHANGED answered
  ELSE owed' = [owed EXCEPT ![id] = @ - 1] /\ pop(id, kind)
reportResponses(ids) ==
  /\ owed' = [i \in DOMAIN owed |-> owed[i] - (IF i \in ids THEN 1 ELSE 0)]
  /\ UNCHANGED <<mRequestQueues, strayed>>

locAPIEnable ==
  /\ may("enable") /\ ~mEnabled
  /\ mEnabled' = TRUE
  /\ mRequestQueues' = [mRequestQueues EXCEPT
       !["control"] = [session |-> nextId, requests |-> <<"enable">>]]
  /\ sendMsg([fn |-> "enable", id |-> nextId])
  /\ nextId' = nextId + 1 /\ owed' = [owed EXCEPT ![nextId] = 1]
  /\ UNCHANGED <<menu, mPendingMsgs, known, locks, svs, info, locApi, modem, restarts,
                 strayed>>

locAPIDisable ==
  LET session == mRequestQueues["control"].session
  IN /\ mEnabled /\ mEnabled' = FALSE /\ Len(queue) < MaxBacklog
     /\ mRequestQueues' = [mRequestQueues EXCEPT
          !["control"].requests = Append(@, "disable")]
     /\ sendMsg([fn |-> "disable", id |-> session])
     /\ owed' = [owed EXCEPT ![session] = @ + 1]
     /\ UNCHANGED <<menu, mPendingMsgs, known, locks, svs, info, locApi, modem,
                    nextId, restarts, strayed>>

locAPIGnssDeleteAidingData ==
  /\ may("deleteAidingData")
  /\ mRequestQueues' = [mRequestQueues EXCEPT
       !["aiding"] = [session |-> nextId, requests |-> <<"deleteAidingData">>]]
  /\ sendMsg([fn |-> "deleteAidingData", id |-> nextId])
  /\ nextId' = nextId + 1 /\ owed' = [owed EXCEPT ![nextId] = 1]
  /\ UNCHANGED <<menu, mEnabled, mPendingMsgs, known, locks, svs, info, locApi,
                 modem, restarts, strayed>>

\* every other command; a command for a set of items has an id for each
Unanswered == {"nfwControl", "updateSvTypeConfig", "resetSvTypeConfig",
               "updateSystemPowerState"}
command(c) ==
  LET ids == IF c.fn \in Unanswered THEN {}
             ELSE nextId..(nextId + (IF c.fn = "getConfig" THEN Len(c.v.mask) ELSE 1) - 1)
  IN /\ c.fn \notin {"enable", "deleteAidingData"} /\ mayCall
     /\ c.fn = "nfwControl" => mSupportNfwControl
     /\ sendMsg([fn |-> c.fn, v |-> c.v, id |-> nextId])
     /\ nextId' = nextId + (IF ids = {} THEN 1 ELSE Cardinality(ids))
     /\ owed' = [i \in DOMAIN owed |-> IF i \in ids THEN 1 ELSE owed[i]]
     /\ UNCHANGED <<menu, client, mPendingMsgs, known, locks, svs, info, locApi,
                    modem, restarts, strayed>>
------------------------------------------------------------------------------
(* The lock.  Q frameworks lock MO by disabling and NI by nfwControl; P    *)
(* frameworks configure the lock that holds while location is disabled.    *)

MsgEnableGnss ==
  /\ receive("enable")
  /\ IF afwControlId > 0
     THEN UNCHANGED <<GPS_LOCK, afwControlId, locApi>>
     ELSE /\ afwControlId' = here.id
          /\ GPS_LOCK' = IF mSupportNfwControl THEN GPS_LOCK \cap {"NI"} ELSE GPS_LOCK
          /\ calls(setGpsLockSync(IF mSupportNfwControl THEN GPS_LOCK' ELSE {}))
  /\ reportResponse(here.id, "enable")
  /\ UNCHANGED <<menu, mEnabled, mPendingMsgs, known, SUPL_VER, mSupportNfwControl, deleted,
                 svs, info, modem, nextId, restarts>>

MsgDisableGnss ==
  /\ receive("disable")
  /\ IF afwControlId # here.id
     THEN UNCHANGED <<GPS_LOCK, afwControlId, locApi>>
     ELSE /\ afwControlId' = 0
          /\ GPS_LOCK' = IF mSupportNfwControl THEN GPS_LOCK \cup {"MO"} ELSE GPS_LOCK
          /\ calls(setGpsLockSync(GPS_LOCK'))
  /\ reportResponse(here.id, "disable")
  /\ UNCHANGED <<menu, mEnabled, mPendingMsgs, known, SUPL_VER, mSupportNfwControl, deleted,
                 svs, info, modem, nextId, restarts>>

MsgControlNfwLocationAccess ==
  /\ receive("nfwControl")
  /\ GPS_LOCK' = IF here.v.enable THEN GPS_LOCK \ {"NI"} ELSE GPS_LOCK \cup {"NI"}
  /\ calls(setGpsLockSync(GPS_LOCK'))
  /\ UNCHANGED <<menu, client, mPendingMsgs, known, SUPL_VER, afwControlId,
                 mSupportNfwControl, deleted, svs, info, modem, nextId, restarts, owed, strayed>>

\* messages that are put aside until the capabilities are known
park(fn) ==
  /\ ~known /\ receive(fn)
  /\ mPendingMsgs' = Append(mPendingMsgs, here)
  /\ UNCHANGED <<menu, client, known, locks, svs, info, locApi, modem, nextId, restarts,
                 owed, strayed>>
Park == \E fn \in {"updateConfig", "getConfig", "updateSvTypeConfig",
                   "resetSvTypeConfig"} : park(fn)

lockToSend_Plain(lock) == {lock}
\* the locks to send, none when the modem is unlocked and stays so
lockToSend(lock) ==
  IF afwControlId = 0 THEN {lock} ELSE IF mSupportNfwControl THEN {{}} ELSE {}
MsgGnssUpdateConfig ==
  LET items == here.v
      configured == IF "lock" \in DOMAIN items THEN items.lock \cup {"MO"} ELSE GPS_LOCK
  IN /\ known /\ receive("updateConfig")
     /\ GPS_LOCK' = configured
     /\ mSupportNfwControl' = (mSupportNfwControl /\ "lock" \notin DOMAIN items)
     /\ SUPL_VER' = IF "supl" \in DOMAIN items THEN items.supl ELSE SUPL_VER
     /\ asked' = IF "blacklist" \in DOMAIN items THEN items.blacklist ELSE asked
     /\ calls(<<[fn |-> "updateConfig", id |-> here.id, v |-> items,
                 lock |-> IF "lock" \in DOMAIN items THEN lockToSend(configured) ELSE {}]>>)
     /\ UNCHANGED <<menu, client, mPendingMsgs, known, afwControlId, deleted, blacklist,
                    mGnssSvTypeConfig, crossed, info, modem, nextId, restarts, owed, strayed>>

\* getConfig: reports index ids, and asks the modem with the id at index
Asked == {"robust", "minGpsWeek", "minSvElevation"}
MsgGnssGetConfig ==
  LET mask == here.v.mask
      index == Cardinality({i \in DOMAIN mask : mask[i] \notin Asked})
      queries == Cardinality({i \in DOMAIN mask : mask[i] \in Asked})
  IN /\ known /\ receive("getConfig")
     /\ calls([q \in 1..queries |->
          [fn |-> "set", item |-> "nothing", v |-> Unset, id |-> here.id + index]])
     /\ reportResponses(here.id..(here.id + index - 1))
     /\ UNCHANGED <<menu, mEnabled, mPendingMsgs, known, locks, svs, info, modem, nextId,
                    restarts>>
------------------------------------------------------------------------------
(* Satellites and constellations.                                          *)

\* a blacklist is still on its way through the task of LocApiBase
underWay(fns) == \E i \in DOMAIN locApi :
  locApi[i].fn \in fns
  /\ (locApi[i].fn = "updateConfig" => "blacklist" \in DOMAIN locApi[i].v)
crossing(fns) == crossed' = (crossed \/ underWay(fns))

disabled(config) ==
  blacklist \cup {s \in Svs : svTypeOf[s] \in config.blacklisted}
reset == <<[fn |-> "reset"]>>
setConstellationControl(enabled) ==
  IF enabled = {} THEN <<>> ELSE <<[fn |-> "constellations", v |-> enabled]>>
gnssSvTypeConfigUpdate(config) ==
  call("blacklist", disabled(config), None) \o setConstellationControl(config.enabled)

MsgGnssUpdateSvTypeConfig ==
  LET config == here.v
  IN /\ known /\ receive("updateSvTypeConfig")
     /\ mGnssSvTypeConfig' = config /\ crossing({"updateConfig"})
     /\ calls((IF mGnssSvTypeConfig.enabled \subseteq config.enabled THEN <<>> ELSE reset)
              \o gnssSvTypeConfigUpdate(config))
     /\ UNCHANGED <<menu, client, mPendingMsgs, known, locks, blacklist, asked, info,
                    modem, nextId, restarts, owed, strayed>>

MsgGnssResetSvTypeConfig ==
  /\ known /\ receive("resetSvTypeConfig")
  /\ mGnssSvTypeConfig' = [valid |-> TRUE, enabled |-> {}, blacklisted |-> {}]
  /\ crossing({"updateConfig"})
  /\ calls(call("blacklist", blacklist, None) \o reset)
  /\ UNCHANGED <<menu, client, mPendingMsgs, known, locks, blacklist, asked, info,
                 modem, nextId, restarts, owed, strayed>>

\* gnssUpdateSvConfig: the constellations it sends are the old ones
MsgUpdateSvConfig ==
  LET config == here.v.constellations
  IN /\ receive("updateSvConfig")
     /\ calls(
          (IF ~config.valid \/ ~(mGnssSvTypeConfig.enabled \subseteq config.enabled)
           THEN reset ELSE <<>>)
          \o (IF config.valid
              THEN <<[fn |-> "constellations", v |-> mGnssSvTypeConfig.enabled]>> ELSE <<>>)
          \o call("blacklist", here.v.blacklist, here.id))
     /\ mGnssSvTypeConfig' = config
     /\ blacklist' = here.v.blacklist /\ asked' = here.v.blacklist
     /\ crossing({"updateConfig", "config"})
     /\ UNCHANGED <<menu, client, mPendingMsgs, known, locks, info, modem, nextId,
                    restarts, owed, strayed>>
------------------------------------------------------------------------------
(* Settings: kept by the adapter, and sent at once.                        *)

setting(fn, item, id) ==
  /\ receive(fn)
  /\ info' = [info EXCEPT ![item] = here.v.value]
  /\ calls(call(item, here.v.value, id))
  /\ UNCHANGED <<menu, client, mPendingMsgs, known, locks, svs, modem, nextId, restarts,
                 owed, strayed>>
setConstrainedTunc == setting("setConstrainedTunc", "tunc", here.id)
setPositionAssistedClockEstimator ==
  setting("setPositionAssistedClockEstimator", "pace", here.id)
configRobustLocation == setting("configRobustLocation", "robust", here.id)
gnssUpdateSecondaryBandConfig == setting("updateSecondaryBandConfig", "band", here.id)
updateSystemPowerState == setting("updateSystemPowerState", "power", None)

\* nothing of it is kept
configMinGpsWeek ==
  /\ receive("configMinGpsWeek")
  /\ calls(call("nothing", Unset, here.id))
  /\ UNCHANGED <<menu, client, mPendingMsgs, known, locks, svs, info, modem, nextId,
                 restarts, owed, strayed>>

\* within a second of the last one it is dropped, unanswered
MsgDeleteAidingData(sameSecond) ==
  /\ receive("deleteAidingData")
  /\ sameSecond => deleted
  /\ deleted' = TRUE
  /\ calls(IF sameSecond THEN <<>> ELSE call("nothing", Unset, here.id))
  /\ owed' = IF sameSecond THEN [owed EXCEPT ![here.id] = 0] ELSE owed
  /\ UNCHANGED <<menu, client, mPendingMsgs, known, GPS_LOCK, SUPL_VER, afwControlId,
                 mSupportNfwControl, svs, info, modem, nextId,
                 restarts, strayed>>

\* of other engines only: answered at once
MsgDeleteAidingDataElsewhere ==
  /\ receive("deleteAidingData") /\ reportResponse(here.id, "deleteAidingData")
  /\ UNCHANGED <<menu, mEnabled, mPendingMsgs, known, locks, svs, info, locApi, modem,
                 nextId, restarts>>

\* answers of calls to the modem, run on the adapter's task
LocApiResponse ==
  /\ receive("response") /\ reportResponse(here.id, here.kind)
  /\ UNCHANGED <<menu, mEnabled, mPendingMsgs, known, locks, svs, info, locApi, modem,
                 nextId, restarts>>
LocApiCollectiveResponse ==
  /\ receive("responses") /\ reportResponses({here.id})
  /\ UNCHANGED <<menu, mEnabled, mPendingMsgs, known, locks, svs, info, locApi, modem,
                 nextId, restarts>>
------------------------------------------------------------------------------
(* The modem comes up: everything is sent again.                           *)

\* the lock is a state in Q, a configuration for disabled location in P
lockAtStart == IF mSupportNfwControl \/ afwControlId = 0 THEN GPS_LOCK ELSE {}
setConfig ==
  <<[fn |-> "config", lock |-> lockAtStart, supl |-> SUPL_VER, blacklist |-> blacklist]>>
valid(item) == IF info[item] = Unset THEN <<>> ELSE call(item, info[item], None)

MsgHandleEngineUpEvent ==
  /\ queue # <<>> /\ here.fn = "engineUp"
  /\ known' = TRUE
  /\ calls(setConfig \o call("blacklist", blacklist, None)
           \o (IF mGnssSvTypeConfig.valid THEN gnssSvTypeConfigUpdate(mGnssSvTypeConfig)
               ELSE <<>>)
           \o valid("power") \o valid("band"))
  /\ queue' = Tail(queue) \o mPendingMsgs /\ mPendingMsgs' = <<>>
  /\ crossing({"updateConfig"})
  /\ UNCHANGED <<menu, client, locks, blacklist, mGnssSvTypeConfig, asked, info, modem,
                 nextId, restarts, owed, strayed>>
------------------------------------------------------------------------------
(* The task of LocApiBase, and the modem.                                  *)

run(fn) == locApi # <<>> /\ Head(locApi).fn = fn
first == Head(locApi)
after(messages) == locApi' = Tail(locApi) \o messages

LocApiLock ==
  /\ run("lock") /\ after(<<>>)
  /\ modem' = [modem EXCEPT !.lock = first.v]
  /\ UNCHANGED <<menu, client, task, locks, svs, info, nextId, restarts, owed, strayed>>

\* gnssUpdateConfig(), called by the command
gnssUpdateConfig ==
  LET items == first.v
      listed == "blacklist" \in DOMAIN items
  IN /\ run("updateConfig") /\ after(<<>>)
     /\ blacklist' = IF listed THEN items.blacklist ELSE blacklist
     /\ modem' = [modem EXCEPT
          !.lock = IF first.lock = {} THEN @ ELSE CHOOSE l \in first.lock : TRUE,
          !.supl = IF "supl" \in DOMAIN items THEN items.supl ELSE @,
          !.blacklist = IF listed THEN items.blacklist ELSE @]
     /\ sendMsg([fn |-> "responses", id |-> first.id])
     /\ UNCHANGED <<menu, client, mPendingMsgs, known, locks, mGnssSvTypeConfig, asked,
                    crossed, info, nextId, restarts, owed, strayed>>

\* the lambda of setConfig(): gnssUpdateConfig() and the settings
injectConfig ==
  LET fromFile(item) == IF info[item] = Unset THEN 0 ELSE info[item]
  IN /\ run("config")
     /\ blacklist' = first.blacklist
     /\ modem' = [modem EXCEPT !.lock = first.lock, !.supl = first.supl,
                               !.blacklist = first.blacklist]
     /\ info' = [info EXCEPT !["tunc"] = fromFile("tunc"), !["pace"] = fromFile("pace")]
     /\ after(call("tunc", fromFile("tunc"), None) \o call("pace", fromFile("pace"), None)
              \o valid("robust"))
     /\ UNCHANGED <<menu, client, task, locks, mGnssSvTypeConfig, asked, crossed, nextId,
                    restarts, owed, strayed>>

LocApiSet ==
  /\ run("set") /\ after(<<>>)
  /\ modem' = IF first.item = "blacklist" THEN [modem EXCEPT !.blacklist = first.v]
              ELSE IF first.item \in Settings
              THEN [modem EXCEPT !.set[first.item] = first.v] ELSE modem
  /\ IF first.id = None THEN UNCHANGED queue
     ELSE sendMsg([fn |-> "response", id |-> first.id, kind |-> "deleteAidingData"])
  /\ UNCHANGED <<menu, client, mPendingMsgs, known, locks, svs, info, nextId, restarts,
                 owed, strayed>>

LocApiConstellations ==
  /\ (run("constellations") \/ run("reset")) /\ after(<<>>)
  /\ modem' = [modem EXCEPT
       !.enabled = IF first.fn = "reset" THEN Constellations ELSE first.v]
  /\ UNCHANGED <<menu, client, task, locks, svs, info, nextId, restarts, owed, strayed>>

LocSsr ==
  /\ run("ssr") /\ after(<<>>)
  /\ sendMsg([fn |-> "engineUp"])
  /\ UNCHANGED <<menu, client, mPendingMsgs, known, locks, svs, info, modem, nextId,
                 restarts, owed, strayed>>

\* the lock survives in the modem, or does not
ModemRestarts(lock) ==
  /\ restarts < MaxRestarts /\ restarts' = restarts + 1
  /\ modem' = [lock |-> lock, supl |-> Unset, blacklist |-> {},
               enabled |-> Constellations, set |-> [s \in Settings |-> Unset]]
  /\ calls(<<[fn |-> "ssr"]>>)
  /\ UNCHANGED <<menu, client, task, locks, svs, info, nextId, owed, strayed>>
------------------------------------------------------------------------------
Commands ==
  \/ locAPIEnable \/ locAPIDisable \/ locAPIGnssDeleteAidingData
  \/ \E c \in menu : command(c)

Adapter ==
  \/ MsgEnableGnss \/ MsgDisableGnss \/ MsgControlNfwLocationAccess \/ Park
  \/ MsgGnssUpdateConfig \/ MsgGnssGetConfig \/ MsgGnssUpdateSvTypeConfig
  \/ MsgGnssResetSvTypeConfig \/ MsgUpdateSvConfig \/ setConstrainedTunc
  \/ setPositionAssistedClockEstimator \/ configRobustLocation
  \/ gnssUpdateSecondaryBandConfig \/ updateSystemPowerState \/ configMinGpsWeek
  \/ \E sameSecond \in BOOLEAN : MsgDeleteAidingData(sameSecond)
  \/ MsgDeleteAidingDataElsewhere \/ LocApiResponse \/ LocApiCollectiveResponse \/ MsgHandleEngineUpEvent

LocApi == LocApiLock \/ gnssUpdateConfig \/ injectConfig \/ LocApiSet
  \/ LocApiConstellations \/ LocSsr

Next == Commands \/ Adapter \/ LocApi
  \/ \E lock \in {{}, {"MO", "NI"}} : ModemRestarts(lock)

Spec == Init /\ [][Next]_vars
------------------------------------------------------------------------------
(* Properties. *)

AtRest == known /\ queue = <<>> /\ locApi = <<>>

\* Once at rest, the modem may locate for the framework exactly while the
\* client has location enabled, in every order of enabling, locking and
\* restarts, for Q and for P frameworks; and the network may initiate a
\* location unless its lock is configured, which counts in P only while
\* location is disabled.
LockFollows ==
  /\ "MO" \in modem.lock <=> ~mEnabled
  /\ "NI" \in modem.lock <=>
       "NI" \in GPS_LOCK /\ (mSupportNfwControl \/ ~mEnabled)

\* Once at rest, also after restarts, the modem has the lock that follows, every
\* setting that was made last, the constellations unless updateSvConfig was used,
\* and the satellites that were blacklisted last unless two commands for them
\* overlapped.
ModemFollows == AtRest =>
  /\ LockFollows
  /\ modem.set = info /\ modem.supl = SUPL_VER
  /\ (\A c \in menu : c.fn # "updateSvConfig") =>
       modem.enabled = (IF mGnssSvTypeConfig.enabled = {} THEN Constellations
                        ELSE mGnssSvTypeConfig.enabled)
  /\ ~crossed => asked \subseteq modem.blacklist /\ asked = blacklist

\* Every id is answered as often as a command was sent with it: never more,
\* and not less once at rest; and an answer never meets another request.
CommandsAnswered ==
  /\ ~strayed
  /\ \A i \in DOMAIN owed : owed[i] >= 0 /\ (AtRest => owed[i] = 0)
==============================================================================
