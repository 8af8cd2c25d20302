---------------------------- MODULE Registrations ----------------------------
(***************************************************************************)
(* What GnssAdapter (gps/gnss/GnssAdapter.cpp) registers for at the modem, *)
(* and what it tells its clients the modem is capable of: the event mask   *)
(* and the NMEA types, which follow the callbacks of the clients, the      *)
(* interfaces that are open and the engine hub; the capabilities, which    *)
(* two functions of one name compute; and the rate of the fixes, which the *)
(* hub may ask to be the highest.                                          *)
(*                                                                         *)
(* Two tasks: that of the adapter and that of LocApiBase.  The hub calls   *)
(* on the task of the adapter, which it was given.                         *)
(***************************************************************************)
EXTENDS Integers, FiniteSets, Sequences

CONSTANTS
  Conf,                    \* records [hub, assisted, general, features, kinds, most]: a
                           \* hub can be loaded; CAPABILITIES has MSA and MSB; NMEA_PROVIDER is the
                           \* modem; features, which the modem tells when it is opened;
                           \* bound: kinds of commands and reports, and how many come
  Client, Callbacks,       \* clients, and the sets of callbacks they register
  FeatureMaps,             \* reports on QWES features: [on, off], sets of features
  MaxBacklog,              \* bound: nothing comes while more messages wait
  MaxRestarts,             \* bound: restarts of the modem
  None

VARIABLES
  conf,
  mClientData,             \* callbacks of each client, None if it is not there
  told,                    \* what each client was told last, None before
  SUPL_MODE,
  locQwesFeatType,         \* the QWES features that are on
  known,                   \* mIsEngineCapabilitiesKnown
  mPendingMsgs,
  mNmeaMask, mEvtMask,
  registered,              \* mAgpsManager.isRegistered()
  odcpi,                   \* mOdcpiRequestCb is set
  hub,                     \* firstTime and engHubLoadSuccessful; the hubs made
  mNHzNeeded, mSPEAlreadyRunningAtHighestInterval,
  session,                 \* the interval of the tracking session, None if there is none
  queue, apiQueue,         \* the two tasks
  modem,                   \* [up, mask, nmea, interval]: registrations, sentences, fixes
  commands, restarts,
  \* history: the hub wants measurements at the highest rate; it asked for them again;
  \* clients came or went
  wanted, repeated, changed

wiring == <<mClientData, told, SUPL_MODE, locQwesFeatType, mPendingMsgs>>
masks == <<mNmeaMask, mEvtMask, registered, odcpi, wanted, repeated, changed>>
fixes == <<mNHzNeeded, mSPEAlreadyRunningAtHighestInterval, session>>
bounds == <<conf, commands, restarts>>
vars == <<wiring, known, masks, fixes, hub, queue, apiQueue, modem, bounds>>

Down == [up |-> FALSE, mask |-> {}, nmea |-> {}, interval |-> None]
msg(is, value) == [is |-> is, value |-> value]

Init ==
  /\ conf \in Conf
  /\ mClientData = [c \in Client |-> None] /\ told = [c \in Client |-> None]
  /\ SUPL_MODE = {"MSA"} /\ locQwesFeatType = {} /\ known = FALSE /\ mPendingMsgs = <<>>
  /\ mNmeaMask = {} /\ mEvtMask = {} /\ registered = FALSE /\ odcpi = FALSE
  /\ hub = [firstTime |-> TRUE, loaded |-> FALSE, made |-> 0]
  /\ mNHzNeeded = FALSE /\ mSPEAlreadyRunningAtHighestInterval = FALSE /\ session = None
  /\ queue = <<msg("agps", None), msg("hub", None)>> /\ apiQueue = <<msg("openAdapter", None)>>
  /\ modem = Down /\ commands = 0 /\ restarts = 0 /\ wanted = FALSE /\ repeated = FALSE
  /\ changed = FALSE
------------------------------------------------------------------------------
(* Commands of the clients and the framework, and reports of the modem. *)

command(messages) ==
  /\ Len(queue) + Len(apiQueue) < MaxBacklog /\ commands < conf.most /\ Head(messages).is \in conf.kinds
  /\ commands' = commands + 1 /\ queue' = queue \o messages
  /\ UNCHANGED <<conf, restarts, wiring, known, masks, fixes, hub, apiQueue, modem>>

createInstance(c, callbacks) ==
  command(<<msg("add", [client |-> c, callbacks |-> callbacks]), msg("capabilities", c)>>)
removeClient(c) == command(<<msg("remove", c)>>)
initOdcpiCommand == command(<<msg("odcpi", None)>>)
gnssUpdateConfigCommand(mode) == command(<<msg("mode", mode)>>)
startTracking(interval) == command(<<msg("start", interval)>>)
stopTracking == command(<<msg("stop", None)>>)
reportQwesCapabilities(map) == command(<<msg("qwes", map)>>)
updateNHzRequirement(needed, measured) ==
  hub.loaded /\ command(<<msg("rate", [fixes |-> needed, measurements |-> measured])>>)
------------------------------------------------------------------------------
(* Capabilities. *)

carrierCapabilities == IF conf.assisted THEN {"MSA", "MSB"} \cap SUPL_MODE ELSE {}
sQwesFeatureMask(on) ==
  LET basic == {"TIME_FREQUENCY", "TIME_UNCERTAINTY"}
      premium == basic \cup {"QDR3", "CLOCK_ESTIMATE"}
  IN (on \ (basic \cup {"CLOCK_ESTIMATE"}))
       \cup (IF basic \subseteq on THEN {"CV2X_BASIC"} ELSE {})
       \cup (IF premium \subseteq on THEN {"CV2X_PREMIUM"} ELSE {})

features == IF modem.up THEN conf.features ELSE {}
always == {"TIME_BASED_TRACKING", "GEOFENCE"}
getCapabilities(mode, on) ==
  always \cup (features \ {"PRIVACY", "MEASUREMENTS_CORRECTION", "CONFORMITY_INDEX", "EDGNSS"})
    \cup (IF conf.assisted THEN {"MSA", "MSB"} \cap mode ELSE {}) \cup sQwesFeatureMask(on)
\* That of LocAdapterBase, which MsgRequestCapabilities calls: it is not virtual.
baseCapabilities == always \cup features \cup carrierCapabilities

broadcastCapabilities(mode, on) ==
  told' = [c \in Client |-> IF mClientData[c] = None THEN told[c] ELSE getCapabilities(mode, on)]
------------------------------------------------------------------------------
(* The event mask and the NMEA types. *)

someone(clients, callback) == \E c \in Client : clients[c] # None /\ callback \in clients[c]
bit(if, b) == IF if THEN {b} ELSE {}

clientsMask(clients) ==
  bit(someone(clients, "position") \/ someone(clients, "data"), "POSITION")
    \cup bit(someone(clients, "sv"), "SATELLITE")
    \cup bit((someone(clients, "nmea") /\ mNmeaMask # {}) \/ someone(clients, "data"), "NMEA_1HZ")
    \cup bit(someone(clients, "measurements"), "GNSS_MEASUREMENT")

updateClientsEventMask_RateForgotten(clients, loaded) ==
  /\ mEvtMask' = clientsMask(clients)
       \cup (IF loaded THEN {"GNSS_MEASUREMENT", "EPHEMERIS"}
             ELSE {})
       \cup bit(registered, "LOCATION_SERVER") \cup bit(odcpi, "WIFI")
  /\ apiQueue' = apiQueue
       \o (IF someone(clients, "data") THEN <<msg("nmea", mNmeaMask \cup {"DEBUG"})>> ELSE <<>>)
       \o <<msg("open", None)>>

updateClientsEventMask(clients, loaded) ==
  /\ mEvtMask' = clientsMask(clients)
       \cup (IF loaded THEN {"GNSS_MEASUREMENT", "EPHEMERIS"} \cup (mEvtMask \cap {"NHZ_MEASUREMENT"})
             ELSE {})
       \cup bit(registered, "LOCATION_SERVER") \cup bit(odcpi, "WIFI")
  /\ apiQueue' = apiQueue
       \o (IF someone(clients, "data") THEN <<msg("nmea", mNmeaMask \cup {"DEBUG"})>> ELSE <<>>)
       \o <<msg("open", None)>>

updateEvtMask(mask) == mEvtMask' = mask /\ apiQueue' = Append(apiQueue, msg("open", None))

nmeaTypes == bit(conf.general, "GENERAL") \cup bit("DEBUG_NMEA" \in features, "DEBUG")
------------------------------------------------------------------------------
(* The rate of the fixes. *)

\* what the session is started with, and whether it need not be
checkAndSetSPEToRunforNHz(already, needed, interval) ==
  IF needed /\ already THEN [skip |-> TRUE, already |-> TRUE, interval |-> interval]
  ELSE IF needed /\ interval = "slow" THEN [skip |-> FALSE, already |-> TRUE, interval |-> "fast"]
  ELSE [skip |-> FALSE, already |-> already, interval |-> interval]

fix(interval) == msg("fix", interval)
start(already, needed, interval) ==
  LET s == checkAndSetSPEToRunforNHz(already, needed, interval)
  IN /\ mSPEAlreadyRunningAtHighestInterval' = s.already
     /\ apiQueue' = IF s.skip THEN apiQueue ELSE Append(apiQueue, fix(s.interval))
checkAndRestartSPESession(needed) ==
  LET s == checkAndSetSPEToRunforNHz(FALSE, needed, session)
  IN IF session = None THEN [sent |-> <<>>, already |-> FALSE]
     ELSE [sent |-> <<fix(s.interval)>>, already |-> s.already]
------------------------------------------------------------------------------
(* The task of the adapter. *)

take(is) == queue # <<>> /\ Head(queue).is = is /\ queue' = Tail(queue) /\ UNCHANGED bounds
taken == Head(queue).value

initAgps ==
  /\ take("agps") /\ registered' = conf.assisted
  /\ IF conf.assisted THEN updateEvtMask(mEvtMask \cup {"LOCATION_SERVER"})
                      ELSE UNCHANGED <<mEvtMask, apiQueue>>
  /\ UNCHANGED <<wiring, known, fixes, hub, modem, mNmeaMask, odcpi, wanted, repeated, changed>>

\* load eng hub only once
initEngHubProxy ==
  hub' = IF hub.firstTime
         THEN [firstTime |-> FALSE, loaded |-> conf.hub, made |-> hub.made + IF conf.hub THEN 1 ELSE 0]
         ELSE hub

MsgInitEngHubProxy ==
  take("hub") /\ initEngHubProxy
  /\ UNCHANGED <<wiring, known, masks, fixes, apiQueue, modem>>

saveClient(clients) ==
  /\ mClientData' = clients /\ changed' = TRUE /\ initEngHubProxy /\ updateClientsEventMask(clients, hub'.loaded)
  /\ UNCHANGED <<SUPL_MODE, locQwesFeatType, mPendingMsgs, known, fixes, modem, mNmeaMask,
                 registered, odcpi, wanted, repeated>>
MsgAddClient ==
  /\ take("add") /\ saveClient([mClientData EXCEPT ![taken.client] = taken.callbacks])
  /\ UNCHANGED told
MsgRemoveClient ==
  /\ take("remove") /\ saveClient([mClientData EXCEPT ![taken] = None])
  /\ told' = [told EXCEPT ![taken] = None]

MsgRequestCapabilities ==
  /\ take("capabilities")
  /\ IF ~known THEN mPendingMsgs' = Append(mPendingMsgs, Head(queue)) /\ UNCHANGED told
     ELSE /\ told' = IF mClientData[taken] = None THEN told
                     ELSE [told EXCEPT ![taken] = baseCapabilities]
          /\ UNCHANGED mPendingMsgs
  /\ UNCHANGED <<mClientData, SUPL_MODE, locQwesFeatType, known, masks, fixes, hub, apiQueue, modem>>

initOdcpi ==
  /\ take("odcpi") /\ odcpi' = TRUE /\ updateEvtMask(mEvtMask \cup {"WIFI"})
  /\ UNCHANGED <<wiring, known, fixes, hub, modem, mNmeaMask, registered, wanted, repeated, changed>>

suplMode ==
  /\ take("mode") /\ SUPL_MODE' = taken /\ broadcastCapabilities(taken, locQwesFeatType)
  /\ UNCHANGED <<mClientData, locQwesFeatType, mPendingMsgs, known, masks, fixes, hub, apiQueue,
                 modem>>

setQwesFeatureStatus ==
  /\ take("qwes") /\ locQwesFeatType' = (locQwesFeatType \ taken.off) \cup taken.on
  /\ broadcastCapabilities(SUPL_MODE, locQwesFeatType')
  /\ UNCHANGED <<mClientData, SUPL_MODE, mPendingMsgs, known, masks, fixes, hub, apiQueue, modem>>

\* Measurements are disabled when they are asked for again.
updateNHzRequirementCb ==
  /\ take("rate")
  /\ LET has == "NHZ_MEASUREMENT" \in mEvtMask
         mask == IF taken.measurements /\ ~has THEN mEvtMask \cup {"NHZ_MEASUREMENT"}
                 ELSE mEvtMask \ {"NHZ_MEASUREMENT"}
     IN /\ mEvtMask' = mask /\ wanted' = taken.measurements
        /\ repeated' = (repeated \/ (taken.measurements /\ has))
        /\ mNHzNeeded' = taken.fixes
        /\ IF mNHzNeeded = taken.fixes
           THEN /\ apiQueue' = IF mask = mEvtMask THEN apiQueue ELSE Append(apiQueue, msg("open", None))
                /\ UNCHANGED mSPEAlreadyRunningAtHighestInterval
           ELSE LET restart == checkAndRestartSPESession(taken.fixes)
                IN /\ apiQueue' = apiQueue
                        \o (IF mask = mEvtMask THEN <<>> ELSE <<msg("open", None)>>) \o restart.sent
                   /\ mSPEAlreadyRunningAtHighestInterval' = restart.already
  /\ UNCHANGED <<wiring, known, mNmeaMask, registered, odcpi, changed, hub, session, modem>>

MsgStartTracking ==
  /\ take("start")
  /\ IF ~known
     THEN /\ mPendingMsgs' = Append(mPendingMsgs, Head(queue))
          /\ UNCHANGED <<session, mSPEAlreadyRunningAtHighestInterval, apiQueue>>
     ELSE /\ session' = taken /\ UNCHANGED mPendingMsgs
          /\ start(mSPEAlreadyRunningAtHighestInterval, mNHzNeeded, taken)
  /\ UNCHANGED <<mClientData, told, SUPL_MODE, locQwesFeatType, known, masks, mNHzNeeded, hub,
                 modem>>
MsgStopTracking ==
  /\ take("stop") /\ session' = None
  /\ IF session = None THEN UNCHANGED <<apiQueue, mSPEAlreadyRunningAtHighestInterval>>
     ELSE /\ apiQueue' = Append(apiQueue, fix(None))
          /\ mSPEAlreadyRunningAtHighestInterval' = FALSE
  /\ UNCHANGED <<wiring, known, masks, mNHzNeeded, hub, modem>>

\* broadcastCapabilities(), setConfig(), restartSessions(), the messages postponed
MsgHandleEngineUpEvent ==
  /\ queue # <<>> /\ Head(queue).is = "up" /\ queue' = Tail(queue) \o mPendingMsgs
  /\ known' = TRUE /\ mPendingMsgs' = <<>>
  /\ broadcastCapabilities(SUPL_MODE, locQwesFeatType)
  /\ mNmeaMask' = nmeaTypes
  /\ LET widened == mNmeaMask # nmeaTypes /\ nmeaTypes # {} /\ someone(mClientData, "nmea")
         restart == checkAndRestartSPESession(mNHzNeeded)
     IN /\ mEvtMask' = IF widened THEN mEvtMask \cup {"NMEA_1HZ"} ELSE mEvtMask
        /\ apiQueue' = apiQueue
             \o (IF widened THEN <<msg("open", None)>> ELSE <<>>)
             \o (IF nmeaTypes # {} THEN <<msg("nmea", nmeaTypes)>> ELSE <<>>)
             \o restart.sent
        /\ mSPEAlreadyRunningAtHighestInterval' = restart.already
  /\ UNCHANGED <<mClientData, SUPL_MODE, locQwesFeatType, registered, odcpi, wanted, repeated, changed,
                 mNHzNeeded, session, hub, modem, bounds>>
------------------------------------------------------------------------------
(* The task of LocApiBase, and the modem. *)

takeApi(is) ==
  /\ apiQueue # <<>> /\ Head(apiQueue).is = is /\ apiQueue' = Tail(apiQueue)
  /\ UNCHANGED <<bounds, wiring, known, masks, fixes, hub>>
toModem(field) == modem' = (IF modem.up THEN field ELSE modem) /\ UNCHANGED queue

LocOpenMsg == takeApi("open") /\ toModem([modem EXCEPT !.mask = mEvtMask])
LocSetNmeaMsg == takeApi("nmea") /\ toModem([modem EXCEPT !.nmea = Head(apiQueue).value])
startTimeBasedTracking == takeApi("fix") /\ toModem([modem EXCEPT !.interval = Head(apiQueue).value])

\* the first opening, and those after a restart, tell the adapter
handleEngineUpEvent ==
  /\ \/ takeApi("openAdapter") \/ takeApi("ssr")
  /\ IF modem.up
     THEN modem' = [modem EXCEPT !.mask = mEvtMask] /\ queue' = Append(queue, msg("up", None))
     ELSE UNCHANGED <<modem, queue>>

handleEngineDownEvent ==
  /\ \/ ~modem.up /\ UNCHANGED restarts
     \/ modem.up /\ restarts < MaxRestarts /\ restarts' = restarts + 1
  /\ modem' = [Down EXCEPT !.up = TRUE] /\ apiQueue' = Append(apiQueue, msg("ssr", None))
  /\ UNCHANGED <<conf, commands, wiring, known, masks, fixes, hub, queue>>
------------------------------------------------------------------------------
Next ==
  \/ \E c \in Client, callbacks \in Callbacks : createInstance(c, callbacks)
  \/ \E c \in Client : removeClient(c)
  \/ initOdcpiCommand
  \/ gnssUpdateConfigCommand({"MSB"})
  \/ \E interval \in {"slow", "fast"} : startTracking(interval)
  \/ stopTracking
  \/ \E map \in FeatureMaps : reportQwesCapabilities(map)
  \/ \E needed, measured \in BOOLEAN : updateNHzRequirement(needed, measured)
  \/ initAgps \/ MsgInitEngHubProxy \/ MsgAddClient \/ MsgRemoveClient \/ MsgRequestCapabilities
  \/ initOdcpi \/ suplMode \/ setQwesFeatureStatus \/ updateNHzRequirementCb
  \/ MsgStartTracking \/ MsgStopTracking \/ MsgHandleEngineUpEvent
  \/ LocOpenMsg \/ LocSetNmeaMsg \/ startTimeBasedTracking
  \/ handleEngineUpEvent \/ handleEngineDownEvent

Spec == Init /\ [][Next]_vars
------------------------------------------------------------------------------
(* Properties. *)

atRest == queue = <<>> /\ apiQueue = <<>> /\ modem.up

\* When all is done the modem reports what somebody wants to hear, and no more, however
\* commands, the start and a restart of the modem were ordered.  But what the hub wants is
\* registered when clients come or go, and not when it is loaded; and the hub that asks for
\* measurements at the highest rate again loses them (GnssAdapter.cpp:6606).
MaskIsUnion ==
  atRest =>
    /\ modem.mask \ {"NHZ_MEASUREMENT"} =
         clientsMask(mClientData)
           \cup (IF hub.loaded /\ changed THEN {"GNSS_MEASUREMENT", "EPHEMERIS"} ELSE {})
           \cup bit(registered, "LOCATION_SERVER") \cup bit(odcpi, "WIFI")
    /\ ~repeated => ("NHZ_MEASUREMENT" \in modem.mask <=> wanted)

\* The sentences of the configuration are sent, and debug sentences to who reads data, if
\* the modem can.
NmeaFollows ==
  atRest =>
    /\ nmeaTypes \subseteq modem.nmea
    /\ modem.nmea \subseteq nmeaTypes \cup {"DEBUG"}

\* What a client was told last is still so.  But the two functions differ in what they
\* know of: a client that asks is told of corrections of measurements, and not of QWES;
\* the next broadcast takes the first back and adds the second.
ToldIsCurrent ==
  atRest => \A c \in Client :
    mClientData[c] # None => told[c] \in {getCapabilities(SUPL_MODE, locQwesFeatType), baseCapabilities}

\* Fixes come at the interval of the session, or at the highest rate if the hub wants it.
RateFollows ==
  atRest => modem.interval = IF session = "slow" /\ mNHzNeeded THEN "fast" ELSE session

\* "load eng hub only once" (initEngHubProxy(), which no lock protects): the reports that ask
\* for it on the task of LocApiBase come after the message that loads it.
OneHub == hub.made <= 1 /\ ("SATELLITE" \in modem.mask => ~hub.firstTime)

RegistrationsFollow == MaskIsUnion /\ NmeaFollows /\ ToldIsCurrent /\ RateFollows /\ OneHub
=============================================================================
