----------------------------- MODULE Adapter_MC -----------------------------
(***************************************************************************)
(* Six parts around GnssAdapter that share no state, side by side in one   *)
(* run: a behaviour is one of one part, chosen at the start, and the       *)
(* others rest in their initial state.                                     *)
(***************************************************************************)
EXTENDS Integers, FiniteSets, Sequences, SequencesExt

CONSTANTS Svs, MaxCommands, MaxRestarts, MaxBacklog, Unset, Nothing, Place, MaxItem, MaxReports,
  InView, InUse, MaxCode, LsChange, Handle, Apn, MAX_NETWORK_HANDLES, MaxEvents, Atl, MaxInFlight

VARIABLES
  part,
  menu, mEnabled, mRequestQueues, queue, mPendingMsgs, known, GPS_LOCK, SUPL_VER, afwControlId,
  mSupportNfwControl, blacklist, mGnssSvTypeConfig, info, deleted, locApi, modem, nextId,
  restarts, owed, strayed, asked, crossed,
  cache, reports, told,
  conf, code, nmea, given,
  legacy, connected, upcoming, mNetworkInfo, walk, mConnected, mApn, events, apn, full, phantom,
  siblings, changed, unreported, lost,
  settings, calls, ready, mPendingConfig, mConfig, configs, adapter, mGnssSvIdConfig, accepted,
  hostless, overwritten,
  created, mState, subscribers, inactive, mail, wds, demands, conn, fared

control == <<menu, mEnabled, mRequestQueues, queue, mPendingMsgs, known, GPS_LOCK, SUPL_VER,
             afwControlId, mSupportNfwControl, blacklist, mGnssSvTypeConfig, info, deleted, locApi,
             modem, nextId, restarts, owed, strayed, asked, crossed>>
engine == <<cache, reports, told>>
writing == <<conf, code, nmea, given>>
networks == <<legacy, connected, upcoming, mNetworkInfo, walk, mConnected, mApn, events, apn,
              full, phantom, siblings, changed, unreported, lost>>
wishes == <<settings, calls, ready, mPendingConfig, mConfig, configs, adapter, mGnssSvIdConfig,
            accepted, hostless, overwritten>>
atls == <<created, mState, subscribers, inactive, mail, wds, demands, conn, fared>>
------------------------------------------------------------------------------
\* Commands: four or fewer of one menu; Q and P frameworks, satellites, settings.
do(fn) == [fn |-> fn, v |-> [none |-> 0]]
nfw(b) == [fn |-> "nfwControl", v |-> [enable |-> b]]
config(items) == [fn |-> "updateConfig", v |-> items]
set(fn, x) == [fn |-> fn, v |-> [value |-> x]]
types(on, off) == [valid |-> TRUE, enabled |-> on, blacklisted |-> off]
Menus == {
  {do("enable"), nfw(TRUE), nfw(FALSE), config([supl |-> 2])},
  {do("enable"), config([lock |-> {}]), config([lock |-> {"NI"}, supl |-> 2])},
  {config([blacklist |-> {"g1"}]),
   [fn |-> "updateSvTypeConfig", v |-> types({"GAL"}, {"GLO"})],
   [fn |-> "updateSvTypeConfig", v |-> types({}, {"GAL"})], do("resetSvTypeConfig")},
  {config([blacklist |-> {"g1", "e1"}]),
   [fn |-> "updateSvConfig", v |-> [constellations |-> types({"GAL"}, {}), blacklist |-> {"e1"}]],
   [fn |-> "updateSvConfig", v |-> [constellations |-> [types({}, {}) EXCEPT !.valid = FALSE],
                                    blacklist |-> {"g1"}]]},
  {set("setConstrainedTunc", 1), set("setConstrainedTunc", 2),
   set("setPositionAssistedClockEstimator", 1)},
  {set("configRobustLocation", 1), set("updateSecondaryBandConfig", 1),
   set("updateSystemPowerState", 1)},
  {do("enable"), do("deleteAidingData"), do("configMinGpsWeek"),
   [fn |-> "getConfig", v |-> [mask |-> <<"lock", "blacklist", "robust">>]]}}
svTypeOf == [s \in Svs |-> IF s = "g1" THEN "GLO" ELSE "GAL"]
C == INSTANCE Control

\* Sentences of the modem: every kind, whole, cut short and without an end.
sentence(kind, size, val) == [kind |-> kind, star |-> TRUE, size |-> size, val |-> val]
measured(tow, agc, rec) == [tow |-> tow, agc |-> agc, rec |-> rec]
Sentence == {
  sentence("PQWM1", 22, measured(1, 1, 0)), sentence("PQWM1", 23, measured(1, 1, 0)),
  sentence("PQWM1", 32, measured(1, 1, 1)), sentence("PQWM1", 31, measured(2, 1, 0)),
  sentence("PQWM1", 32, measured(2, 0, 0)),
  sentence("PQWP2", 7, 0), sentence("PQWP2", 7, 1), sentence("PQWP2", 6, 1),
  sentence("PQWP3", 13, 1), sentence("PQWP3", 13, 0),
  sentence("PQWP5", 17, 1), sentence("PQWP5", 17, 2),
  [sentence("PQWP5", 17, 2) EXCEPT !.star = FALSE],
  sentence("PQWP1", 9, 1), sentence("PQWP4", 7, 1), sentence("PQWP6", 3, 1),
  sentence("PQWS1", 4, 1), sentence("PQWX", 4, 1),
  sentence("PQWP7", 404, 1), sentence("PQWP7", 446, 1), sentence("PQWP7", 446, 2),
  sentence("PQWP7", 403, 1)}
S == INSTANCE SystemStatus WITH None <- Nothing

\* Sentences of the adapter: up to three satellites of nine in view, in every order, and
\* positions of every quality, with a time around the change of the leap second.
sv(type, signal, id) == [type |-> type, signal |-> signal, id |-> id]
Satellites == {
  sv("GPS", "none", 3), sv("GPS", "L1CA", 4), sv("GPS", "L5", 3), sv("GPS", "L1C", 5),
  sv("SBAS", "none", 120), sv("QZSS", "L1S", 193), sv("BDS", "B2AQ", 201), sv("BDS", "B2I", 202),
  sv("GLO", "G1", 66)}
Views == {v \in SeqOf(Satellites, 3) : \A i, j \in 1 .. Len(v) : v[i] = v[j] => i = j}
used(gps, glo, navic) ==
  [GPS |-> gps, GLO |-> glo, GAL |-> {}, BDS |-> {}, QZSS |-> {}, NAVIC |-> navic]
fix(latlong, hasUsed, sats, nav, tech, gps, timestamp) ==
  [latlong |-> latlong, hasUsed |-> hasUsed, used |-> sats, nav |-> nav, tech |-> tech,
   gps |-> gps, timestamp |-> timestamp]
Fixes ==
  {fix(latlong, TRUE, sats, nav, tech, Nothing, 0) :
     latlong \in BOOLEAN,
     sats \in {used({}, {}, {}), used({}, {}, {1}), used({1}, {}, {}),
               used({1, 2, 3}, {1, 2, 3, 4}, {}), used({3, 5}, {2}, {2})},
     nav \in {Nothing, {}, {"PPP"}, {"DGNSS", "RTK"}, {"SBAS"}},
     tech \in {Nothing, {"satellite"}, {"sensors"}, {"satellite", "sensors"}}}
  \cup {fix(TRUE, FALSE, used({1}, {}, {}), nav, tech, gps, gps - (IF gps > LsChange THEN 2 ELSE 1)) :
          nav \in {Nothing, {"PPP"}}, tech \in {Nothing, {"satellite"}}, gps \in {0, 1, 2}}
formatOf(grouping, custom, datum, leap) ==
  [grouping |-> grouping, custom |-> custom, datum |-> datum, leap |-> leap]
Formats == {formatOf(TRUE, FALSE, "WGS84", TRUE), formatOf(FALSE, TRUE, "PZ90", TRUE),
            formatOf(TRUE, TRUE, "PZ90", FALSE)}
W == INSTANCE Nmea WITH Conf <- Formats, View <- Views, Fix <- Fixes, None <- Nothing
N == INSTANCE Networks WITH queue <- upcoming, None <- Nothing

\* Settings of the framework: every kind of value, accepted and refused, and blacklists of
\* up to two satellites, by the two versions.
sat(type, id) == [type |-> type, id |-> id, fcn |-> 1]
Engine == {sat("GPS", 3), sat("GLONASS", 66), sat("GLONASS", 255), sat("GLONASS", 0),
           sat("BEIDOU", 202), sat("QZSS", 194), sat("QZSS", 0), sat("GALILEO", 336),
           sat("SBAS", 158), sat("SBAS", 183), sat("SBAS", 0), sat("NAVIC", 402)}
wish(fn, arg) == [fn |-> fn, arg |-> arg]
server(type, host) == wish("server", [type |-> type, host |-> host])
Wishes == {
  wish("suplVersion", "2.0.2"), wish("suplVersion", "3.0.0"), wish("suplMode", 3),
  wish("suplMode", 1), wish("suplMode", 4), wish("lppProfile", 5), wish("lppProfile", 18),
  wish("glonass", 9), wish("gpsLock", 2), wish("gpsLock", 3), wish("gpsLock", 7),
  wish("emergencyPdn", TRUE), wish("emergencyPdn", FALSE), wish("esExtension", 0),
  server("SUPL", "a"), server("SUPL", "b"), server("C2K", "a"), server("none", "a")}
lists(sats, n) ==
  {wish("blacklist", [v |-> v, sats |-> l]) :
     v \in {"1.1", "2.1"}, l \in {l \in SeqOf(sats, n) : Len(l) = 2 => l[1] # l[2]}}
Catalogues == {
  [calls |-> Wishes, max |-> 3], [calls |-> lists(Engine, 1), max |-> 3],
  [calls |-> lists(Engine, 2), max |-> 1],
  [calls |-> lists({sat("GLONASS", 66), sat("GLONASS", 0), sat("SBAS", 183), sat("QZSS", 194)}, 2)
             \cup {wish("gpsLock", 2)}, max |-> 2]}
G == INSTANCE GnssSettings WITH Menus <- Catalogues, Sats <- Engine, menu <- settings,
       queue <- configs

\* The data calls with what makes the framework late, the WDS library and an APN refused past
\* the queue, or with a modem that restarts and reuses its handles.
Late == INSTANCE Agps WITH Handle <- Atl, Features <- {"wds", "longApn"}, queue <- mail,
          calls <- demands, modem <- fared
Anew == INSTANCE Agps WITH Handle <- Atl, Features <- {"ssr"}, queue <- mail,
          calls <- demands, modem <- fared
Symmetric == Permutations(Atl)
------------------------------------------------------------------------------
Init ==
  /\ part \in {"control", "status", "writing", "networks", "wishes", "late", "anew"}
  /\ C!Init /\ S!Init /\ W!Init /\ N!Init /\ G!Init /\ Late!Init
  /\ part # "control" => menu = CHOOSE m \in Menus : TRUE
  /\ part # "writing" => conf = CHOOSE f \in Formats : TRUE
  /\ part # "networks" => ~legacy /\ connected = [h \in Handle |-> Nothing]
  /\ part # "wishes" => settings = CHOOSE m \in Catalogues : TRUE

Control ==
  /\ part = "control" /\ C!Next
  /\ UNCHANGED <<part, engine, writing, networks, wishes, atls>>
Status ==
  /\ part = "status" /\ S!Next
  /\ UNCHANGED <<part, control, writing, networks, wishes, atls>>
Writing ==
  /\ part = "writing" /\ W!Next
  /\ UNCHANGED <<part, control, engine, networks, wishes, atls>>
Networks ==
  /\ part = "networks" /\ N!Next
  /\ UNCHANGED <<part, control, engine, writing, wishes, atls>>
Settings ==
  /\ part = "wishes" /\ G!Next
  /\ UNCHANGED <<part, control, engine, writing, networks, atls>>
Calls ==
  /\ (part = "late" /\ Late!Next) \/ (part = "anew" /\ Anew!Next)
  /\ UNCHANGED <<part, control, engine, writing, networks, wishes>>

Next == Control \/ Status \/ Writing \/ Networks \/ Settings \/ Calls

Spec == Init /\ [][Next]_<<part, control, engine, writing, networks, wishes, atls>>
------------------------------------------------------------------------------
\* Each is stated where its part is modelled; of the commands and the settings that
\* configure the modem, of the state of the engine and of the networks, and of the sentences
\* made of the reports; and of the lists of the two AgpsStateMachines.
ModemFollows ==
  /\ part = "control" => C!ModemFollows
  /\ part = "wishes" => G!SettingsHold
CommandsAnswered == part = "control" => C!CommandsAnswered
StatusFollows ==
  /\ part = "status" => S!StatusFollows
  /\ part = "networks" => N!NetworksFollow
SentencesTell == part = "writing" => W!SentencesTell
ListFitsState == part \in {"late", "anew"} => Late!ListFitsState
=============================================================================
