----------------------------- MODULE GnssSettings -----------------------------
(***************************************************************************)
(* The settings of the framework: GnssConfiguration and AGnss check and    *)
(* convert each call, Gnss keeps what comes before there is a client, the  *)
(* client drops what it has just sent, the adapter applies the rest.       *)
(* Blacklists name satellites as the framework was told of them; the       *)
(* adapter makes masks of them, and lists of the masks again.              *)
(***************************************************************************)
EXTENDS Integers, FiniteSets, Sequences, SequencesExt

CONSTANTS
  Menus,          \* calls of the framework, [fn, arg], in sets with a bound on their number
  Sats,           \* satellites of the engine: [type, id, fcn]
  Nothing

VARIABLES
  menu, calls,    \* one of Menus, and the calls so far
  ready,          \* Gnss::mApi is there
  mPendingConfig, \* settings -> values
  mConfig,        \* of LocationAPIControlClient: the last one sent
  queue,          \* configurations on their way to the adapter
  adapter,        \* the settings in force
  mGnssSvIdConfig,\* constellation -> bits
  accepted,       \* history: the arguments of the last calls that were not refused
  hostless,       \* history: a server that waited for the client
  overwritten     \* history: it waited with a server of another type
vars == <<menu, calls, ready, mPendingConfig, mConfig, queue, adapter, mGnssSvIdConfig, accepted,
          hostless, overwritten>>

Empty == [s \in {} |-> Nothing]
Masked == {"GLONASS", "BEIDOU", "QZSS", "GALILEO", "SBAS", "NAVIC"}
Bits == 0 .. 63

Init ==
  /\ menu \in Menus /\ calls = 0 /\ ready = FALSE
  /\ mPendingConfig = Empty /\ mConfig = Empty /\ queue = <<>>
  /\ adapter = Empty /\ mGnssSvIdConfig = [c \in Masked |-> {}]
  /\ accepted = Empty /\ hostless = FALSE /\ overwritten = FALSE
------------------------------------------------------------------------------
(* The arguments of the framework and the values they become; Nothing if   *)
(* the call is refused.                                                    *)

bits(n, names) == {names[i] : i \in {i \in 1 .. Len(names) : (n \div 2^(i - 1)) % 2 = 1}}
setSuplVersion(version) ==
  IF version \in {"2.0.4", "2.0.2", "2.0.0", "1.0.0"} THEN version ELSE Nothing
setSuplMode(mode) == IF mode \in 0 .. 3 THEN bits(mode, <<"MSB", "MSA">>) ELSE Nothing
setLppProfile(mask) ==
  bits(mask, <<"USER_PLANE", "CONTROL_PLANE", "USER_PLANE_OVER_NR5G_SA",
               "CONTROL_PLANE_OVER_NR5G_SA">>)
setGlonassPositioningProtocol(mask) ==
  bits(mask, <<"RRC_CONTROL_PLANE", "RRLP_USER_PLANE", "LLP_USER_PLANE", "LLP_CONTROL_PLANE">>)
setGpsLock(lock) == IF lock \in 0 .. 3 THEN bits(lock, <<"MO", "NI">>) ELSE Nothing
setEmergencySuplPdn(enabled) == IF enabled THEN "YES" ELSE "NO"
setEsExtensionSec(seconds) == seconds
setServer(server) ==
  IF server.type \in {"SUPL", "C2K", "SUPL_EIMS", "SUPL_IMS"} THEN server ELSE Nothing

\* Of a satellite the framework is told a constellation and an id: NAVIC has no name in
\* V1_0, and GLONASS without a slot goes by its frequency.
GLO_SV_PRN_SLOT_UNKNOWN == 255
GLO_SV_PRN_MIN == 65
BDS_SV_PRN_MIN == 201
GAL_SV_PRN_MIN == 301
NAVIC_SV_PRN_MIN == 401
convertGnssConstellationType(type, v) == IF type = "NAVIC" /\ v = "1.1" THEN "UNKNOWN" ELSE type
convertGnssSvid(sat) ==
  CASE sat.type = "GLONASS" -> IF sat.id = GLO_SV_PRN_SLOT_UNKNOWN THEN sat.fcn + 92
                               ELSE sat.id - GLO_SV_PRN_MIN + 1
    [] sat.type = "BEIDOU" -> sat.id - BDS_SV_PRN_MIN + 1
    [] sat.type = "GALILEO" -> sat.id - GAL_SV_PRN_MIN + 1
    [] sat.type = "NAVIC" -> sat.id - NAVIC_SV_PRN_MIN + 1
    [] OTHER -> sat.id
nameOf(sat, v) ==
  [constellation |-> convertGnssConstellationType(sat.type, v),
   svid |-> IF sat.id = 0 THEN 0 ELSE convertGnssSvid(sat)]

\* setBlacklistedSource(): one of V1_1 and one of V2_1, which differ in two offsets.
initialSvId ==
  [GLONASS |-> 65, BEIDOU |-> 201, QZSS |-> 193, GALILEO |-> 301, NAVIC |-> 401]
svIdOffset(constellation, v) ==
  IF constellation \notin DOMAIN initialSvId \/ (v = "1.1" /\ constellation \in {"QZSS", "NAVIC"})
  THEN 0 ELSE initialSvId[constellation] - 1
setBlacklistedSource(name, v) ==
  [constellation |-> name.constellation,
   svId |-> name.svid + (IF name.svid > 0 THEN svIdOffset(name.constellation, v) ELSE 0)]
\* The list is refused if there is nothing in it that can be blacklisted.
setBlacklist(list, v) ==
  IF list = <<>> \/ \E i \in 1 .. Len(list) :
                      list[i].constellation \notin {"GPS", "SBAS", "UNKNOWN"}
  THEN [i \in 1 .. Len(list) |-> setBlacklistedSource(list[i], v)] ELSE Nothing

valueOf(c) ==
  CASE c.fn = "suplVersion" -> setSuplVersion(c.arg)
    [] c.fn = "suplMode" -> setSuplMode(c.arg)
    [] c.fn = "lppProfile" -> setLppProfile(c.arg)
    [] c.fn = "glonass" -> setGlonassPositioningProtocol(c.arg)
    [] c.fn = "gpsLock" -> setGpsLock(c.arg)
    [] c.fn = "emergencyPdn" -> setEmergencySuplPdn(c.arg)
    [] c.fn = "esExtension" -> setEsExtensionSec(c.arg)
    [] c.fn = "server" -> setServer(c.arg)
    [] c.fn = "blacklist" ->
         setBlacklist([i \in 1 .. Len(c.arg.sats) |-> nameOf(c.arg.sats[i], c.arg.v)], c.arg.v)
------------------------------------------------------------------------------
(* The way of a configuration to the adapter.                              *)

\* locAPIGnssUpdateConfig()
send(config) ==
  IF config = mConfig THEN UNCHANGED <<mConfig, queue>>
  ELSE mConfig' = config /\ queue' = Append(queue, config)

\* What waits is merged, setting by setting.  The host of a server is copied only in the
\* place of another, and there is never one.
merged(config) ==
  [s \in DOMAIN mPendingConfig \cup DOMAIN config |->
     IF s \notin DOMAIN config THEN mPendingConfig[s]
     ELSE IF s = "server" THEN [config[s] EXCEPT !.host = Nothing] ELSE config[s]]
updateConfiguration(config) ==
  IF ready THEN send(config) /\ UNCHANGED <<mPendingConfig, hostless, overwritten>>
  ELSE /\ mPendingConfig' = merged(config)
       /\ hostless' = (hostless \/ "server" \in DOMAIN config)
       /\ overwritten' = (overwritten \/ ("server" \in DOMAIN config \cap DOMAIN mPendingConfig))
       /\ UNCHANGED <<mConfig, queue>>

\* An accepted call; a server of another type than SUPL sets nothing.
set(c) ==
  LET value == valueOf(c)
  IN /\ calls < menu.max /\ calls' = calls + 1
     /\ IF value = Nothing
        THEN UNCHANGED <<mPendingConfig, mConfig, queue, accepted, hostless, overwritten>>
        ELSE /\ updateConfiguration([s \in {c.fn} |-> value])
             /\ accepted' = IF c.fn = "server" /\ c.arg.type # "SUPL" THEN accepted
                            ELSE [s \in {c.fn} |-> c.arg] @@ accepted
     /\ UNCHANGED <<menu, ready, adapter, mGnssSvIdConfig>>

\* setCallback*() makes the client, which is sent what waits.
getApi ==
  /\ ~ready /\ ready' = TRUE
  /\ IF mPendingConfig = Empty THEN UNCHANGED <<mConfig, queue>> ELSE send(mPendingConfig)
  /\ mPendingConfig' = Empty
  /\ UNCHANGED <<menu, calls, adapter, mGnssSvIdConfig, accepted, hostless, overwritten>>
------------------------------------------------------------------------------
(* The adapter.                                                            *)

\* SBAS has two ranges, [120, 158] and [183, ...], with one after the other in the mask.
SBAS_INITIAL == 120
SBAS_LENGTH == 39
SBAS_INITIAL2 == 183
sbasBit(svId) ==
  IF svId >= SBAS_INITIAL2 THEN {svId + SBAS_LENGTH - SBAS_INITIAL2}
  ELSE IF svId \in SBAS_INITIAL .. SBAS_INITIAL + SBAS_LENGTH - 1 THEN {svId - SBAS_INITIAL} ELSE {}
maskOf(source) ==
  IF source.svId = 0 THEN Bits
  ELSE IF source.constellation = "SBAS" THEN sbasBit(source.svId)
  ELSE {source.svId - initialSvId[source.constellation]} \cap Bits
convertToGnssSvIdConfig(list) ==
  [c \in Masked |->
     UNION {maskOf(list[i]) : i \in {i \in 1 .. Len(list) : list[i].constellation = c}}]

\* The way back, for those who ask the modem.
convertGnssSvIdMaskToList(mask, initial, c) ==
  IF mask = Bits THEN {[constellation |-> c, svId |-> 0]}
  ELSE {[constellation |-> c,
         svId |-> IF c = "SBAS" /\ b >= SBAS_LENGTH THEN b - SBAS_LENGTH + SBAS_INITIAL2
                  ELSE b + initial] : b \in mask}
convertFromGnssSvIdConfig(masks) ==
  UNION {convertGnssSvIdMaskToList(masks[c], initialSvId[c], c) : c \in Masked \ {"SBAS"}}
  \cup convertGnssSvIdMaskToList(masks["SBAS"] \cap 0 .. SBAS_LENGTH - 1, SBAS_INITIAL, "SBAS")
  \cup convertGnssSvIdMaskToList({b - SBAS_LENGTH : b \in masks["SBAS"] \ (0 .. SBAS_LENGTH - 1)},
                                 SBAS_INITIAL2, "SBAS")

gnssUpdateConfig ==
  LET config == Head(queue)
      ignored == {s \in DOMAIN config : s = "server" /\ config[s].type # "SUPL"}
  IN /\ queue # <<>> /\ queue' = Tail(queue)
     /\ adapter' = [s \in DOMAIN config \ ignored |-> config[s]] @@ adapter
     /\ mGnssSvIdConfig' = IF "blacklist" \in DOMAIN config
                           THEN convertToGnssSvIdConfig(config["blacklist"]) ELSE mGnssSvIdConfig
     /\ UNCHANGED <<menu, calls, ready, mPendingConfig, mConfig, accepted, hostless, overwritten>>

Next == (\E c \in menu.calls : set(c)) \/ getApi \/ gnssUpdateConfig
Spec == Init /\ [][Next]_vars
------------------------------------------------------------------------------
AtRest == ready /\ queue = <<>>
\* The adapter has each setting as it was accepted last, but for the host of a server that
\* was set before there was a client.
SettingsFollow ==
  AtRest => \A s \in DOMAIN accepted :
    (s = "server" => ~overwritten) =>
      /\ s \in DOMAIN adapter
      /\ LET value == valueOf([fn |-> s, arg |-> accepted[s]])
         IN adapter[s] = IF s = "server" /\ hostless THEN [value EXCEPT !.host = adapter[s].host]
                         ELSE value

\* The satellites whose names lead back to them, one by one or with their constellation.
nameable(sat, v) ==
  /\ sat.type # "GPS"
  /\ ~(sat.type = "GLONASS" /\ sat.id = GLO_SV_PRN_SLOT_UNKNOWN)
  /\ ~(sat.type = "QZSS" /\ sat.id # 0 /\ v = "2.1")
  /\ ~(sat.type = "NAVIC" /\ v = "1.1")
bitOf(sat) == IF sat.type = "SBAS" THEN sbasBit(sat.id) ELSE {sat.id - initialSvId[sat.type]}
\* The masks are of the satellites that the framework named.
BlacklistFollows ==
  AtRest /\ "blacklist" \in DOMAIN accepted =>
    LET arg == accepted["blacklist"]
        named == {sat \in ToSet(arg.sats) : nameable(sat, arg.v)}
        hit(sat) == \E other \in named : other.type = sat.type /\ other.id \in {0, sat.id}
    IN /\ \A sat \in {s \in Sats : s.type # "GPS" /\ s.id \notin {0, GLO_SV_PRN_SLOT_UNKNOWN}} :
            hit(sat) <=> bitOf(sat) \cap mGnssSvIdConfig[sat.type] # {}
       /\ {[constellation |-> sat.type, svId |-> sat.id] :
             sat \in {s \in named : \A n \in named : n.type = s.type => n.id # 0}}
          \subseteq convertFromGnssSvIdConfig(mGnssSvIdConfig)

SettingsHold == SettingsFollow /\ BlacklistFollows
==============================================================================
