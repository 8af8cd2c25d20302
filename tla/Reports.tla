------------------------------- MODULE Reports -------------------------------
(***************************************************************************)
(* What GnssAdapter (gps/gnss/GnssAdapter.cpp) makes of the reports of the *)
(* modem: latencies, positions, satellites, NMEA and the leap second.  The *)
(* modem's thread posts them, the message task tells the clients.  Where   *)
(* an engine hub is loaded, positions pass through it and come back fused; *)
(* where it is not, they are reported as they are.                         *)
(*                                                                         *)
(* A report carries the number of its epoch.  In each epoch the modem      *)
(* reports a latency, a position and mostly the satellites in view, in     *)
(* that order; NMEA, the leap second, clients and sessions come any time.  *)
(***************************************************************************)
EXTENDS Integers, Sequences

CONSTANTS
  Conf,                    \* configurations: records [hub, intermediate, provider]
  Client, Callbacks,       \* clients, and the sets of callbacks they register
  Fix,                     \* what the modem computes: records [status, tech,
                           \* unpropagated, used, multiband]
  View,                    \* satellites in view: <<constellation, signal, id>>
  MaxEpochs, MaxOthers,    \* bounds: epochs, and other reports and commands
  MaxBacklog,              \* bound: nothing comes while more messages wait
  None

Part == {"current", "change"}      \* of LeapSecondSystemInfo

VARIABLES
  conf,                    \* [hub, intermediate, provider]: the hub is loaded,
                           \* INTERMEDIATE_POS, NMEA_PROVIDER
  mClientData,             \* callbacks of each client, None if it is not there
  tracking,                \* a session runs
  queue,                   \* messages of the task
  hub,                     \* what the engine hub was given and has not reported yet
  mGnssLatencyInfoQueue,
  mGnssSvIdUsedInPosition, \* with its Avail flags: None if it is not available
  mLocSystemInfo,          \* the version of each part, 0 if there is none
  epoch, phase, others,    \* what the modem sends next, and how much it may
  \* history: what a client knows of the leap second, who gave NMEA, the latency logged
  \* last and with which position, the satellites reported last, whom the position of each
  \* epoch was told, latencies left behind
  known, sources, logged, flagged, outcome, behind

vars == <<conf, mClientData, tracking, queue, hub, mGnssLatencyInfoQueue,
          mGnssSvIdUsedInPosition, mLocSystemInfo, epoch, phase, others, known, sources,
          logged, flagged, outcome, behind>>
state == <<mClientData, tracking, mGnssLatencyInfoQueue, mGnssSvIdUsedInPosition, mLocSystemInfo>>
history == <<known, sources, logged, flagged, outcome, behind>>

Unknown == [p \in Part |-> 0]

Init ==
  /\ conf \in Conf
  /\ mClientData = [c \in Client |-> None] /\ tracking = FALSE
  /\ queue = <<>> /\ hub = <<>> /\ mGnssLatencyInfoQueue = <<>>
  /\ mGnssSvIdUsedInPosition = None /\ mLocSystemInfo = Unknown
  /\ epoch = 1 /\ phase = "latency" /\ others = 0
  /\ known = [c \in Client |-> Unknown] /\ sources = {}
  /\ logged = None /\ flagged = None /\ outcome = [e \in 1 .. MaxEpochs |-> None] /\ behind = 0
------------------------------------------------------------------------------
(* The modem, the framework and the engine hub. *)

room == Len(queue) < MaxBacklog
post(m) == queue' = Append(queue, m)

reportLatencyInfoEvent ==
  /\ room /\ phase = "latency" /\ epoch <= MaxEpochs
  /\ phase' = "position" /\ post([is |-> "latency", epoch |-> epoch])
  /\ UNCHANGED <<conf, hub, epoch, others, state, history>>

reportPositionEvent(fix) ==
  /\ room /\ phase = "position"
  /\ phase' = "satellites" /\ post([is |-> "position", epoch |-> epoch, fix |-> fix])
  /\ UNCHANGED <<conf, hub, epoch, others, state, history>>

nextEpoch == phase = "satellites" /\ phase' = "latency" /\ epoch' = epoch + 1
\* Satellites go to the hub if it is loaded, which reports them in its turn.
reportSvEvent ==
  LET m == [is |-> "satellites", epoch |-> epoch]
  IN /\ nextEpoch
     /\ IF conf.hub THEN hub' = Append(hub, m) /\ UNCHANGED queue ELSE room /\ post(m) /\ UNCHANGED hub
     /\ UNCHANGED <<conf, others, state, history>>
noSvEvent == nextEpoch /\ UNCHANGED <<conf, queue, hub, others, state, history>>

other(m) ==
  /\ room /\ others < MaxOthers /\ others' = others + 1 /\ post(m)
  /\ UNCHANGED <<conf, hub, epoch, phase, state, history>>

\* The modem's own NMEA; if the adapter generates it, only debug sentences go on.
reportNmeaEvent(debug) ==
  (debug \/ conf.provider # "AP") /\ other([is |-> "nmea", debug |-> debug])
reportLocationSystemInfoEvent(parts) == other([is |-> "system", parts |-> parts, version |-> others + 1])
addClientCommand(c, callbacks) == other([is |-> "add", client |-> c, callbacks |-> callbacks])
removeClientCommand(c) == other([is |-> "remove", client |-> c])
track(on) == other([is |-> "track", on |-> on])

\* The hub reports what it was given, in order, positions as fused ones.
reportFromEngineHub ==
  /\ room /\ hub # <<>> /\ hub' = Tail(hub) /\ post(Head(hub))
  /\ UNCHANGED <<conf, epoch, phase, others, state, history>>
------------------------------------------------------------------------------
(* Positions: who is told, and what is kept for the satellites. *)

needReport(fix) ==
  \/ fix.status = "success" /\ fix.tech \in {"satellite", "sensors"}
  \/ fix.status = "intermediate" /\ conf.intermediate
needReportForGnssClient(fix) == conf.hub \/ needReport(fix)
needReportForFlpClient(fix) ==
  ~((fix.status = "intermediate" /\ fix.tech # "sensors") \/ fix.status = "failure")

\* The latency reported first is taken to be this position's.
logLatencyInfo(e) ==
  IF mGnssLatencyInfoQueue = <<>> THEN UNCHANGED <<mGnssLatencyInfoQueue, logged>>
  ELSE /\ mGnssLatencyInfoQueue' = Tail(mGnssLatencyInfoQueue)
       /\ logged' = [latency |-> Head(mGnssLatencyInfoQueue), position |-> e]

\* Where the adapter generates the sentences; what they say, and their rate, is left out.
generateNmea ==
  sources' = IF conf.provider = "AP" /\ tracking THEN sources \cup {"adapter"} ELSE sources

withheld(e, fix) ==
  /\ behind' = behind + 1 /\ outcome' = [outcome EXCEPT ![e] = [to |-> "none", fix |-> fix]]
  /\ UNCHANGED <<mGnssLatencyInfoQueue, logged, mGnssSvIdUsedInPosition>>

reportPosition(e, fix) ==
  LET gnss == needReportForGnssClient(fix)
  IN /\ IF gnss \/ needReportForFlpClient(fix)
        THEN /\ logLatencyInfo(e)
             /\ mGnssSvIdUsedInPosition' =
                  IF gnss /\ fix.used # None THEN [used |-> fix.used, multiband |-> fix.multiband] ELSE None
             /\ outcome' = [outcome EXCEPT ![e] = [to |-> IF gnss THEN "gnss" ELSE "flp", fix |-> fix]]
             /\ UNCHANGED behind
        ELSE withheld(e, fix)
     /\ generateNmea

\* The modem's position: thrown away without a session, given to the hub if there is
\* one, and not told if it is unpropagated.
MsgReportSPEPosition(m) ==
  /\ IF tracking /\ conf.hub
     THEN /\ hub' = Append(hub, [m EXCEPT !.is = "fused"])
          /\ UNCHANGED <<mGnssLatencyInfoQueue, mGnssSvIdUsedInPosition, sources, logged, outcome, behind>>
     ELSE /\ UNCHANGED hub
          /\ IF tracking /\ ~m.fix.unpropagated THEN reportPosition(m.epoch, m.fix)
             ELSE withheld(m.epoch, m.fix) /\ UNCHANGED sources
  /\ UNCHANGED <<mClientData, tracking, mLocSystemInfo, known, flagged>>

MsgReportEnginePositions(m) ==
  /\ reportPosition(m.epoch, m.fix)
  /\ UNCHANGED <<hub, mClientData, tracking, mLocSystemInfo, known, flagged>>

MsgReportLatencyInfo(m) ==
  /\ mGnssLatencyInfoQueue' = Append(mGnssLatencyInfoQueue, m.epoch)
  /\ UNCHANGED <<hub, mClientData, tracking, mGnssSvIdUsedInPosition, mLocSystemInfo, history>>

\* A satellite is used if the last position used it, and, where the position tells,
\* used this signal of it; NAVIC has one signal, SBAS is never used.
svUsed(s, u) ==
  /\ u # None /\ s[1] # "SBAS"
  /\ IF u.multiband /\ s[1] # "NAVIC" THEN s \in u.used
     ELSE \E t \in u.used : t[1] = s[1] /\ t[3] = s[3]

reportSv(m) ==
  /\ flagged' = [epoch |-> m.epoch, before |-> IF flagged = None THEN 0 ELSE flagged.epoch,
                 used |-> {s \in View : svUsed(s, mGnssSvIdUsedInPosition)}]
  /\ mGnssSvIdUsedInPosition' = None
  /\ generateNmea
  /\ UNCHANGED <<hub, mClientData, tracking, mGnssLatencyInfoQueue, mLocSystemInfo, known, logged, outcome, behind>>

\* A sentence SystemStatus does not take goes to the clients.
MsgReportNmea(m) ==
  /\ sources' = IF m.debug THEN sources ELSE sources \cup {"modem"}
  /\ UNCHANGED <<hub, state, known, logged, flagged, outcome, behind>>
------------------------------------------------------------------------------
(* The leap second, and the clients that want to know of it. *)

wants(c) == mClientData[c] # None /\ "system" \in mClientData[c]

\* Kept piece by piece, and told as it came.
reportLocationSystemInfo(m) ==
  /\ mLocSystemInfo' = [p \in Part |-> IF p \in m.parts THEN m.version ELSE mLocSystemInfo[p]]
  /\ known' = [c \in Client |-> [p \in Part |-> IF p \in m.parts /\ wants(c) THEN m.version ELSE known[c][p]]]
  /\ UNCHANGED <<hub, mClientData, tracking, mGnssLatencyInfoQueue, mGnssSvIdUsedInPosition,
                 sources, logged, flagged, outcome, behind>>

notifyClientOfCachedLocationSystemInfo_NewOnly(c, callbacks) ==
  known' = IF "system" \in callbacks /\ mClientData[c] = None
           THEN [known EXCEPT ![c] = mLocSystemInfo] ELSE known
notifyClientOfCachedLocationSystemInfo(c, callbacks) ==
  known' = IF "system" \in callbacks /\ ~wants(c) THEN [known EXCEPT ![c] = mLocSystemInfo] ELSE known

MsgAddClient(m) ==
  /\ notifyClientOfCachedLocationSystemInfo(m.client, m.callbacks)
  /\ mClientData' = [mClientData EXCEPT ![m.client] = m.callbacks]
  /\ UNCHANGED <<hub, tracking, mGnssLatencyInfoQueue, mGnssSvIdUsedInPosition, mLocSystemInfo,
                 sources, logged, flagged, outcome, behind>>

MsgRemoveClient(m) ==
  /\ mClientData' = [mClientData EXCEPT ![m.client] = None]
  /\ known' = [known EXCEPT ![m.client] = Unknown]
  /\ UNCHANGED <<hub, tracking, mGnssLatencyInfoQueue, mGnssSvIdUsedInPosition, mLocSystemInfo,
                 sources, logged, flagged, outcome, behind>>

MsgTrack(m) ==
  /\ tracking' = m.on
  /\ UNCHANGED <<hub, mClientData, mGnssLatencyInfoQueue, mGnssSvIdUsedInPosition, mLocSystemInfo, history>>
------------------------------------------------------------------------------
take(is) ==
  /\ queue # <<>> /\ Head(queue).is = is /\ queue' = Tail(queue)
  /\ UNCHANGED <<conf, epoch, phase, others>>
taken == Head(queue)

Next ==
  \/ reportLatencyInfoEvent
  \/ \E fix \in Fix : reportPositionEvent(fix)
  \/ reportSvEvent
  \/ noSvEvent
  \/ \E debug \in BOOLEAN : reportNmeaEvent(debug)
  \/ \E parts \in {{"current"}, Part} : reportLocationSystemInfoEvent(parts)
  \/ \E c \in Client, callbacks \in Callbacks : addClientCommand(c, callbacks)
  \/ \E c \in Client : removeClientCommand(c)
  \/ \E on \in BOOLEAN : track(on)
  \/ reportFromEngineHub
  \/ take("latency") /\ MsgReportLatencyInfo(taken)
  \/ take("position") /\ MsgReportSPEPosition(taken)
  \/ take("fused") /\ MsgReportEnginePositions(taken)
  \/ take("satellites") /\ reportSv(taken)
  \/ take("nmea") /\ MsgReportNmea(taken)
  \/ take("system") /\ reportLocationSystemInfo(taken)
  \/ take("add") /\ MsgAddClient(taken)
  \/ take("remove") /\ MsgRemoveClient(taken)
  \/ take("track") /\ MsgTrack(taken)

Spec == Init /\ [][Next]_vars
------------------------------------------------------------------------------
\* A latency is logged with the position it was measured for, until a position was kept
\* from all clients: its latency stays, and from then on every latency is logged with the
\* position of a later epoch (GnssAdapter.cpp:3977 takes the first of the queue).
LatencyMatches == logged # None /\ behind = 0 => logged.latency = logged.position

\* Without a hub the satellites of an epoch are flagged as the position of that epoch used
\* them.  If that was kept from all clients, and the satellites before were not reported,
\* an older position flags them.
UsedFlags ==
  flagged # None /\ ~conf.hub =>
    LET o == outcome[flagged.epoch]
        by(fix) == IF fix.used = None THEN {} ELSE {s \in View : svUsed(s, fix)}
    IN CASE o.to = "gnss" -> flagged.used = by(o.fix)
         [] o.to = "flp" -> flagged.used = {}
         [] OTHER -> \/ flagged.used = {}
                     \/ \E e \in flagged.before + 1 .. flagged.epoch - 1 :
                          outcome[e].to = "gnss" /\ flagged.used = by(outcome[e].fix)

\* Who wants to know of the leap second knows all the modem told of it, whenever it came.
InfoKnown == \A c \in Client : wants(c) => known[c] = mLocSystemInfo

\* The clients never get the sentences of the modem and those of the adapter.
OneNmeaSource == \A s, t \in sources : s = t

ReportsFollow == LatencyMatches /\ UsedFlags /\ InfoKnown /\ OneNmeaSource
==============================================================================
