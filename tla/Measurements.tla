----------------------------- MODULE Measurements -----------------------------
(***************************************************************************)
(* The measurements of the framework: GnssMeasurement keeps one callback   *)
(* of four versions, MeasurementAPIClient runs a session for it and turns  *)
(* each report into what its version can say.  The calls come on a thread  *)
(* of the binder, the reports on the adapter's task, which looks whether   *)
(* the session runs before it takes the lock.                              *)
(***************************************************************************)
EXTENDS Integers, FiniteSets, Sequences, SequencesExt

CONSTANTS
  Version,                      \* of {"1.0", "1.1", "2.0", "2.1"}
  Notification,                 \* reports: [sats, clock]
  SVS_COUNT,                    \* 64 in V1_0
  MaxRegistrations, MaxCalls,   \* bounds: registrations accepted, calls that wait
  None

VARIABLES
  registered,                   \* registrations that were accepted: [version, mode]
  open,                         \* the one that is neither closed nor dead, or 0
  alive, obituary,              \* its process; its death is still to be told
  mGnssMeasurementCbIface,      \* of GnssMeasurement: version -> registration, or 0
  call,                         \* steps left of the binder's call
  client, mTracking,            \* of MeasurementAPIClient
  session, tracking,            \* of LocationAPIClientBase: mTracking and its session
  calls,                        \* starts and stops on their way to the adapter
  running,                      \* session -> power mode, in the adapter
  task,                         \* the report under way
  failed, swallowed             \* history: since the last stop a start failed, or was not made
                                \* as a session was there
vars == <<registered, open, alive, obituary, mGnssMeasurementCbIface, call, client, mTracking,
          session, tracking, calls, running, task, failed, swallowed>>

halVars == <<registered, open, alive, obituary, mGnssMeasurementCbIface>>
baseVars == <<session, tracking, calls>>
idle == [at |-> "idle"]
nobody == [v \in Version |-> 0]

Init ==
  /\ registered = <<>> /\ open = 0 /\ alive = FALSE /\ obituary = FALSE
  /\ mGnssMeasurementCbIface = nobody /\ call = <<>> /\ client = nobody /\ mTracking = FALSE
  /\ session = 0 /\ tracking = FALSE /\ calls = <<>> /\ running = [s \in {} |-> None]
  /\ task = idle /\ failed = FALSE /\ swallowed = FALSE
------------------------------------------------------------------------------
(* The framework's calls.                                                  *)

room == Len(calls) < MaxCalls

\* Full tracking is a power mode that V1_0 does not ask for.
modesOf(v) == IF v = "1.0" THEN {"none"} ELSE {"M1", "M2"}

\* Of a version that is there already the call is refused; another is put in its place, and
\* its death will not be told.
setCallback(v, mode) ==
  /\ call = <<>> /\ room /\ Len(registered) < MaxRegistrations
  /\ alive' = TRUE
  /\ IF mGnssMeasurementCbIface[v] # 0
     THEN UNCHANGED <<registered, open, obituary, mGnssMeasurementCbIface, call>>
     ELSE /\ registered' = Append(registered, [version |-> v, mode |-> mode])
          /\ open' = Len(registered) + 1 /\ obituary' = FALSE
          /\ mGnssMeasurementCbIface' = [nobody EXCEPT ![v] = Len(registered) + 1]
          /\ call' = <<"set", "track", "start">>
  /\ UNCHANGED <<client, mTracking, baseVars, running, task, failed, swallowed>>

closed ==
  /\ open' = 0 /\ mGnssMeasurementCbIface' = nobody /\ call' = <<"untrack", "stop">>
  /\ UNCHANGED <<registered, client, mTracking, baseVars, running, task, failed,
                 swallowed>>
close == call = <<>> /\ room /\ alive /\ closed /\ obituary' = FALSE /\ UNCHANGED alive
frameworkDies ==
  /\ call = <<>> /\ alive /\ alive' = FALSE /\ obituary' = (open # 0)
  /\ UNCHANGED <<registered, open, mGnssMeasurementCbIface, call, client, mTracking, baseVars,
                 running, task, failed, swallowed>>
serviceDied ==
  call = <<>> /\ room /\ obituary /\ closed /\ obituary' = FALSE /\ UNCHANGED alive

\* The steps of MeasurementAPIClient and of its base.
step(s) == call # <<>> /\ Head(call) = s /\ call' = Tail(call)
clearAndSet ==
  /\ step("set")
  /\ client' = [nobody EXCEPT ![Last(registered).version] = Len(registered)]
  /\ UNCHANGED <<halVars, mTracking, baseVars, running, task, failed, swallowed>>
setTracking ==
  /\ (step("track") /\ mTracking' = TRUE) \/ (step("untrack") /\ mTracking' = FALSE)
  /\ UNCHANGED <<halVars, client, baseVars, running, task, failed, swallowed>>
locAPIStartTracking ==
  /\ step("start")
  /\ IF tracking THEN swallowed' = TRUE /\ UNCHANGED baseVars
     ELSE /\ session' = session + 1 /\ tracking' = TRUE
          /\ calls' = Append(calls, [fn |-> "start", session |-> session + 1,
                                     mode |-> Last(registered).mode])
          /\ UNCHANGED swallowed
  /\ UNCHANGED <<halVars, client, mTracking, running, task, failed>>
locAPIStopTracking ==
  /\ step("stop")
  /\ IF session > 0
     THEN /\ calls' = Append(calls, [fn |-> "stop", session |-> session, mode |-> "none"])
          /\ tracking' = FALSE /\ swallowed' = FALSE
     ELSE UNCHANGED <<calls, tracking, swallowed>>
  /\ UNCHANGED <<halVars, client, mTracking, session, running, task, failed>>

\* The adapter: the engine may refuse a start.
adapterServes ==
  LET c == Head(calls)
  IN /\ calls # <<>> /\ calls' = Tail(calls)
     /\ IF c.fn = "stop"
        THEN /\ running' = [s \in DOMAIN running \ {c.session} |-> running[s]]
             /\ failed' = FALSE
        ELSE \/ running' = [s \in DOMAIN running \cup {c.session} |->
                             IF s = c.session THEN c.mode ELSE running[s]] /\ UNCHANGED failed
             \/ failed' = TRUE /\ UNCHANGED running
     /\ UNCHANGED <<halVars, call, client, mTracking, session, tracking, task,
                    swallowed>>
------------------------------------------------------------------------------
(* What each version can say of a measurement.                             *)

GLO_SV_PRN_SLOT_UNKNOWN == 255
firstOf(type) ==
  CASE type = "GLONASS" -> 65 [] type = "BEIDOU" -> 201 [] type = "GALILEO" -> 301
    [] type = "NAVIC" -> 401 [] OTHER -> 1
convertGnssSvid(sat) ==
  IF sat.type = "GLONASS" /\ sat.id = GLO_SV_PRN_SLOT_UNKNOWN THEN sat.fcn + 92
  ELSE sat.id - firstOf(sat.type) + 1
convertGnssConstellationType(type, v) ==
  IF type = "NAVIC" THEN IF v \in {"1.0", "1.1"} THEN "UNKNOWN" ELSE "IRNSS" ELSE type
convertGnssMeasurementsCodeType(m) == IF m.code = "OTHER" THEN m.otherCode ELSE m.code
convertGnssMeasurementsState(m, v) ==
  m.state \cap ({"CODE_LOCK", "BIT_SYNC", "SUBFRAME_SYNC", "TOW_DECODED", "MSEC_AMBIGUOUS",
                 "SYMBOL_SYNC", "GLO_STRING_SYNC", "GLO_TOD_DECODED", "BDS_D2_BIT_SYNC",
                 "BDS_D2_SUBFRAME_SYNC", "GAL_E1BC_CODE_LOCK", "GAL_E1C_2ND_CODE_LOCK",
                 "GAL_E1B_PAGE_SYNC", "SBAS_SYNC"}
                \cup (IF v \in {"1.0", "1.1"} THEN {}
                      ELSE {"TOW_KNOWN", "GLO_TOD_KNOWN", "2ND_CODE_LOCK"}))
convertGnssMeasurementsAccumulatedDeltaRangeState(m, v) ==
  m.adr \cap ({"VALID", "RESET", "CYCLE_SLIP"}
              \cup (IF v = "1.0" THEN {} ELSE {"HALF_CYCLE_RESOLVED"}))
isbFlags == {"FULL_ISB", "FULL_ISB_UNCERTAINTY", "SATELLITE_ISB", "SATELLITE_ISB_UNCERTAINTY"}
convertFlags(m, v) ==
  m.flags \cap ({"SNR", "CARRIER_FREQUENCY", "CARRIER_CYCLES", "CARRIER_PHASE",
                 "CARRIER_PHASE_UNCERTAINTY", "AGC"} \cup (IF v = "2.1" THEN isbFlags ELSE {}))
\* The values of a measurement go along whether they are flagged or not, but for the biases.
convertGnssMeasurement(m, v) ==
  [constellation |-> convertGnssConstellationType(m.sat.type, v), svid |-> convertGnssSvid(m.sat),
   code |-> IF v \in {"1.0", "1.1"} THEN None ELSE convertGnssMeasurementsCodeType(m),
   flags |-> convertFlags(m, v), biases |-> IF v = "2.1" THEN m.flags \cap isbFlags ELSE {},
   state |-> convertGnssMeasurementsState(m, v),
   adr |-> convertGnssMeasurementsAccumulatedDeltaRangeState(m, v),
   multipath |-> m.multipath]
convertGnssClock(clock, v) ==
  [flags |-> clock.flags \cap {"LEAP_SECOND", "TIME_UNCERTAINTY", "FULL_BIAS", "BIAS",
                               "BIAS_UNCERTAINTY", "DRIFT", "DRIFT_UNCERTAINTY"},
   reference |-> IF v = "2.1" THEN clock.reference ELSE None]
convertElapsedRealtimeNanos(clock, v) ==
  v \in {"2.0", "2.1"} /\ "ELAPSED_REAL_TIME" \in clock.flags
convertGnssData(n, v) ==
  LET count == IF v = "1.0" /\ Len(n.sats) > SVS_COUNT THEN SVS_COUNT ELSE Len(n.sats)
  IN [measurements |-> [i \in 1 .. count |-> convertGnssMeasurement(n.sats[i], v)],
      clock |-> convertGnssClock(n.clock, v), elapsed |-> convertElapsedRealtimeNanos(n.clock, v)]
------------------------------------------------------------------------------
(* Reports, on the thread of the adapter.                                  *)

reportGnssMeasurementsEvent(n) ==
  /\ task = idle /\ session > 0 /\ n.sats # <<>>
  /\ task' = IF mTracking THEN [at |-> "copy", n |-> n] ELSE idle
  /\ UNCHANGED <<halVars, call, client, mTracking, baseVars, running, failed, swallowed>>
\* The newest version that is set; "charge" is who is registered, if no call is under way.
newest ==
  LET set == {v \in Version : client[v] # 0}
  IN IF "2.1" \in set THEN "2.1" ELSE IF "2.0" \in set THEN "2.0"
     ELSE IF "1.1" \in set THEN "1.1" ELSE IF "1.0" \in set THEN "1.0" ELSE None
copyCallback ==
  /\ task.at = "copy"
  /\ task' = [at |-> "tell", n |-> task.n, to |-> newest,
              registration |-> IF newest = None THEN 0 ELSE client[newest],
              charge |-> IF call = <<>> THEN open ELSE 0]
  /\ UNCHANGED <<halVars, call, client, mTracking, baseVars, running, failed,
                 swallowed>>
onGnssMeasurementsCb ==
  /\ task.at = "tell" /\ task' = idle
  /\ UNCHANGED <<halVars, call, client, mTracking, baseVars, running, failed, swallowed>>
\* What it tells.
told == convertGnssData(task.n, task.to)

Next ==
  \/ \E v \in Version : \E mode \in modesOf(v) : setCallback(v, mode)
  \/ close \/ frameworkDies \/ serviceDied
  \/ clearAndSet \/ setTracking \/ locAPIStartTracking \/ locAPIStopTracking
  \/ adapterServes
  \/ \E n \in Notification : reportGnssMeasurementsEvent(n)
  \/ copyCallback \/ onGnssMeasurementsCb
Spec == Init /\ [][Next]_vars
------------------------------------------------------------------------------
AtRest == call = <<>> /\ calls = <<>>
\* The engine works for the registration that is open, at its power mode, and for none when
\* there is none (the death of a framework is a close when it is told); but a start that
\* failed is not made again by the next registration, and one in another version keeps the
\* power mode of the session it finds.
SessionFollows ==
  AtRest /\ ~failed =>
    /\ open = 0 => running = [s \in {} |-> None]
    /\ open # 0 => /\ DOMAIN running = {session}
                   /\ swallowed \/ running[session] = registered[open].mode

\* Measurements are heard by the registration that is open, in its version.
HeardInCharge ==
  task.at = "tell" /\ task.charge # 0 => task.registration = task.charge

\* What is heard leads back to what was measured: to the satellite, and to every flag and
\* state its version has; V2_1 hears them all.
nameless(m, v) == m.sat.type = "NAVIC" /\ v \in {"1.0", "1.1"}
HeardIsTrue ==
  task.at = "tell" /\ task.to # None =>
    LET v == registered[task.registration].version
        in == task.n.sats
        out == told.measurements
    IN /\ Len(out) = Len(in) \/ (v = "1.0" /\ Len(out) = SVS_COUNT)
       /\ \A i, j \in DOMAIN out :
            out[i].constellation = out[j].constellation /\ out[i].svid = out[j].svid =>
              in[i].sat = in[j].sat
       /\ \A i \in DOMAIN out :
            /\ out[i].constellation = "UNKNOWN" => nameless(in[i], v)
            /\ out[i].flags \subseteq in[i].flags /\ out[i].biases \subseteq out[i].flags
            /\ in[i].sat.type = "GLONASS" => out[i].svid \in 1 .. 32 \cup 93 .. 106
            /\ v = "2.1" => out[i].flags = in[i].flags /\ out[i].state = in[i].state
            /\ v # "1.0" => out[i].adr = in[i].adr
            /\ v \in {"2.0", "2.1"} => out[i].code # "OTHER"
       /\ told.elapsed => "ELAPSED_REAL_TIME" \in task.n.clock.flags

MeasurementsFollow == SessionFollows /\ HeardInCharge /\ HeardIsTrue
==============================================================================
