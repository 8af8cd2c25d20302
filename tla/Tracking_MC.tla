---------------------------- MODULE Tracking_MC ----------------------------
(***************************************************************************)
(* Sessions of clients with two intervals and a distance; and, side by     *)
(* side with them, the callbacks and the measurements of the framework: a  *)
(* behaviour is one of one part, and the others rest in their initial      *)
(* state.                                                                  *)
(***************************************************************************)
EXTENDS Tracking

CONSTANTS
  Part,
  Masks, MaxRegistrations, MaxReports,              \* of the callbacks
  Notification, SVS_COUNT, MaxMeasured, MaxCalls    \* of the measurements

VARIABLES
  part,
  version, alive, wants, call, mGnssCbIface, odcpi, mApi, user, positioning,
  mLocationCapabilitiesMask, mLocationCapabilitiesCached, stale, task, heard, made, reported,
  crossed, torn,
  registered, open, there, deathOpen, mGnssMeasurementCbIface, steps, listener, measuring, number,
  tracked, starts, atWork, report, failedStart, keptMode

sessions == <<timeBased, distanceBased, known, pending, queue, calls, modem, engine,
              engineDistance, client, owed, hasty, failed>>
hal == <<version, alive, wants, call, mGnssCbIface, odcpi, mApi, user, positioning,
         mLocationCapabilitiesMask, mLocationCapabilitiesCached, stale, task, heard, made, reported,
         crossed, torn>>
raw == <<registered, open, there, deathOpen, mGnssMeasurementCbIface, steps, listener, measuring,
         number, tracked, starts, atWork, report, failedStart, keptMode>>

O(i, p, d) == [interval |-> i, power |-> p, distance |-> d]
FastSlowDistance == {O(1, 2, 0), O(2, 2, 0), O(1, 2, 1)}

Versions == {"1.0", "1.1", "2.0", "2.1"}
Capabilities == {{"GNSS_MEASUREMENTS", "DEBUG_NMEA", "TIME_BASED_TRACKING"}, {"GNSS_MSB", "AGPM"}}
ASSUME MasksAssumption ==
  None \notin Masks /\ MaxRegistrations \in Nat
H == INSTANCE GnssHal WITH Version <- Versions, Nothing <- None,
       client <- user, mTracking <- positioning, told <- heard, reports <- made

\* Measurements: satellites with two signals, without a slot and of a constellation that V1_0
\* does not know, more of them than it takes.
satellite(type, id) == [type |-> type, id |-> id, fcn |-> 1]
observed(sat, flags, state, adr, code) ==
  [sat |-> sat, flags |-> flags, state |-> state, adr |-> adr, multipath |-> {}, code |-> code,
   otherCode |-> "Z9"]
Measured == {
  [sats |-> <<observed(satellite("GPS", 3), {"SNR", "AGC"}, {"CODE_LOCK", "TOW_KNOWN"},
                       {"VALID", "HALF_CYCLE_RESOLVED"}, "C"),
              observed(satellite("NAVIC", 403), {"FULL_ISB", "SNR"}, {"2ND_CODE_LOCK"}, {}, "OTHER"),
              observed(satellite("BEIDOU", 255), {}, {"BDS_D2_BIT_SYNC"}, {"RESET"}, "I")>>,
   clock |-> [flags |-> {"BIAS"}, reference |-> "GPS"]],
  [sats |-> <<observed(satellite("GLONASS", 255), {"SATELLITE_ISB"}, {"GLO_TOD_KNOWN"}, {}, "P"),
              observed(satellite("GLONASS", 67), {}, {}, {}, "C"),
              observed(satellite("GLONASS", 67), {}, {}, {}, "P")>>,
   clock |-> [flags |-> {"DRIFT", "ELAPSED_REAL_TIME"}, reference |-> "GLONASS"]]}

\* What an engine reports: satellites in the ranges of their constellations, one without a slot
\* by its frequency; a satellite that has a number has one frequency.
Satellite == {sat \in [type : {"GPS", "SBAS", "GLONASS", "QZSS", "BEIDOU", "GALILEO", "NAVIC"},
                       id : 1 .. 414, fcn : 0 .. 14] :
  sat.type = "GLONASS" => sat.id \in 65 .. 96 \/ (sat.id = 255 /\ sat.fcn > 0)}
numbered(sat) == sat.type # "GLONASS" \/ sat.id # 255
Observed == [
  sat : Satellite,
  flags : SUBSET {"SNR", "CARRIER_FREQUENCY", "CARRIER_CYCLES", "CARRIER_PHASE",
                  "CARRIER_PHASE_UNCERTAINTY", "AGC", "FULL_ISB", "FULL_ISB_UNCERTAINTY",
                  "SATELLITE_ISB", "SATELLITE_ISB_UNCERTAINTY"},
  state : SUBSET {"CODE_LOCK", "BIT_SYNC", "SUBFRAME_SYNC", "TOW_DECODED", "MSEC_AMBIGUOUS",
                  "SYMBOL_SYNC", "GLO_STRING_SYNC", "GLO_TOD_DECODED", "BDS_D2_BIT_SYNC",
                  "BDS_D2_SUBFRAME_SYNC", "GAL_E1BC_CODE_LOCK", "GAL_E1C_2ND_CODE_LOCK",
                  "GAL_E1B_PAGE_SYNC", "SBAS_SYNC", "TOW_KNOWN", "GLO_TOD_KNOWN",
                  "2ND_CODE_LOCK"},
  adr : SUBSET {"VALID", "RESET", "CYCLE_SLIP", "HALF_CYCLE_RESOLVED"},
  multipath : SUBSET {"PRESENT", "NOT_PRESENT"},
  code : STRING, otherCode : STRING \ {"OTHER"}]
ASSUME MeasuredAssumption ==
  /\ SVS_COUNT \in Nat /\ None \notin Versions
  /\ \A n \in Notification :
       /\ n.sats \in Seq(Observed)
       /\ \A i, j \in DOMAIN n.sats :
            LET s == n.sats[i].sat   t == n.sats[j].sat
            IN s.type = t.type /\ s.id = t.id /\ numbered(s) => s.fcn = t.fcn
M == INSTANCE Measurements WITH Version <- Versions,
       MaxRegistrations <- MaxMeasured, alive <- there,
       obituary <- deathOpen, call <- steps, client <- listener, mTracking <- measuring,
       session <- number, tracking <- tracked, calls <- starts, running <- atWork,
       task <- report, failed <- failedStart, swallowed <- keptMode

MCInit == part \in Part /\ Init /\ H!Init /\ M!Init
Sessions == part = "sessions" /\ Next /\ UNCHANGED <<part, hal, raw>>
Hal == part = "hal" /\ H!Next /\ UNCHANGED <<part, sessions, raw>>
Raw == part = "raw" /\ M!Next /\ UNCHANGED <<part, sessions, hal>>

MCSpec == MCInit /\ [][Sessions \/ Hal \/ Raw]_<<part, sessions, hal, raw>>
------------------------------------------------------------------------------
\* Nothing runs for a client that is gone (NoOrphans); and what the framework registered last
\* is what the adapter calls, with what the modem can do and measured.  Each is stated where
\* its part is modelled.
ClientsFollowed ==
  /\ part = "sessions" => NoOrphans
  /\ part = "hal" => H!CallbacksFollow
  /\ part = "raw" => M!MeasurementsFollow
=============================================================================
