------------------------------- MODULE GnssHal -------------------------------
(***************************************************************************)
(* The callbacks of the framework: it registers by one of four versions    *)
(* of IGnss, each call of the binder being several steps, while reports    *)
(* of the adapter's task copy the callback they will be made to.  Both     *)
(* threads write the cached capabilities.  The framework may register      *)
(* again in another version, die and come back.                            *)
(***************************************************************************)
EXTENDS Integers, FiniteSets, Sequences, SequencesExt

CONSTANTS
  Version,              \* of {"1.0", "1.1", "2.0", "2.1"}
  Masks,                \* capabilities of the engine
  MaxRegistrations, MaxReports,   \* bounds
  Nothing

VARIABLES
  version,              \* of each registration
  alive,                \* the process of the last one
  wants,                \* it has started a session
  call,                 \* steps left of the binder's call
  mGnssCbIface,         \* of Gnss: version -> registration, or 0
  odcpi,                \* the ODCPI callback is set
  mApi,
  \* of GnssAPIClient; V1_1 callbacks are kept as V1_0 ones
  client, mTracking, mLocationCapabilitiesMask, mLocationCapabilitiesCached,
  stale,                \* what requestCapabilities() has read
  task,                 \* the report under way
  told,                 \* registration -> the capabilities it heard last
  reports, reported,    \* reports so far, and the capabilities reported last
  crossed, torn         \* history: capabilities written during requestCapabilities();
                        \* a callback cleared between its test and its use

clientVars == <<client, mTracking, mLocationCapabilitiesMask, mLocationCapabilitiesCached>>
vars == <<version, alive, wants, call, mGnssCbIface, odcpi, mApi, clientVars, stale, task, told,
          reports, reported, crossed, torn>>

Registration == 1 .. MaxRegistrations
latest == Len(version)
slotOf(v) == IF v = "1.1" THEN "1.0" ELSE v
Slot == {slotOf(v) : v \in Version}
idle == [at |-> "idle"]

Init ==
  /\ version = <<>> /\ alive = FALSE /\ wants = FALSE /\ call = <<>>
  /\ mGnssCbIface = [v \in Version |-> 0] /\ odcpi = FALSE /\ mApi = FALSE
  /\ client = [s \in Slot |-> 0] /\ mTracking = FALSE
  /\ mLocationCapabilitiesMask = {} /\ mLocationCapabilitiesCached = FALSE /\ stale = Nothing
  /\ task = idle /\ told = [r \in Registration |-> Nothing]
  /\ reports = 0 /\ reported = Nothing /\ crossed = FALSE /\ torn = FALSE
------------------------------------------------------------------------------

\* onCapabilitiesCb(): Capabilities of IGnssCallback, and the year of the hardware
dataOf(mask) ==
  (IF mask \cap {"TIME_BASED_TRACKING", "TIME_BASED_BATCHING", "DISTANCE_BASED_TRACKING",
                 "DISTANCE_BASED_BATCHING"} # {} THEN {"SCHEDULING"} ELSE {})
  \cup (mask \cap {"GEOFENCE", "GNSS_MEASUREMENTS", "GNSS_MSB", "GNSS_MSA", "AGPM",
                   "CONSTELLATION_ENABLEMENT", "MEASUREMENTS_CORRECTION"})
yearStep == <<{"GNSS_MEASUREMENTS"}, {"DEBUG_NMEA"}, {"CONSTELLATION_ENABLEMENT", "AGPM"},
              {"PRIVACY"}, {"MEASUREMENTS_CORRECTION"}>>
yearOfHw(mask) ==
  2015 + Cardinality({n \in 1 .. Len(yearStep) : \A k \in 1 .. n : mask \cap yearStep[k] # {}})

\* The callback that a copy of those of the client leads to: the newest version first.
target(copy) ==
  LET set == {s \in {"1.0", "2.0", "2.1"} \cap Slot : copy[s] # 0}
  IN IF set = {} THEN 0
     ELSE copy[IF "2.1" \in set THEN "2.1" ELSE IF "2.0" \in set THEN "2.0" ELSE "1.0"]
hear(to, mask) ==
  IF to = 0 THEN told
  ELSE [told EXCEPT ![to] = [data |-> dataOf(mask), year |-> yearOfHw(mask)]]
------------------------------------------------------------------------------
(* The framework's calls, on the one thread of the binder.                 *)

\* The parts of a call, first the versions to clear; setCallback() of V1_0 does not register
\* for ODCPI.
clears(v) == IF slotOf(v) = "1.0" THEN <<"2.0", "2.1">>
             ELSE IF v = "2.0" THEN <<"1.0", "2.1">> ELSE <<"1.0", "2.0">>
setCallback(v) ==
  /\ call = <<>> /\ latest < MaxRegistrations /\ ~torn
  /\ version' = Append(version, v) /\ alive' = TRUE
  /\ call' = LET c == clears(v)
             IN <<c[1], c[2], "forget", "remember", "api", "update", "request">>
  /\ UNCHANGED <<wants, mGnssCbIface, odcpi, mApi, clientVars, stale, task, told, reports,
                 reported, crossed, torn>>

step(s) == call # <<>> /\ Head(call) = s /\ ~torn
done == call' = Tail(call)
mine == version[latest]

\* gnssUpdateCallbacks*(nullptr) of the other versions, if there is a client
clear(s) ==
  /\ step(s) /\ done
  /\ client' = IF mApi /\ s \in Slot THEN [client EXCEPT ![s] = 0] ELSE client
  /\ UNCHANGED <<version, alive, wants, mGnssCbIface, odcpi, mApi, mTracking,
                 mLocationCapabilitiesMask, mLocationCapabilitiesCached, stale, task, told,
                 reports, reported, crossed, torn>>
forget ==
  /\ step("forget") /\ done
  /\ mGnssCbIface' = [v \in Version |-> IF v = mine THEN mGnssCbIface[v] ELSE 0]
  /\ UNCHANGED <<version, alive, wants, odcpi, mApi, clientVars, stale, task, told, reports,
                 reported, crossed, torn>>
\* linkToDeath(), odcpiInit()
remember ==
  /\ step("remember") /\ done
  /\ mGnssCbIface' = [mGnssCbIface EXCEPT ![mine] = latest]
  /\ odcpi' = (odcpi \/ mine # "1.0")
  /\ UNCHANGED <<version, alive, wants, mApi, clientVars, stale, task, told, reports, reported,
                 crossed, torn>>
getApi ==
  /\ step("api") /\ done
  /\ mApi' = TRUE
  /\ client' = IF mApi THEN client ELSE [client EXCEPT ![slotOf(mine)] = latest]
  /\ UNCHANGED <<version, alive, wants, mGnssCbIface, odcpi, mTracking,
                 mLocationCapabilitiesMask, mLocationCapabilitiesCached, stale, task, told,
                 reports, reported, crossed, torn>>
gnssUpdateCallbacks ==
  /\ step("update") /\ done
  /\ client' = [client EXCEPT ![slotOf(mine)] = latest]
  /\ UNCHANGED <<version, alive, wants, mGnssCbIface, odcpi, mApi, mTracking,
                 mLocationCapabilitiesMask, mLocationCapabilitiesCached, stale, task, told,
                 reports, reported, crossed, torn>>
requestCapabilities ==
  /\ step("request")
  /\ IF mLocationCapabilitiesCached
     THEN call' = <<"write", "tell">> /\ stale' = mLocationCapabilitiesMask
     ELSE done /\ UNCHANGED stale
  /\ UNCHANGED <<version, alive, wants, mGnssCbIface, odcpi, mApi, clientVars, task, told,
                 reports, reported, crossed, torn>>
requestedWrite ==
  /\ step("write") /\ done /\ mLocationCapabilitiesMask' = stale
  /\ UNCHANGED <<version, alive, wants, mGnssCbIface, odcpi, mApi, client, mTracking,
                 mLocationCapabilitiesCached, stale, task, told, reports, reported, crossed, torn>>
requestedTell ==
  /\ step("tell") /\ done /\ told' = hear(target(client), stale) /\ stale' = Nothing
  /\ UNCHANGED <<version, alive, wants, mGnssCbIface, odcpi, mApi, clientVars, task, reports,
                 reported, crossed, torn>>

gnssStart ==
  /\ call = <<>> /\ alive /\ ~torn /\ wants' = TRUE /\ mTracking' = TRUE
  /\ UNCHANGED <<version, alive, call, mGnssCbIface, odcpi, mApi, client,
                 mLocationCapabilitiesMask, mLocationCapabilitiesCached, stale, task, told,
                 reports, reported, crossed, torn>>
gnssStop ==
  /\ call = <<>> /\ alive /\ ~torn /\ wants' = FALSE /\ mTracking' = FALSE
  /\ UNCHANGED <<version, alive, call, mGnssCbIface, odcpi, mApi, client,
                 mLocationCapabilitiesMask, mLocationCapabilitiesCached, stale, task, told,
                 reports, reported, crossed, torn>>
\* A death is delivered before the calls of the process that comes next.
serviceDied ==
  /\ call = <<>> /\ alive /\ ~torn /\ alive' = FALSE /\ wants' = FALSE /\ mTracking' = FALSE
  /\ UNCHANGED <<version, call, mGnssCbIface, odcpi, mApi, client,
                 mLocationCapabilitiesMask, mLocationCapabilitiesCached, stale, task, told,
                 reports, reported, crossed, torn>>
------------------------------------------------------------------------------
(* Reports, on the thread of the adapter.                                  *)

report(kind, mask) ==
  /\ mApi /\ task = idle /\ reports < MaxReports /\ ~torn /\ reports' = reports + 1
  /\ task' = [at |-> "copy", kind |-> kind, mask |-> mask]
\* onCapabilitiesCb() stores before it copies the callbacks
onCapabilitiesCb(mask) ==
  /\ report("caps", mask)
  /\ mLocationCapabilitiesMask' = mask /\ mLocationCapabilitiesCached' = TRUE /\ reported' = mask
  /\ crossed' = (crossed \/ stale # Nothing)
  /\ UNCHANGED <<version, alive, wants, call, mGnssCbIface, odcpi, mApi, client, mTracking,
                 stale, told, torn>>
other(kind) ==
  /\ report(kind, Nothing)
  /\ UNCHANGED <<version, alive, wants, call, mGnssCbIface, odcpi, mApi, clientVars, stale,
                 told, reported, crossed, torn>>
onTrackingCb == other("position")
onGnssSvCb == other("svs")
onGnssNmeaCb == other("nmea")
onStartTrackingCb == other("status")

\* Under the mutex: the callbacks and mTracking are copied.  "charge" is who is registered,
\* if the binder is not registering another.
copyCallbacks ==
  /\ task.at = "copy" /\ ~torn
  /\ task' = [at |-> "tell", kind |-> task.kind, mask |-> task.mask,
              to |-> IF task.kind = "position" /\ ~mTracking THEN 0 ELSE target(client),
              charge |-> IF call = <<>> THEN latest ELSE 0, wanted |-> wants]
  /\ UNCHANGED <<version, alive, wants, call, mGnssCbIface, odcpi, mApi, clientVars, stale,
                 told, reports, reported, crossed, torn>>
tellFramework ==
  /\ task.at = "tell" /\ ~torn
  /\ task' = idle
  /\ told' = IF task.kind = "caps" THEN hear(task.to, task.mask) ELSE told
  /\ UNCHANGED <<version, alive, wants, call, mGnssCbIface, odcpi, mApi, clientVars, stale,
                 reports, reported, crossed, torn>>

\* odcpiRequestCb(): no lock between the test of a callback and its use
newest == {v \in {"1.1", "2.0", "2.1"} \cap Version : mGnssCbIface[v] # 0}
odcpiRequestCb ==
  /\ odcpi /\ task = idle /\ reports < MaxReports /\ ~torn /\ reports' = reports + 1
  /\ task' = IF newest = {} THEN idle
             ELSE [at |-> "use", v |-> IF "2.1" \in newest THEN "2.1"
                                       ELSE IF "2.0" \in newest THEN "2.0" ELSE "1.1"]
  /\ UNCHANGED <<version, alive, wants, call, mGnssCbIface, odcpi, mApi, clientVars, stale,
                 told, reported, crossed, torn>>
odcpiRequest ==
  /\ task.at = "use" /\ ~torn
  /\ torn' = (mGnssCbIface[task.v] = 0) /\ task' = idle
  /\ UNCHANGED <<version, alive, wants, call, mGnssCbIface, odcpi, mApi, clientVars, stale,
                 told, reports, reported, crossed>>

Binder ==
  \/ \E v \in Version : setCallback(v)
  \/ \E s \in {"1.0", "2.0", "2.1"} : clear(s)
  \/ forget \/ remember \/ getApi \/ gnssUpdateCallbacks
  \/ requestCapabilities \/ requestedWrite \/ requestedTell
  \/ gnssStart \/ gnssStop \/ serviceDied
Task ==
  \/ \E mask \in Masks : onCapabilitiesCb(mask)
  \/ onTrackingCb \/ onGnssSvCb \/ onGnssNmeaCb \/ onStartTrackingCb
  \/ copyCallbacks \/ tellFramework \/ odcpiRequestCb \/ odcpiRequest
Next == Binder \/ Task
Spec == Init /\ [][Next]_vars
------------------------------------------------------------------------------
\* A framework whose registration is complete has been told the capabilities that were
\* reported last, unless that report crossed requestCapabilities().
CapabilitiesTold ==
  call = <<>> /\ task = idle /\ latest > 0 /\ reported # Nothing /\ ~crossed =>
    /\ mLocationCapabilitiesMask = reported
    /\ told[latest] = [data |-> dataOf(reported), year |-> yearOfHw(reported)]

\* While no registration is under way, reports go to the framework registered last, in its
\* version, and positions only while it has a session.
InCharge ==
  task.at = "tell" /\ task.charge # 0 =>
    task.to = IF task.kind = "position" /\ ~task.wanted THEN 0 ELSE task.charge
\* ODCPI requests go to it too, from version 1.1 on.
RequestsReach ==
  call = <<>> /\ latest > 0 =>
    /\ newest = {mine} \ {"1.0"}
    /\ mine # "1.0" => odcpi /\ mGnssCbIface[mine] = latest

CallbacksFollow == CapabilitiesTold /\ InCharge /\ RequestsReach
==============================================================================
