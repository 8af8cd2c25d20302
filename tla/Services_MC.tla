---------------------------- MODULE Services_MC ----------------------------
(***************************************************************************)
(* Seven parts of the program that share no state, side by side in one run:  *)
(* a behaviour is one of one part, chosen at the start, and the others     *)
(* rest in their initial state.                                            *)
(***************************************************************************)
EXTENDS Integers, FiniteSets, Sequences, SequencesExt, FiniteSetsExt

CONSTANTS None, Request, Framework, Observer, DataItem, MaxBacklog, MaxJobs, StatusItem,
  MaxPosted, Option, MaxSessions, MaxCalls, MaxFrameworks, MaxEpochs, MaxOthers

VARIABLES
  part,
  conf, hasCb, tasks, proc, sessionOf, reqIDCounter, threads, shown, told, freed, said, raced,
  mSubscriptionObj, mClientToDataItems, mDataItemToClients, mDataItemCache, framework, knows,
  requested, updated,
  light, reading, listening, screenOn, created, quick, sensor, mLastLux, jobs, job,
  mTransitionInProgress, mAutoHBMActive, mStoredBrightness, hbm, brightness, missed, late, died,
  posted, mDgnssState, ntripParams, mSendNmeaConsent, inSession, startPending, values, throttle,
  mReqStatusReceived, mNtripParamsString, sent, daemon, halinit, gga, leftover, muted,
  incarnation, callbacks, obituary, started, mTrackingOptions, mTracking, session, queue, calls,
  engine, live, status, failed, shifted, dropped, revived, lateDeath,
  mState, cached, batching, flushed, stopping, sessions, dict, requests, removing, flushes,
  batchCalls, batchEngine, known, running, swallowed, gone, overtaken, refused, idle,
  shape, mClientData, tracking, mail, hub, mGnssLatencyInfoQueue, mGnssSvIdUsedInPosition,
  mLocSystemInfo, epoch, phase, others, learnt, sources, logged, flagged, outcome, behind

ni == <<conf, hasCb, tasks, proc, sessionOf, reqIDCounter, threads, shown, told, freed, said,
        raced>>
observer == <<mSubscriptionObj, mClientToDataItems, mDataItemToClients, mDataItemCache,
              framework, knows, requested, updated>>
display == <<light, reading, listening, screenOn, created, quick, sensor, mLastLux, jobs, job,
             mTransitionInProgress, mAutoHBMActive, mStoredBrightness, hbm, brightness, missed,
             late, died>>
xtra == <<posted, mDgnssState, ntripParams, mSendNmeaConsent, inSession, startPending, values,
          throttle, mReqStatusReceived, mNtripParamsString, sent, daemon, halinit, gga, leftover,
          muted>>
gnss == <<incarnation, callbacks, obituary, started, mTrackingOptions, mTracking, session, queue,
          calls, engine, live, status, failed, shifted, dropped, revived, lateDeath>>
batch == <<mState, cached, batching, flushed, stopping, sessions, dict, requests, removing,
           flushes, batchCalls, batchEngine, known, running, swallowed, gone, overtaken, refused,
           idle>>
reports == <<shape, mClientData, tracking, mail, hub, mGnssLatencyInfoQueue,
             mGnssSvIdUsedInPosition, mLocSystemInfo, epoch, phase, others, learnt, sources, logged,
             flagged, outcome, behind>>

Confs == {[locked |-> locked, SUPL_ES |-> ~locked, CP_MTLR_ES |-> ~locked] : locked \in BOOLEAN}
Params == {[id |-> 1, requiresNmeaLocation |-> FALSE], [id |-> 2, requiresNmeaLocation |-> TRUE]}

\* Reports: with an engine hub and without, NMEA of the adapter and of the modem.
Callbacks == {{"info", "sv"}, {"system"}}
Shapes == {[hub |-> TRUE, intermediate |-> FALSE, provider |-> "AP"],
           [hub |-> FALSE, intermediate |-> TRUE, provider |-> "MP"],
           [hub |-> FALSE, intermediate |-> FALSE, provider |-> "AP"]}
Signals == {<<"GPS", "L1", 1>>, <<"GPS", "L5", 1>>, <<"NAVIC", "L5", 1>>, <<"SBAS", "L1", 1>>}
computed(outcomeOf, tech, unpropagated, used, multiband) ==
  [status |-> outcomeOf, tech |-> tech, unpropagated |-> unpropagated, used |-> used,
   multiband |-> multiband]
Computed == {
  computed("success", "satellite", FALSE, {<<"GPS", "L1", 1>>, <<"NAVIC", "x", 1>>}, TRUE),
  computed("success", "satellite", FALSE, {<<"GPS", "L1", 1>>}, FALSE),
  computed("success", "satellite", TRUE, {<<"GPS", "L1", 1>>}, FALSE),
  computed("intermediate", "satellite", FALSE, {<<"GPS", "L5", 1>>}, TRUE),
  computed("failure", "none", FALSE, None, FALSE)}
R == INSTANCE Reports WITH Conf <- Shapes, Fix <- Computed, View <- Signals, MaxBacklog <- 1,
       Client <- {1}, conf <- shape, queue <- mail, known <- learnt
N == INSTANCE NetworkInitiated
S == INSTANCE OsObserver
B == INSTANCE AutoHBM
X == INSTANCE Xtra
G == INSTANCE GnssClient WITH framework <- incarnation, wants <- started
C == INSTANCE BatchingClient WITH wants <- batching, session <- sessions, threads <- flushes,
       calls <- batchCalls, engine <- batchEngine, failed <- refused

Init ==
  /\ part \in {"ni", "observer", "display", "xtra", "gnss", "batch", "reports"}
  /\ N!Init /\ S!Init /\ B!Init /\ X!Init /\ G!Init /\ C!Init /\ R!Init
  /\ part # "ni" => conf.locked
  /\ part # "gnss" => mTrackingOptions = CHOOSE o \in Option : TRUE
  /\ part # "reports" => shape = CHOOSE s \in Shapes : TRUE
  /\ part # "display" => light = "low" /\ ~quick

Ni ==
  /\ part = "ni" /\ N!Next
  /\ UNCHANGED <<part, observer, display, xtra, gnss, batch, reports>>
Items ==
  /\ part = "observer" /\ S!Next
  /\ UNCHANGED <<part, ni, display, xtra, gnss, batch, reports>>
Display ==
  /\ part = "display" /\ B!Next
  /\ UNCHANGED <<part, ni, observer, xtra, gnss, batch, reports>>
Xtra ==
  /\ part = "xtra" /\ X!Next
  /\ UNCHANGED <<part, ni, observer, display, gnss, batch, reports>>
Gnss ==
  /\ part = "gnss" /\ G!Next
  /\ UNCHANGED <<part, ni, observer, display, xtra, batch, reports>>
Batch ==
  /\ part = "batch" /\ C!Next
  /\ UNCHANGED <<part, ni, observer, display, xtra, gnss, reports>>
Reports ==
  /\ part = "reports" /\ R!Next
  /\ UNCHANGED <<part, ni, observer, display, xtra, gnss, batch>>

Next == Ni \/ Items \/ Display \/ Xtra \/ Gnss \/ Batch \/ Reports

Spec == Init /\ [][Next]_<<part, ni, observer, display, xtra, gnss, batch, reports>>
------------------------------------------------------------------------------
\* Each is stated where its part is modelled; of requests of the network, of the
\* data items, of the display, of the XTRA daemon, of the tracking session of the
\* framework, of its batching session, and of the reports of the engine.
RequestsEnd == part = "ni" => N!RequestsEnd
SubscriptionsHold == part = "observer" => S!SubscriptionsHold
KeptStaysSubscribed == part = "observer" => S!KeptStaysSubscribed
LightFollowed == part = "display" => B!LightFollowed
DaemonFollows == part = "xtra" => X!DaemonFollows
TrackingFollows == part = "gnss" => G!TrackingFollows
BatchingFollows == part = "batch" => C!BatchingFollows
ReportsFollow == part = "reports" => R!ReportsFollow
=============================================================================
