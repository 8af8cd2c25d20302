------------------------------ MODULE Batching ------------------------------
(***************************************************************************)
(* The sessions of gps/batching/BatchingAdapter.cpp. A routine session has *)
(* a session of the engine for itself; all trips share one, which counts   *)
(* the distance travelled and reports when the shortest trip is done. A    *)
(* trip that joins, ends or leaves may restart that count, and the adapter *)
(* keeps for each trip what it needs to go on from there.                  *)
(*                                                                         *)
(* As in Tracking, a client has one session, which stands for it; calls to *)
(* the engine are answered by messages that run their continuations.       *)
(* Capabilities are known and the batching callback is set.                *)
(***************************************************************************)
EXTENDS Integers, FiniteSets, Sequences, SequencesExt, FiniteSetsExt, Functions

CONSTANTS
  Session,                 \* the sessions, numbered in the order of the maps
  Asks,                    \* the options each client asks for
  None,
  Modulus,                 \* distances are unsigned: 2^32 in the code
  MaxInFlight,             \* bound: messages and calls under way at a command
  MaxEvents                \* bound: updates, failures and restarts together

Mode == {"routine", "noAutoReport", "trip"}
BatchingOptions == [mode : Mode, distance : Nat, interval : Nat]

ASSUME BatchingAssumption ==
  /\ Session \subseteq Nat /\ \A s \in Session : Asks[s] \subseteq BatchingOptions
  /\ None \notin BatchingOptions /\ Modulus \in Nat
  /\ \A s \in Session : \A o \in Asks[s] : 2 * o.distance < Modulus
  /\ {MaxInFlight, MaxEvents} \subseteq Nat

VARIABLES
  adapter,                 \* the members of BatchingAdapter, see below
  calls,                   \* calls the engine has not executed
  queue,                   \* the adapter's messages
  engine,                  \* routine: sessions; trip: distance to report at,
                           \* interval, distance travelled; or None
  client,                  \* "new", "on", "off" or "leaving", "gone"
  owed,                    \* answers the client waits for
  travelled,               \* distance travelled since a trip began
  early,                   \* trips reported before their distance
  crossed,                 \* trips changed while the engine answered for others
  events                   \* updates, failures and restarts so far

vars == <<adapter, calls, queue, engine, client, owed, travelled, early,
          crossed, events>>

Empty == [s \in {} |-> None]
With(f, s, v) == [t \in DOMAIN f \cup {s} |-> IF t = s THEN v ELSE f[t]]
Without(f, s) == Restrict(f, DOMAIN f \ {s})
DefaultOptions == [mode |-> "routine", distance |-> 0, interval |-> 0]

\* sessions: mBatchingSessions, trips: mTripSessions, distance and interval:
\* mOngoingTripDistance and mOngoingTripTBFInterval, dropped: the two flags
\* mTripWithOngoing*Dropped, batchFull: BATCH_FULL is in the event mask
Init ==
  /\ adapter = [sessions |-> Empty, trips |-> Empty, distance |-> 0,
                interval |-> 0, dropped |-> {}, batchFull |-> FALSE,
                stray |-> FALSE]
  /\ calls = <<>> /\ queue = <<>>
  /\ engine = [routine |-> {}, trip |-> None]
  /\ client = [s \in Session |-> "new"]
  /\ owed = [s \in Session |-> 0]
  /\ travelled = [s \in Session |-> 0] /\ early = {} /\ crossed = FALSE
  /\ events = [update |-> 0, failure |-> 0, restart |-> 0]
------------------------------------------------------------------------------
(* A handler maps a state of the adapter to the next one, with the calls it *)
(* makes, the sessions it answers and whether it read what is undefined.    *)

of(a) == [a |-> a, calls |-> <<>>, answers |-> <<>>, undefined |-> FALSE,
          fresh |-> {}]
call(h, c) == [h EXCEPT !.calls = Append(@, c)]
reportResponse(h, s) == [h EXCEPT !.answers = Append(@, s)]

callTo(what, s, o, then, saved) ==
  [what |-> what, session |-> s, options |-> o, then |-> then, saved |-> saved]

autoReportBatchingSessionsCount(a) ==
  Cardinality({s \in DOMAIN a.sessions : a.sessions[s].mode # "noAutoReport"})
  + Cardinality(DOMAIN a.trips)

register(h) ==
  IF autoReportBatchingSessionsCount(h.a) = 0 THEN [h EXCEPT !.a.batchFull = TRUE]
  ELSE h
unregister(h) ==
  IF autoReportBatchingSessionsCount(h.a) = 0 THEN [h EXCEPT !.a.batchFull = FALSE]
  ELSE h
saveBatchingSession(h, s, o) == [h EXCEPT !.a.sessions = With(@, s, o)]
eraseBatchingSession(h, s)   == [h EXCEPT !.a.sessions = Without(@, s)]
------------------------------------------------------------------------------
(* Routine sessions. *)

startBatching(h, s, o) ==
  LET g == IF o.mode # "noAutoReport" THEN register(h) ELSE h
  IN call(saveBatchingSession(g, s, o), callTo("start", s, o, "started", None))

started(h, s, o, ok) ==
  LET g == eraseBatchingSession(h, s)
  IN reportResponse(IF ok THEN h
                    ELSE IF o.mode # "noAutoReport" THEN unregister(g) ELSE g, s)

\* update is None for a stop, else the options to start again with
stopBatching(h, s, update) ==
  IF s \notin DOMAIN h.a.sessions THEN h
  ELSE call(eraseBatchingSession(h, s),
            callTo("stop", s, update, "stopped", h.a.sessions[s]))
------------------------------------------------------------------------------
(* Trips. *)

minus(x, y) == (x - y) % Modulus
count(t, acc) == (t.onTripRestart + minus(acc, t.ongoingBatch)) % Modulus
remaining(t) == minus(t.tripDistance, t.thisTrip)

\* the minimum over the map, where 0 counts as not set yet
minimum(f) ==
  LET ids == SetToSortSeq(DOMAIN f, <)
  IN FoldLeft(LAMBDA m, s : IF m = 0 \/ m > f[s] THEN f[s] ELSE m, 0, ids)
minRemaining(trips) == minimum([s \in DOMAIN trips |-> remaining(trips[s])])
minInterval(trips)  == minimum([s \in DOMAIN trips |-> trips[s].tripInterval])

trip(o, acc) == [ongoingBatch |-> acc, thisTrip |-> 0, onTripRestart |-> 0,
                 tripDistance |-> o.distance, tripInterval |-> o.interval]
ongoing(d, i) == [mode |-> "trip", distance |-> d, interval |-> i]

startTripBatchingMultiplex(h, s, o) ==
  IF DOMAIN h.a.trips # {} THEN call(h, callTo("query", s, o, "joined", None))
  ELSE LET g == saveBatchingSession(register(h), s, o)
       IN call([g EXCEPT !.a.trips = With(@, s, trip(o, 0)), !.fresh = {s}],
               callTo("startTrip", s, o, "tripStarted", None))

tripStarted(h, s, o, ok) ==
  LET g == eraseBatchingSession([h EXCEPT !.a.trips = Without(@, s)], s)
  IN reportResponse(
       IF ok THEN [h EXCEPT !.a.distance = o.distance, !.a.interval = o.interval]
       ELSE unregister(g), s)

\* a second trip: acc is what the engine travelled since its last start
joined(h, s, o, ok, acc) ==
  LET rest     == IF ok THEN minus(h.a.distance, acc) ELSE h.a.distance
      faster   == o.interval < h.a.interval
      nearer   == o.distance < rest
      distance == IF nearer THEN o.distance ELSE rest
      interval == IF faster THEN o.interval ELSE h.a.interval
      trips    == IF ok THEN With(h.a.trips, s, trip(o, acc)) ELSE h.a.trips
      counted  == [t \in DOMAIN trips |->
                     [trips[t] EXCEPT !.ongoingBatch = 0,
                                      !.onTripRestart = trips[t].thisTrip]]
  IN IF faster \/ nearer
     THEN call([h EXCEPT !.a.distance = distance, !.a.interval = interval,
                         !.a.trips = counted],
               callTo("restart", s, ongoing(distance, interval), "joinRestarted", None))
     ELSE reportResponse([h EXCEPT !.a.trips = trips], s)

restartTripBatching_EngineLeft(h, byQuery, acc) ==
  IF DOMAIN h.a.trips = {}
  THEN unregister([h EXCEPT !.a.distance = 0, !.a.interval = 0])
  ELSE call(h, callTo("query", None,
                      ongoing(minRemaining(h.a.trips), minInterval(h.a.trips)),
                      "requeried", [byQuery |-> byQuery, acc |-> acc]))

\* byQuery: count with the answer of the query, not with acc
restartTripBatching(h, byQuery, acc) ==
  IF DOMAIN h.a.trips = {}
  THEN unregister(call([h EXCEPT !.a.distance = 0, !.a.interval = 0],
                       callTo("stopTrip", None, None, "none", None)))
  ELSE call(h, callTo("query", None,
                      ongoing(minRemaining(h.a.trips), minInterval(h.a.trips)),
                      "requeried", [byQuery |-> byQuery, acc |-> acc]))

requeried_OnlyNearer(h, min, saved, answer) ==
  LET acc == IF saved.byQuery THEN answer ELSE saved.acc
  IN IF min.distance < minus(h.a.distance, acc) \/ min.interval < h.a.interval
     THEN call(h, callTo("restart", None, min, "restarted", acc))
     ELSE h

requeried(h, min, saved, answer) ==
  LET acc      == IF saved.byQuery THEN answer ELSE saved.acc
      rest     == minus(h.a.distance, acc)
      under    == "distance" \notin h.a.dropped /\ rest # 0
      nearer   == IF under THEN min.distance < rest ELSE min.distance # 0
      faster   == \/ min.interval < h.a.interval
                  \/ min.interval # h.a.interval /\ "interval" \in h.a.dropped
      distance == IF nearer THEN min.distance ELSE h.a.distance
      interval == IF faster THEN min.interval ELSE h.a.interval
  IN IF nearer \/ faster
     THEN call(h, callTo("restart", None, ongoing(distance, interval),
                         "restarted", acc))
     ELSE h

restarted(h, now, acc, ok) ==
  LET trips == h.a.trips
  IN IF ~ok THEN h
     ELSE [h EXCEPT !.a.distance = now.distance, !.a.interval = now.interval,
             !.a.trips = [s \in DOMAIN trips |->
                [trips[s] EXCEPT !.thisTrip = count(trips[s], acc),
                                 !.ongoingBatch = 0,
                                 !.onTripRestart = count(trips[s], acc)]]]

startAgain(h, s, o) ==
  IF o.mode = "trip" THEN startTripBatchingMultiplex(h, s, o) ELSE startBatching(h, s, o)

\* An unknown session is dereferenced all the same.
stopTripBatchingMultiplexCommon(h, s, update) ==
  LET known   == s \in DOMAIN h.a.trips
      dropped == {x \in {"distance", "interval"} :
                    known /\ h.a.trips[s][IF x = "distance" THEN "tripDistance"
                                          ELSE "tripInterval"] = h.a[x]}
      g == [h EXCEPT !.a.trips = Without(@, s), !.a.dropped = @ \cup dropped,
                     !.a.stray = @ \/ ~known, !.undefined = @ \/ ~known]
      f == IF DOMAIN g.a.trips = {} THEN [g EXCEPT !.a.distance = 0, !.a.interval = 0]
           ELSE restartTripBatching(g, TRUE, 0)
  IN reportResponse(IF update = None THEN f
                    ELSE startAgain(eraseBatchingSession(f, s), s, update), s)

stopTripBatchingMultiplex_AnswersFirst(h, s, update) ==
  IF Cardinality(DOMAIN h.a.trips) = 1
  THEN reportResponse(call(h, callTo("stopTrip", s, update, "tripStopped", None)), s)
  ELSE stopTripBatchingMultiplexCommon(h, s, update)

stopTripBatchingMultiplex(h, s, update) ==
  IF Cardinality(DOMAIN h.a.trips) = 1
  THEN call(h, callTo("stopTrip", s, update, "tripStopped", None))
  ELSE stopTripBatchingMultiplexCommon(h, s, update)

tripStopped(h, s, update, ok) ==
  stopTripBatchingMultiplexCommon(
    IF ok /\ autoReportBatchingSessionsCount(h.a) = 1
    THEN [h EXCEPT !.a.batchFull = FALSE] ELSE h, s, update)

stopped(h, s, update, old, ok) ==
  LET g == IF old.mode # "noAutoReport" THEN unregister(h) ELSE h
  IN reportResponse(
       IF ~ok THEN saveBatchingSession(h, s, IF update = None THEN DefaultOptions
                                             ELSE update)
       ELSE IF update = None THEN g ELSE startAgain(g, s, update), s)
------------------------------------------------------------------------------
(* Messages. *)

MsgStartBatching(h, s, o) == startAgain(h, s, o)

\* neither an update nor a stop of an unknown session is answered
MsgUpdateBatching(h, s, o) ==
  IF s \notin DOMAIN h.a.sessions THEN h
  ELSE IF s \in DOMAIN h.a.trips THEN stopTripBatchingMultiplex(h, s, o)
  ELSE stopBatching(h, s, o)

MsgStopBatching(h, s) ==
  IF s \notin DOMAIN h.a.sessions THEN h
  ELSE IF s \in DOMAIN h.a.trips THEN stopTripBatchingMultiplex(h, s, None)
  ELSE stopBatching(h, s, None)

\* stopClientSessions goes by the mode, then the event mask is set anew
MsgRemoveClient(h, s) ==
  LET g == IF s \notin DOMAIN h.a.sessions THEN h
           ELSE IF h.a.sessions[s].mode = "trip"
                THEN stopTripBatchingMultiplex(h, s, None)
           ELSE stopBatching(h, s, None)
  IN [g EXCEPT !.a.batchFull = autoReportBatchingSessionsCount(g.a) > 0]

completed(a, acc) == {s \in DOMAIN a.trips : a.trips[s].tripDistance <= count(a.trips[s], acc)}

\* the flags are computed from trips already erased
MsgReportCompletedTrips(h, acc) ==
  LET trips == h.a.trips
      done  == completed(h.a, acc)
      g == [h EXCEPT !.a.trips =
              [s \in DOMAIN trips \ done |->
                 [trips[s] EXCEPT !.thisTrip = count(trips[s], acc)]]]
  IN IF done = {} THEN g
     ELSE [restartTripBatching(g, FALSE, acc) EXCEPT !.undefined = TRUE]

\* restartSessions; the distance travelled is reset in a copy of each trip only
MsgSSREvent(h) ==
  LET routine == SetToSortSeq({s \in DOMAIN h.a.sessions :
                                 h.a.sessions[s].mode # "trip"}, <)
      d == minRemaining(h.a.trips)
      i == minInterval(h.a.trips)
      g == [h EXCEPT !.a.batchFull = @ \/ autoReportBatchingSessionsCount(h.a) > 0,
                     !.calls = @ \o [n \in 1..Len(routine) |->
                         callTo("start", routine[n], h.a.sessions[routine[n]],
                                "none", None)]]
  IN IF DOMAIN h.a.trips = {} THEN g
     ELSE call([g EXCEPT !.a.distance = d, !.a.interval = i],
               callTo("startTrip", None, ongoing(d, i), "tripRestarted", None))

tripRestarted(h, ok) ==
  IF ok THEN h ELSE [h EXCEPT !.a.distance = 0, !.a.interval = 0]

Response(h, c, ok, acc) ==
  CASE c.then = "started"       -> started(h, c.session, c.options, ok)
    [] c.then = "stopped"       -> stopped(h, c.session, c.options, c.saved, ok)
    [] c.then = "tripStarted"   -> tripStarted(h, c.session, c.options, ok)
    [] c.then = "joined"        -> joined(h, c.session, c.options, ok, acc)
    [] c.then = "joinRestarted" -> reportResponse(h, c.session)
    [] c.then = "requeried"     -> requeried(h, c.options, c.saved, acc)
    [] c.then = "restarted"     -> restarted(h, c.options, c.saved, ok)
    [] c.then = "tripStopped"   -> tripStopped(h, c.session, c.options, ok)
    [] c.then = "tripRestarted" -> tripRestarted(h, ok)
------------------------------------------------------------------------------
(* The message task. *)

\* Calls for the trips overlap when one is made before another is answered.
\* The memory of erased trips, read for the flags, holds anything.
tripCalls(s) == SelectSeq(s, LAMBDA c : c.what \in {"startTrip", "restart", "stopTrip", "query"})
tripsUnderway == tripCalls(calls) # <<>> \/ \E i \in DOMAIN queue' :
                   queue'[i][1] = "response" /\ tripCalls(<<queue'[i][2]>>) # <<>>
becomes(h) ==
  /\ \E junk \in IF h.undefined THEN SUBSET {"distance", "interval"} ELSE {{}} :
       adapter' = [h.a EXCEPT !.dropped = @ \cup junk]
  /\ calls' = calls \o h.calls
  /\ crossed' = \/ crossed
                \/ Len(tripCalls(h.calls)) > 1
                \/ tripCalls(h.calls) # <<>> /\ tripsUnderway
  /\ travelled' = [s \in Session |-> IF s \in h.fresh THEN 0 ELSE travelled[s]]
  /\ owed' = [s \in Session |->
                owed[s] - Len(SelectSeq(h.answers, LAMBDA t : t = s /\ client[t] # "gone"))]

begin(type) ==
  queue # <<>> /\ Head(queue)[1] = type /\ queue' = Tail(queue)

Start ==
  /\ begin("start")
  /\ becomes(MsgStartBatching(of(adapter), Head(queue)[2], Head(queue)[3]))
  /\ UNCHANGED <<engine, client, early, events>>

Update ==
  /\ begin("update")
  /\ becomes(MsgUpdateBatching(of(adapter), Head(queue)[2], Head(queue)[3]))
  /\ UNCHANGED <<engine, client, early, events>>

Stop ==
  /\ begin("stop") /\ becomes(MsgStopBatching(of(adapter), Head(queue)[2]))
  /\ UNCHANGED <<engine, client, early, events>>

RemoveClient ==
  /\ begin("remove") /\ becomes(MsgRemoveClient(of(adapter), Head(queue)[2]))
  /\ client' = [client EXCEPT ![Head(queue)[2]] = "gone"]
  /\ UNCHANGED <<engine, early, events>>

Continue ==
  /\ begin("response")
  /\ becomes(Response(of(adapter), Head(queue)[2], Head(queue)[3], Head(queue)[4]))
  /\ UNCHANGED <<engine, client, early, events>>

CompletedTrips ==
  /\ begin("completed")
  /\ becomes(MsgReportCompletedTrips(of(adapter), Head(queue)[2]))
  /\ early' = early \cup {s \in completed(adapter, Head(queue)[2]) :
                            travelled[s] < adapter.trips[s].tripDistance}
  /\ UNCHANGED <<engine, client, events>>

EngineUp ==
  /\ begin("ssr") /\ becomes(MsgSSREvent(of(adapter)))
  /\ UNCHANGED <<engine, client, early, events>>

Task == Start \/ Update \/ Stop \/ RemoveClient \/ Continue \/ CompletedTrips \/ EngineUp
------------------------------------------------------------------------------
(* The clients. *)

occurs(kind) ==
  /\ events.update + events.failure + events.restart < MaxEvents
  /\ events' = [events EXCEPT ![kind] = @ + 1]
inFlight == Len(queue) + Len(calls)
command(s, message) ==
  /\ inFlight < MaxInFlight
  /\ queue' = Append(queue, message)
  /\ UNCHANGED <<adapter, calls, engine, travelled, early, crossed>>

startBatchingCommand(s, o) ==
  /\ client[s] = "new" /\ client' = [client EXCEPT ![s] = "on"]
  /\ owed' = [owed EXCEPT ![s] = @ + 1] /\ UNCHANGED events
  /\ command(s, <<"start", s, o>>)

updateBatchingOptionsCommand(s, o) ==
  /\ client[s] = "on" /\ occurs("update")
  /\ owed' = [owed EXCEPT ![s] = @ + 1] /\ UNCHANGED client
  /\ command(s, <<"update", s, o>>)

stopBatchingCommand(s) ==
  /\ client[s] = "on" /\ client' = [client EXCEPT ![s] = "off"]
  /\ owed' = [owed EXCEPT ![s] = @ + 1] /\ UNCHANGED events
  /\ command(s, <<"stop", s, None>>)

removeClientCommand(s) ==
  /\ client[s] \in {"on", "off"}
  /\ client' = [client EXCEPT ![s] = "leaving"]
  /\ UNCHANGED <<owed, events>>
  /\ command(s, <<"remove", s, None>>)

Clients ==
  \E s \in Session :
    \/ \E o \in Asks[s] : \/ startBatchingCommand(s, o)
                          \/ updateBatchingOptionsCommand(s, o)
    \/ stopBatchingCommand(s) \/ removeClientCommand(s)
------------------------------------------------------------------------------
(* The engine (external). *)

runs(o) == [distance |-> o.distance, interval |-> o.interval, acc |-> 0]
accumulated == IF engine.trip = None THEN 0 ELSE engine.trip.acc
execute(c) ==
  CASE c.what = "start" -> [engine EXCEPT !.routine = @ \cup {c.session}]
    [] c.what = "stop"  -> [engine EXCEPT !.routine = @ \ {c.session}]
    [] c.what \in {"startTrip", "restart"} -> [engine EXCEPT !.trip = runs(c.options)]
    [] c.what = "stopTrip" -> [engine EXCEPT !.trip = None]
    [] c.what = "query" -> engine

EngineCall(ok, acc) ==
  /\ calls # <<>> /\ calls' = Tail(calls)
  /\ queue' = IF Head(calls).then = "none" THEN queue
              ELSE Append(queue, <<"response", Head(calls), ok, acc>>)
  /\ UNCHANGED <<adapter, client, owed, early, crossed>>

EngineExecutes ==
  /\ EngineCall(TRUE, accumulated)
  /\ engine' = execute(Head(calls)) /\ UNCHANGED events
  /\ travelled' = IF Head(calls).then = "joined"
                  THEN [travelled EXCEPT ![Head(calls).session] = 0] ELSE travelled

EngineFails ==
  /\ EngineCall(FALSE, 0)
  /\ occurs("failure")
  /\ UNCHANGED <<engine, travelled>>

joining(s) == \E i \in DOMAIN queue :
  queue[i][1] = "response" /\ queue[i][2].then = "joined" /\ queue[i][2].session = s
travelling(s) ==
  /\ s \in DOMAIN adapter.trips \/ joining(s)
  /\ \E o \in Asks[s] : travelled[s] < o.distance

\* one unit of the way; the engine reports once, when its distance is reached
Travel ==
  /\ engine.trip # None /\ engine.trip.acc < engine.trip.distance
  /\ engine' = [engine EXCEPT !.trip.acc = @ + 1]
  /\ travelled' = [s \in Session |-> IF travelling(s) THEN travelled[s] + 1
                                     ELSE travelled[s]]
  /\ queue' = IF engine'.trip.acc < engine.trip.distance THEN queue
              ELSE Append(queue, <<"completed", engine'.trip.acc>>)
  /\ UNCHANGED <<adapter, calls, client, owed, early, crossed, events>>

ModemRestarts ==
  /\ occurs("restart") /\ calls = <<>>
  /\ engine' = [routine |-> {}, trip |-> None]
  /\ queue' = Append(queue, <<"ssr">>)
  /\ UNCHANGED <<adapter, calls, client, owed, travelled, early, crossed>>

Next == Task \/ Clients \/ EngineExecutes \/ EngineFails \/ Travel \/ ModemRestarts
Fairness == WF_vars(Task) /\ WF_vars(EngineExecutes) /\ WF_vars(Travel)
Spec == Init /\ [][Next]_vars /\ Fairness
------------------------------------------------------------------------------
(* Properties. *)

(* Two things the code does not survive, and what is asked below stops at: a *)
(* call for the trips made while another is under way (a trip that starts     *)
(* while the last other one is stopped joins a batch that is gone), and a     *)
(* stop of a trip that is no longer there.                                    *)
Clean == ~crossed /\ ~adapter.stray /\ events.failure = 0
Idle == queue = <<>> /\ calls = <<>>

\* Once nothing is under way, the engine batches for the routine sessions the
\* adapter knows and no other, and for trips just when there are trips.
EngineBatches ==
  Idle /\ events.failure = 0 =>
    /\ engine.routine = {s \in DOMAIN adapter.sessions :
                           adapter.sessions[s].mode # "trip"}
    /\ Clean => (engine.trip # None <=> DOMAIN adapter.trips # {})

\* Trips that share one engine session each keep going: the engine samples at
\* least as often as each asked, and has a report yet to come for them.
TripsGoOn ==
  Idle /\ Clean =>
    \A s \in DOMAIN adapter.trips :
      /\ engine.trip.interval <= adapter.trips[s].tripInterval
      /\ events.restart = 0 => engine.trip.acc < engine.trip.distance

\* However often the count of the engine restarts, no trip is reported
\* complete before its distance was travelled.
NeverEarly == Clean /\ events.restart = 0 => early = {}

\* While a session wants full batches or a trip runs, BATCH_FULL is registered.
Registered ==
  Clean /\ (\/ DOMAIN adapter.trips # {}
            \/ \E s \in DOMAIN adapter.sessions : adapter.sessions[s].mode = "routine")
    => adapter.batchFull

\* Who asked for batches gets them: from the engine, and reported.
BatchesReach == EngineBatches /\ Registered

\* A trip is neither cut short nor left behind.
TripsKept == TripsGoOn /\ NeverEarly

\* A start or stop is answered at most once, whatever overlaps and fails. (An
\* update is answered twice, and an unknown session never.)
AnsweredOnce == \A s \in Session :
  events.update = 0 /\ client[s] \in {"on", "off"} => owed[s] >= 0
=============================================================================
