----------------------------- MODULE GnssClient -----------------------------
(***************************************************************************)
(* A framework, its callbacks and its tracking session: Gnss.cpp and       *)
(* GnssAPIClient.cpp over the tracking requests of LocationAPIClientBase.cpp. *)
(* An answer is matched to the oldest request of its session, while the    *)
(* adapter answers some calls at once and others behind the engine.  The   *)
(* session is time based, and other clients may make an answer immediate.  *)
(***************************************************************************)
EXTENDS Integers, Sequences

CONSTANTS
  Option,                  \* intervals and power modes of setPositionMode
  MaxSessions,             \* bound: sessions that are started
  MaxCalls,                \* bound: calls that wait for their answers
  MaxFrameworks,           \* bound: incarnations of the framework
  None

VARIABLES
  framework,               \* its incarnation, and the one that set the callbacks
  callbacks,
  obituary,                \* serviceDied is to be called
  wants,                   \* the last call was a start
  mTrackingOptions,
  mTracking,               \* of LocationAPIClientBase; that of GnssAPIClient is
                           \* what drops positions
  session,                 \* of mRequestQueues[REQUEST_TRACKING], and the requests
  queue,
  calls,                   \* messages for the task of the adapter
  engine,                  \* calls that wait for the engine
  live,                    \* mTimeBasedTrackingSessions: session -> options
  status,                  \* the framework was told of a session
  \* history: the last start failed, or an update; an answer was given to another
  \* request, or a session was stopped in the engine's despite; requests were
  \* dropped since the framework was told last; a failed update restored a session
  \* that had been stopped; a death was noticed late
  failed, shifted, dropped, revived, lateDeath

client == <<mTrackingOptions, mTracking, session, queue>>
clientHistory == <<failed, shifted, dropped, revived, lateDeath>>
vars == <<framework, callbacks, obituary, wants, client, calls, engine, live, status,
          clientHistory>>

Session == 1..MaxSessions
running == {s \in Session : live[s] # None}

Init ==
  /\ framework = 1 /\ callbacks = 0 /\ obituary = FALSE /\ wants = FALSE
  /\ mTrackingOptions \in Option /\ mTracking = FALSE /\ session = 0 /\ queue = <<>>
  /\ calls = <<>> /\ engine = <<>> /\ live = [s \in Session |-> None] /\ status = FALSE
  /\ failed = {} /\ shifted = FALSE /\ dropped = FALSE /\ revived = FALSE /\ lateDeath = FALSE
------------------------------------------------------------------------------
(* The framework, on threads of the binder.                                *)

room == Len(calls) + Len(engine) < MaxCalls
call(fn, s, option) == calls' = Append(calls, [fn |-> fn, session |-> s, option |-> option])

setCallback ==
  /\ callbacks # framework /\ callbacks' = framework
  /\ UNCHANGED <<framework, obituary, wants, client, calls, engine, live, status,
                 clientHistory>>

\* gnssStart() and locAPIStartTracking(): the requests of the session before are
\* dropped, whether they were answered or not
start ==
  /\ room /\ callbacks = framework /\ wants' = TRUE
  /\ IF mTracking
     THEN UNCHANGED <<client, calls, failed, dropped>>
     ELSE /\ session < MaxSessions
          /\ session' = session + 1 /\ queue' = <<[fn |-> "start", session |-> session + 1]>>
          /\ call("start", session + 1, mTrackingOptions)
          /\ mTracking' = TRUE /\ failed' = {} /\ dropped' = (dropped \/ queue # <<>>)
          /\ UNCHANGED mTrackingOptions
  /\ UNCHANGED <<framework, callbacks, obituary, engine, live, status, shifted, revived,
                 lateDeath>>

\* gnssStop() and locAPIStopTracking(): the session keeps its number
stopTracking ==
  IF session > 0
  THEN /\ queue' = Append(queue, [fn |-> "stop", session |-> session])
       /\ call("stop", session, None) /\ mTracking' = FALSE
  ELSE UNCHANGED <<queue, calls, mTracking>>
stop ==
  /\ room /\ callbacks = framework /\ wants' = FALSE /\ stopTracking
  /\ UNCHANGED <<framework, callbacks, obituary, mTrackingOptions, session, engine, live, status,
                 clientHistory>>

\* gnssSetPositionMode() and locAPIUpdateTrackingOptions()
setPositionMode(option) ==
  /\ room /\ callbacks = framework /\ option # mTrackingOptions /\ mTrackingOptions' = option
  /\ IF session > 0
     THEN /\ queue' = Append(queue, [fn |-> "update", session |-> session])
          /\ call("update", session, option)
     ELSE UNCHANGED <<queue, calls>>
  /\ UNCHANGED <<framework, callbacks, obituary, wants, mTracking, session, engine, live, status,
                 clientHistory>>

frameworkDies ==
  /\ framework < MaxFrameworks /\ callbacks = framework /\ ~obituary
  /\ framework' = framework + 1 /\ obituary' = TRUE /\ wants' = FALSE
  /\ UNCHANGED <<callbacks, client, calls, engine, live, status, clientHistory>>

\* cleanup(): the new framework may have started already
serviceDied ==
  /\ room /\ obituary /\ obituary' = FALSE
  /\ stopTracking /\ lateDeath' = (lateDeath \/ wants)
  /\ UNCHANGED <<framework, callbacks, wants, mTrackingOptions, session, engine, live, status,
                 failed, shifted, dropped, revived>>
------------------------------------------------------------------------------
(* The task of the adapter; answers reach the client on it.                *)

untold == UNCHANGED <<queue, status, shifted, dropped>>
answerHead(fn, ok) ==
  LET request == Head(queue)
  IN /\ queue' = Tail(queue)
     /\ shifted' = (shifted \/ fn # request.fn \/ (fn = "stop" /\ ~ok))
     /\ IF ok /\ request.fn # "update"
        THEN status' = (request.fn = "start") /\ dropped' = FALSE
        ELSE UNCHANGED <<status, dropped>>

\* onResponseCb(): the oldest request of the session is told; answers of earlier
\* sessions find none
respond_AnySession(fn, s, ok) == IF queue = <<>> THEN untold ELSE answerHead(fn, ok)
respond(fn, s, ok) == IF s # session \/ queue = <<>> THEN untold ELSE answerHead(fn, ok)

\* at once when another client's session already runs as this one needs it
answersOrAsks(c, others) ==
  \/ others /\ respond(c.fn, c.session, TRUE) /\ UNCHANGED engine
  \/ engine' = Append(engine, [c EXCEPT !.option = live[c.session]]) /\ untold

next(fn) == calls # <<>> /\ Head(calls).fn = fn /\ calls' = Tail(calls)
adapterOnly == <<framework, callbacks, obituary, wants, mTrackingOptions, mTracking, session>>

MsgStartTracking ==
  LET c == Head(calls)
  IN /\ next("start")
     /\ live' = [live EXCEPT ![c.session] = c.option]
     /\ answersOrAsks(c, TRUE)
     /\ UNCHANGED <<adapterOnly, failed, revived, lateDeath>>

MsgUpdateTracking ==
  LET c == Head(calls)
  IN /\ next("update")
     /\ IF live[c.session] = None
        THEN respond("update", c.session, FALSE) /\ UNCHANGED <<live, engine>>
        ELSE /\ live' = [live EXCEPT ![c.session] = c.option]
             /\ answersOrAsks(c, TRUE)
     /\ UNCHANGED <<adapterOnly, failed, revived, lateDeath>>

\* the session is erased before the engine has stopped
MsgStopTracking ==
  LET c == Head(calls)
  IN /\ next("stop")
     /\ IF live[c.session] = None
        THEN respond("stop", c.session, FALSE) /\ UNCHANGED <<live, engine>>
        ELSE live' = [live EXCEPT ![c.session] = None] /\ answersOrAsks(c, TRUE)
     /\ UNCHANGED <<adapterOnly, failed, revived, lateDeath>>

engineAnswers(ok) ==
  LET c == Head(engine)
      restored == c.fn = "update" /\ ~ok
  IN /\ engine # <<>> /\ engine' = Tail(engine)
     /\ live' = CASE c.fn = "start" /\ ~ok -> [live EXCEPT ![c.session] = None]
                  [] restored -> [live EXCEPT ![c.session] = c.option]
                  [] OTHER -> live
     /\ failed' = IF ok \/ c.session # session THEN failed ELSE failed \cup {c.fn}
     /\ revived' = (revived \/ (restored /\ live[c.session] = None))
     /\ respond(c.fn, c.session, ok)
     /\ UNCHANGED <<adapterOnly, calls, lateDeath>>
------------------------------------------------------------------------------
Next ==
  \/ setCallback \/ start \/ stop \/ frameworkDies \/ serviceDied
  \/ \E option \in Option : setPositionMode(option)
  \/ MsgStartTracking \/ MsgUpdateTracking \/ MsgStopTracking
  \/ \E ok \in BOOLEAN : engineAnswers(ok)

Spec == Init /\ [][Next]_vars
------------------------------------------------------------------------------
(* Properties. *)

atRest == calls = <<>> /\ engine = <<>> /\ ~obituary

\* When all is answered, the adapter runs the last session of the framework
\* exactly if that was not stopped since, with the options set last.  But a start
\* that failed is not repeated before a stop; the failure of an update may put
\* back an older session or its options; and the death of a framework, noticed
\* late, stops the session of the next one.
SessionFollows ==
  atRest =>
    /\ ~revived => running \subseteq {session} /\ (~wants => running = {})
    /\ wants /\ "start" \notin failed /\ ~lateDeath => session \in running
    /\ session \in running /\ failed = {} => live[session] = mTrackingOptions

\* The framework was told so, unless an answer overtook that of an earlier call,
\* or the engine refused to stop.
StatusFollows ==
  atRest => queue = <<>> /\ (~shifted /\ ~dropped /\ ~revived => status = (running # {}))

TrackingFollows == SessionFollows /\ StatusFollows
=============================================================================
