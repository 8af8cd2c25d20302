--------------------------- MODULE BatchingClient ---------------------------
(***************************************************************************)
(* The batching session of the framework: GnssBatching.cpp and             *)
(* BatchingAPIClient.cpp over the sessions of LocationAPIClientBase.cpp,   *)
(* and the answers of BatchingAdapter.cpp.  All calls share one identifier *)
(* and one queue of requests; an answer is given to the oldest request,    *)
(* whatever its call was.                                                  *)
(***************************************************************************)
EXTENDS Integers, Sequences

CONSTANTS
  MaxSessions,             \* bound: sessions that are started
  MaxCalls,                \* bound: calls that wait for their answers
  None

VARIABLES
  mState, cached,          \* mBatchedLocationInCache holds something
  wants, flushed,          \* the last call was a start; a flush waits for its report
  stopping,                \* stopSession has asked for the locations
  session,                 \* the sessions started so far
  dict,                    \* mSessionBiDict: the session of the identifier, 0 when
                           \* made up, and the sessions known
  requests,                \* mRequestQueues[REQUEST_SESSION]
  removing,                \* removeSession has found this session
  threads,                 \* empty batches of flushBatchedLocations
  calls,                   \* messages for the task of the adapter
  engine,                  \* calls that wait for the engine
  known,                   \* mBatchingSessions
  running,                 \* sessions of the engine
  \* history: a start found the session before; an answer found its session gone,
  \* or overtook those of calls made before; the engine refused a call; a stop
  \* found no session
  swallowed, gone, overtaken, failed, idle

framework == <<mState, cached, wants, flushed, stopping>>
client == <<session, dict, requests>>
adapter == <<calls, engine, known, running>>
history == <<swallowed, gone, overtaken, failed, idle>>
vars == <<framework, client, removing, threads, adapter, history>>

Init ==
  /\ mState = "STOPPED" /\ cached = FALSE /\ wants = FALSE /\ flushed = FALSE
  /\ stopping = FALSE /\ session = 0 /\ dict = [forward |-> None, backward |-> {}]
  /\ requests = <<>> /\ removing = None /\ threads = 0
  /\ calls = <<>> /\ engine = <<>> /\ known = {} /\ running = {}
  /\ swallowed = FALSE /\ gone = FALSE /\ overtaken = FALSE
  /\ failed = FALSE /\ idle = FALSE
------------------------------------------------------------------------------
(* The framework, on a thread of the binder.                               *)

\* bound: no call is made when answers are mixed up, for no property speaks then
mixed == gone \/ overtaken
room == ~stopping /\ ~mixed /\ Len(calls) + Len(engine) < MaxCalls
call(fn, s) == calls' = Append(calls, [fn |-> fn, session |-> s])
push(fn) == requests' = Append(requests, fn)

rmBySession_ForwardKept(d, s) == [d EXCEPT !.backward = @ \ {s}]
rmBySession(d, s) ==
  [forward |-> IF s \in d.backward /\ d.forward # None THEN None ELSE d.forward,
   backward |-> d.backward \ {s}]

start ==
  /\ room /\ mState' = "STARTED" /\ wants' = TRUE
  /\ IF dict.forward # None
     THEN swallowed' = TRUE /\ UNCHANGED <<client, calls>>
     ELSE /\ session < MaxSessions /\ session' = session + 1
          /\ call("start", session + 1) /\ push("start")
          /\ dict' = [forward |-> session + 1, backward |-> dict.backward \cup {session + 1}]
          /\ UNCHANGED swallowed
  /\ UNCHANGED <<cached, flushed, stopping, removing, threads, engine, known, running, gone,
                 overtaken, failed, idle>>

\* hasId() and getExtById(), which makes up an entry of session 0 if
\* removeSession() comes between
getExtById(s) ==
  \/ s = dict.forward /\ UNCHANGED <<dict, removing>>
  \/ /\ s = 0 /\ removing \in dict.backward /\ dict.forward # None
     /\ dict' = [rmBySession(dict, removing) EXCEPT !.forward = 0]
     /\ removing' = None

request(fn) ==
  \E s \in {None} \cup 0..MaxSessions :
    /\ getExtById(s)
    /\ IF s = None THEN UNCHANGED <<requests, calls>> ELSE push(fn) /\ call(fn, s)

update ==
  /\ room /\ request("update")
  /\ UNCHANGED <<framework, session, threads, engine, known, running, swallowed, gone,
                 overtaken, failed, idle>>

\* stopSession(): two calls, between which answers may arrive
stop ==
  /\ room /\ mState' = "STOPPING" /\ wants' = FALSE /\ stopping' = TRUE
  /\ request("get") /\ idle' = (idle \/ dict.forward = None)
  /\ UNCHANGED <<cached, flushed, session, threads, engine, known, running, swallowed, gone,
                 overtaken, failed>>
stopAfterGet ==
  /\ stopping /\ stopping' = FALSE /\ request("stop")
  /\ UNCHANGED <<mState, cached, wants, flushed, session, threads, engine, known, running,
                 swallowed, gone, overtaken, failed, idle>>

flush ==
  /\ room /\ ~flushed /\ flushed' = TRUE /\ request("get")
  /\ threads' = IF dict.forward = None THEN threads + 1 ELSE threads
  /\ UNCHANGED <<mState, cached, wants, stopping, session, engine, known, running, swallowed,
                 gone, overtaken, failed, idle>>
------------------------------------------------------------------------------
(* Reports. *)

\* the locations of a stop wait for those of the next report
onBatchingCb(some) ==
  IF mState = "STOPPING"
  THEN mState' = "STOPPED" /\ cached' = (cached \/ some) /\ UNCHANGED flushed
  ELSE cached' = FALSE /\ flushed' = FALSE /\ UNCHANGED mState

thread ==
  /\ threads > 0 /\ threads' = threads - 1 /\ onBatchingCb(FALSE)
  /\ UNCHANGED <<wants, stopping, client, removing, adapter, history>>
------------------------------------------------------------------------------
(* The task of the adapter; answers reach the client on it. *)

\* getRequestBySession() and onResponse()
respond(s, ok) ==
  IF s \notin dict.backward \/ requests = <<>>
  THEN gone' = TRUE /\ UNCHANGED <<requests, removing>>
  ELSE /\ requests' = Tail(requests) /\ UNCHANGED gone
       /\ removing' = IF Head(requests) = (IF ok THEN "stop" ELSE "start") THEN s ELSE None

removeSession ==
  /\ removing # None /\ removing' = None
  /\ dict' = IF removing \in dict.backward THEN rmBySession(dict, removing) ELSE dict
  /\ UNCHANGED <<framework, session, requests, threads, adapter, history>>

next(fn) == removing = None /\ calls # <<>> /\ Head(calls).fn = fn /\ calls' = Tail(calls)
ask(c) == engine' = Append(engine, c)

MsgStartBatching ==
  LET c == Head(calls)
  IN /\ next("start") /\ known' = known \cup {c.session} /\ ask(c)
     /\ UNCHANGED <<framework, client, removing, threads, running, history>>

\* neither an update nor a stop of an unknown session is answered
stopBatching(fn) ==
  LET c == Head(calls)
  IN /\ next(fn)
     /\ IF c.session \in known
        THEN known' = known \ {c.session} /\ ask(c) /\ UNCHANGED gone
        ELSE gone' = TRUE /\ UNCHANGED <<known, engine>>
     /\ UNCHANGED <<framework, client, removing, threads, running, swallowed, overtaken,
                    failed, idle>>
MsgStopBatching == stopBatching("stop")
MsgUpdateBatching == stopBatching("update")

\* an unknown session is answered before those that wait for the engine
MsgGetBatchedLocations ==
  LET c == Head(calls)
  IN /\ next("get")
     /\ IF c.session \in known
        THEN ask(c) /\ UNCHANGED <<requests, removing, gone, overtaken>>
        ELSE respond(c.session, FALSE) /\ overtaken' = TRUE /\ UNCHANGED engine
     /\ UNCHANGED <<framework, session, dict, threads, known, running, swallowed, failed, idle>>

answer(fn) == removing = None /\ engine # <<>> /\ Head(engine).fn = fn

startAnswered(ok) ==
  LET s == Head(engine).session
  IN /\ answer("start") /\ engine' = Tail(engine)
     /\ IF ok THEN running' = running \cup {s} /\ UNCHANGED known
              ELSE known' = known \ {s} /\ UNCHANGED running
     /\ failed' = (failed \/ ~ok)
     /\ respond(s, ok)
     /\ UNCHANGED <<framework, session, dict, threads, calls, swallowed, overtaken, idle>>

\* an update stops the session, starts it again, and answers twice
stopAnswered(fn, ok) ==
  LET s == Head(engine).session
      again == ok /\ fn = "update"
  IN /\ answer(fn)
     /\ engine' = IF again THEN Append(Tail(engine), [fn |-> "start", session |-> s])
                           ELSE Tail(engine)
     /\ known' = IF ~ok \/ again THEN known \cup {s} ELSE known
     /\ running' = IF ok THEN running \ {s} ELSE running
     /\ failed' = (failed \/ ~ok)
     /\ respond(s, ok)
     /\ UNCHANGED <<framework, session, dict, threads, calls, swallowed, overtaken,
                    idle>>

getAnswered(ok) ==
  /\ answer("get") /\ engine' = Tail(engine)
  /\ IF ok THEN \E some \in BOOLEAN : onBatchingCb(some)
           ELSE UNCHANGED <<mState, cached, flushed>>
  /\ respond(Head(engine).session, ok) /\ failed' = (failed \/ ~ok)
  /\ UNCHANGED <<wants, stopping, session, dict, threads, calls, known, running, swallowed,
                 overtaken, idle>>
------------------------------------------------------------------------------
Next ==
  \/ start \/ update \/ stop \/ stopAfterGet \/ flush \/ thread \/ removeSession
  \/ MsgStartBatching \/ MsgStopBatching \/ MsgUpdateBatching \/ MsgGetBatchedLocations
  \/ \E ok \in BOOLEAN :
       startAnswered(ok) \/ stopAnswered("stop", ok) \/ stopAnswered("update", ok)
       \/ getAnswered(ok)

Spec == Init /\ [][Next]_vars
------------------------------------------------------------------------------
(* Properties. *)

atRest == calls = <<>> /\ engine = <<>> /\ removing = None /\ threads = 0 /\ ~stopping

\* When all is answered, to the requests that asked for it, the identifier stands
\* for the session of the engine, and there is one exactly if the framework started
\* last.  But a start is dropped, and reported as done, while the session before
\* waits to be stopped.
SessionFollows ==
  atRest /\ ~mixed =>
    /\ requests = <<>>
    /\ dict.backward = running
    /\ dict.forward = None <=> running = {}
    /\ running \subseteq {session}
    /\ ~swallowed /\ ~failed => wants = (running # {})

\* "flush() always trigger report, even on a stopped session": then too, unless
\* the session was stopped twice or the engine refused.
FlushReported == atRest /\ ~mixed /\ ~failed /\ ~idle => ~flushed

BatchingFollows == SessionFollows /\ FlushReported
=============================================================================
