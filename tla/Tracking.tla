------------------------------ MODULE Tracking ------------------------------
(***************************************************************************)
(* The tracking sessions of gps/gnss/GnssAdapter.cpp.  The engine runs one *)
(* time-based fix for all clients, so the adapter merges the options of    *)
(* its time-based sessions and restarts the fix when the merge calls for   *)
(* it; distance-based sessions reach the engine one by one.                *)
(*                                                                         *)
(* The adapter runs on its message task and calls the engine without       *)
(* waiting.  A call's answer comes back as a message that runs the         *)
(* continuation the call was made with; commands of any client, restarts   *)
(* of the modem and failures come in between.                              *)
(*                                                                         *)
(* A client has one session, as LocationAPIClientBase keeps it, so the     *)
(* session stands for its client.  The engine supports distance-based      *)
(* tracking, clients set the callbacks and the size of their options, and  *)
(* the fixed rates of automotive builds (checkAndSetSPEToRunforNHz) are    *)
(* left out.                                                               *)
(***************************************************************************)
EXTENDS Integers, FiniteSets, Sequences, SequencesExt

CONSTANTS
  Session,                 \* the sessions, numbered in the order of the maps
  Options,                 \* options clients ask for: interval, power mode
                           \* (0 is INVALID, 1 the highest) and distance
  MaxInFlight,             \* bound: commands and restarts come only with
                           \* fewer messages and calls under way
  MaxFailures,             \* bound: so many sessions meet a failed call
  None                     \* no options, or no session

TrackingOptions == [interval : Nat, power : Nat, distance : Nat]

ASSUME TrackingAssumption ==
  /\ Session \subseteq Nat /\ IsFiniteSet(Session)
  /\ Options \subseteq TrackingOptions
  /\ MaxInFlight \in Nat /\ MaxFailures \in Nat
  /\ None \notin TrackingOptions /\ None \notin Session

VARIABLES
  timeBased,               \* mTimeBasedTrackingSessions
  distanceBased,           \* mDistanceBasedTrackingSessions
  known,                   \* mIsEngineCapabilitiesKnown, "yes" or "no"
  pending,                 \* mPendingMsgs: commands that wait for known
  queue,                   \* the adapter's messages
  calls,                   \* calls the engine has not executed
  modem,                   \* "up", or "down" before and during a restart
  engine,                  \* options of the fix the engine runs, if any
  engineDistance,          \* the distance-based sessions it runs
  client,                  \* "new", "on", "off" (it said stop), "leaving" or
                           \* "gone" (removed from mClientData)
  owed,                    \* answers the client still waits for
  hasty,                   \* sessions with a command sent while one was owed
  failed                   \* sessions, or None, with a call that failed

sessionVars == <<timeBased, distanceBased>>
engineVars  == <<modem, engine, engineDistance>>
vars == <<timeBased, distanceBased, known, pending, queue, calls, modem,
          engine, engineDistance, client, owed, hasty, failed>>

Continuation ==
  {"none", "started", "updated", "stopped", "distanceStopped",
   "clientStopped", "toTime", "restartDistance", "distanceRestarted"}

Call ==
  [what : {"start", "stop", "startDistance", "stopDistance"},
   options : TrackingOptions \cup {None}, session : Session \cup {None},
   then : Continuation, saved : TrackingOptions \cup {None}]

Command  == {"start", "update"} \X Session \X TrackingOptions
            \cup {"stop", "remove"} \X Session \X {None}
Response == {"response"} \X Call \X {"SUCCESS", "FAILURE"}

TypeOK ==
  /\ timeBased \in [Session -> TrackingOptions \cup {None}]
  /\ distanceBased \in [Session -> TrackingOptions \cup {None}]
  /\ known \in {"yes", "no"}
  /\ pending \in Seq(Command)
  /\ queue \in Seq(Command \cup Response \cup {<<"engineUp">>})
  /\ calls \in Seq(Call)
  /\ modem \in {"up", "down"}
  /\ engine \in TrackingOptions \cup {None}
  /\ engineDistance \subseteq Session
  /\ client \in [Session -> {"new", "on", "off", "leaving", "gone"}]
  /\ owed \in [Session -> Int]
  /\ hasty \subseteq Session
  /\ failed \subseteq Session \cup {None}

NoSessions == [s \in Session |-> None]

Init ==
  /\ timeBased = NoSessions /\ distanceBased = NoSessions
  /\ known = "no" /\ pending = <<>> /\ queue = <<>> /\ calls = <<>>
  /\ modem = "down" /\ engine = None /\ engineDistance = {}
  /\ client = [s \in Session |-> "new"]
  /\ owed = [s \in Session |-> 0]
  /\ hasty = {} /\ failed = {}
------------------------------------------------------------------------------
(* Merging the options of a set S of time-based sessions. *)

TimeBased     == {s \in Session : timeBased[s] # None}
DistanceBased == {s \in Session : distanceBased[s] # None}

interval(s) == timeBased[s].interval
power(s)    == timeBased[s].power

\* the first of the fastest sessions, in the order of the map
fastest(S) ==
  CHOOSE s \in S : \A t \in S \ {s} :
    \/ interval(s) < interval(t)
    \/ interval(s) = interval(t) /\ s < t

\* multiplexedPowerMode: INVALID counts as not set yet, so the sessions up to
\* the last one without a power mode do not count
multiplexedPower(S) ==
  LET counted == {s \in S : \A t \in S : power(t) = 0 => t < s}
  IN IF counted = {} THEN 0
     ELSE CHOOSE p \in {power(s) : s \in counted} :
            \A s \in counted : p <= power(s)

\* checkAndRestartTimeBasedSession skips INVALID power modes, but for the first
restartPower(S) ==
  LET first == CHOOSE s \in S : \A t \in S : s <= t
      modes == {power(s) : s \in S} \ {0}
  IN IF power(first) = 0 THEN 0
     ELSE CHOOSE p \in modes : \A q \in modes : p <= q

merge(options, i, p) == [options EXCEPT !.interval = i, !.power = p]

\* o is faster or of a smaller power mode than the sessions S
raises(o, S) ==
  \/ o.interval < interval(fastest(S))
  \/ o.power < multiplexedPower(S)

\* the options of the fastest of S, with what o raises
raised(o, S) ==
  LET f == fastest(S)
  IN merge(timeBased[f],
           IF o.interval < interval(f) THEN o.interval ELSE interval(f),
           IF o.power < multiplexedPower(S) THEN o.power ELSE power(f))
------------------------------------------------------------------------------
(* Calls to the engine and answers to the clients. *)

callTo(what, options, s, then, saved) ==
  [what |-> what, options |-> options, session |-> s,
   then |-> then, saved |-> saved]

send(what, options, s, then, saved) ==
  calls' = Append(calls, callTo(what, options, s, then, saved))

\* reportResponse: a client that is gone hears nothing
reportResponse(s) ==
  owed' = IF client[s] = "gone" THEN owed ELSE [owed EXCEPT ![s] = @ - 1]

saveTimeBased(s, o) ==
  timeBased' = [timeBased EXCEPT ![s] = o] /\ UNCHANGED distanceBased
saveDistanceBased(s, o) ==
  distanceBased' = [distanceBased EXCEPT ![s] = o] /\ UNCHANGED timeBased

eraseTrackingSession_TimeBasedOnly(s) ==
  timeBased' = [timeBased EXCEPT ![s] = None] /\ UNCHANGED distanceBased
eraseTrackingSession(s) ==
  IF s \in TimeBased
  THEN timeBased' = [timeBased EXCEPT ![s] = None] /\ UNCHANGED distanceBased
  ELSE distanceBased' = [distanceBased EXCEPT ![s] = None]
       /\ UNCHANGED timeBased

\* the session is saved, and answered at once unless the fix must restart
startTimeBasedTrackingMultiplex(s, o) ==
  /\ saveTimeBased(s, o)
  /\ \/ /\ TimeBased = {}
        /\ send("start", o, s, "started", None) /\ UNCHANGED owed
     \/ /\ TimeBased # {} /\ raises(o, TimeBased)
        /\ send("start", raised(o, TimeBased), s, "started", None)
        /\ UNCHANGED owed
     \/ /\ TimeBased # {} /\ ~raises(o, TimeBased)
        /\ reportResponse(s) /\ UNCHANGED calls

updateTrackingMultiplex(s, o) ==
  LET others  == TimeBased \ {s}
      changed == interval(s) # o.interval \/ power(s) # o.power
  IN /\ saveTimeBased(s, o)
     /\ \/ /\ changed /\ others = {}
           /\ send("start", o, s, "updated", timeBased[s]) /\ UNCHANGED owed
        \/ /\ changed /\ others # {} /\ raises(o, others)
           /\ send("start", raised(o, others), s, "updated", timeBased[s])
           /\ UNCHANGED owed
        \/ /\ changed => others # {} /\ ~raises(o, others)
           /\ reportResponse(s) /\ UNCHANGED calls

stopCalls_NeverLast(s) ==
  LET others == TimeBased \ {s}
  IN IF others # {} /\ raises(timeBased[s], others)
     THEN <<callTo("start", timeBased[fastest(others)], s, "started", None)>>
     ELSE <<>>
\* what stopTimeBasedTrackingMultiplex asks of the engine, if anything
stopCalls(s) ==
  LET others == TimeBased \ {s}
  IN IF others = {} THEN <<callTo("stop", None, s, "stopped", None)>>
     ELSE IF raises(timeBased[s], others)
     THEN LET f == fastest(others)
          IN <<callTo("start",
                      merge(timeBased[f], interval(f), multiplexedPower(others)),
                      s, "started", None)>>
     ELSE <<>>
------------------------------------------------------------------------------
(* The commands, as the message task runs them. *)

park(type, s, o) ==
  /\ pending' = Append(pending, <<type, s, o>>)
  /\ UNCHANGED <<sessionVars, calls, owed>>

\* A client that is gone has no callbacks; the error is not reported.
MsgStartTracking(s, o) ==
  IF known = "no" /\ o.distance > 0 THEN park("start", s, o)
  ELSE /\ UNCHANGED pending
       /\ IF client[s] = "gone" THEN UNCHANGED <<sessionVars, calls, owed>>
          ELSE IF o.distance = 0 THEN startTimeBasedTrackingMultiplex(s, o)
          ELSE /\ saveDistanceBased(s, o)
               /\ send("startDistance", o, s, "started", None)
               /\ UNCHANGED owed

timeToDistance(s, o) ==
  /\ timeBased' = [timeBased EXCEPT ![s] = None]
  /\ distanceBased' = [distanceBased EXCEPT ![s] = o]
  /\ calls' = calls \o stopCalls(s)
                    \o <<callTo("startDistance", o, s, "none", None)>>
  /\ IF stopCalls(s) = <<>> THEN reportResponse(s) ELSE UNCHANGED owed

distanceToTime(s, o) ==
  /\ eraseTrackingSession(s)
  /\ send("stopDistance", None, s, "toTime", o)
  /\ UNCHANGED owed

MsgUpdateTracking(s, o) ==
  IF known = "no" /\ o.distance > 0 THEN park("update", s, o)
  ELSE
    /\ UNCHANGED pending
    /\ \/ /\ s \notin TimeBased \cup DistanceBased      \* ID_UNKNOWN
          /\ reportResponse(s) /\ UNCHANGED <<sessionVars, calls>>
       \/ s \in TimeBased /\ o.distance > 0 /\ timeToDistance(s, o)
       \/ s \in DistanceBased /\ o.distance = 0 /\ distanceToTime(s, o)
       \/ /\ s \in TimeBased \ DistanceBased /\ o.distance = 0
          /\ updateTrackingMultiplex(s, o)
       \/ /\ s \in DistanceBased \ TimeBased /\ o.distance > 0
          /\ send("stopDistance", None, s, "restartDistance", o)
          /\ UNCHANGED <<sessionVars, owed>>

MsgStopTracking(s) ==
  /\ UNCHANGED pending
  /\ \/ /\ s \in TimeBased
        /\ eraseTrackingSession(s)
        /\ calls' = calls \o stopCalls(s)
        /\ IF stopCalls(s) = <<>> THEN reportResponse(s) ELSE UNCHANGED owed
     \/ /\ s \in DistanceBased \ TimeBased
        /\ send("stopDistance", None, s, "distanceStopped", None)
        /\ UNCHANGED <<sessionVars, owed>>
     \/ /\ s \notin TimeBased \cup DistanceBased        \* ID_UNKNOWN
        /\ reportResponse(s) /\ UNCHANGED <<sessionVars, calls>>

\* stopClientSessions and eraseClient: nothing is answered any more
MsgRemoveClient(s) ==
  /\ timeBased' = [timeBased EXCEPT ![s] = None]
  /\ calls' = calls
       \o (IF s \in TimeBased THEN stopCalls(s) ELSE <<>>)
       \o (IF s \in DistanceBased
           THEN <<callTo("stopDistance", None, s, "clientStopped", None)>>
           ELSE <<>>)
  /\ client' = [client EXCEPT ![s] = "gone"]
  /\ owed' = [owed EXCEPT ![s] = 0]
  /\ UNCHANGED <<distanceBased, pending>>

(* The continuations. *)

startFailed(s, err) ==
  /\ IF err = "SUCCESS" THEN UNCHANGED sessionVars ELSE eraseTrackingSession(s)
  /\ reportResponse(s) /\ UNCHANGED calls

updateFailed(s, old, err) ==
  /\ IF err = "SUCCESS" THEN UNCHANGED sessionVars ELSE saveTimeBased(s, old)
  /\ reportResponse(s) /\ UNCHANGED calls

stopped(s, err) ==
  reportResponse(s) /\ UNCHANGED <<sessionVars, calls>>

distanceStopped(s, err) ==
  /\ IF err = "SUCCESS" THEN eraseTrackingSession(s) ELSE UNCHANGED sessionVars
  /\ reportResponse(s) /\ UNCHANGED calls

clientStopped_Kept(s, err) == UNCHANGED <<sessionVars, owed, calls>>
clientStopped(s, err) ==
  /\ IF err = "SUCCESS" THEN eraseTrackingSession(s) ELSE UNCHANGED sessionVars
  /\ UNCHANGED <<owed, calls>>

\* the answer to an update is lost if the engine does not stop the session
restartDistance(s, o, err) ==
  /\ IF err = "SUCCESS" THEN send("startDistance", o, s, "distanceRestarted", o)
                        ELSE UNCHANGED calls
  /\ UNCHANGED <<sessionVars, owed>>

distanceRestarted(s, o, err) ==
  /\ IF err = "SUCCESS" THEN saveDistanceBased(s, o) ELSE UNCHANGED sessionVars
  /\ reportResponse(s) /\ UNCHANGED calls

continue(c, err) ==
  LET s == c.session
  IN \/ c.then = "started" /\ startFailed(s, err)
     \/ c.then = "updated" /\ updateFailed(s, c.saved, err)
     \/ c.then = "stopped" /\ stopped(s, err)
     \/ c.then = "distanceStopped" /\ distanceStopped(s, err)
     \/ c.then = "clientStopped" /\ clientStopped(s, err)
     \/ c.then = "toTime" /\ startTimeBasedTrackingMultiplex(s, c.saved)
     \/ c.then = "restartDistance" /\ restartDistance(s, c.saved, err)
     \/ c.then = "distanceRestarted" /\ distanceRestarted(s, c.saved, err)

\* restartSessions: the merged fix, and each distance-based session (to the
\* engine their order is all the same)
restartCalls ==
  (IF TimeBased = {} THEN <<>>
   ELSE LET f == fastest(TimeBased)
        IN <<callTo("start",
                    merge(timeBased[f], interval(f), restartPower(TimeBased)),
                    None, "none", None)>>)
  \o LET distance == SetToSeq(DistanceBased)
     IN [i \in 1..Cardinality(DistanceBased) |->
           callTo("startDistance", distanceBased[distance[i]], distance[i],
                  "none", None)]
------------------------------------------------------------------------------
(* The message task, with one message per step. *)

begin(type) ==
  /\ queue # <<>> /\ Head(queue)[1] = type
  /\ UNCHANGED <<engineVars, hasty, failed>>

procStart ==
  begin("start") /\ MsgStartTracking(Head(queue)[2], Head(queue)[3])
  /\ queue' = Tail(queue) /\ UNCHANGED <<client, known>>

procUpdate ==
  begin("update") /\ MsgUpdateTracking(Head(queue)[2], Head(queue)[3])
  /\ queue' = Tail(queue) /\ UNCHANGED <<client, known>>

procStop ==
  begin("stop") /\ MsgStopTracking(Head(queue)[2])
  /\ queue' = Tail(queue) /\ UNCHANGED <<client, known>>

procRemove ==
  begin("remove") /\ MsgRemoveClient(Head(queue)[2])
  /\ queue' = Tail(queue) /\ UNCHANGED known

Continue ==
  begin("response") /\ continue(Head(queue)[2], Head(queue)[3])
  /\ queue' = Tail(queue) /\ UNCHANGED <<pending, client, known>>


\* MsgHandleEngineUpEvent restarts the sessions, then posts what waited
EngineUp ==
  /\ begin("engineUp")
  /\ known' = "yes"
  /\ calls' = calls \o restartCalls
  /\ queue' = Tail(queue) \o pending /\ pending' = <<>>
  /\ UNCHANGED <<sessionVars, client, owed>>

Task == procStart \/ procUpdate \/ procStop \/ procRemove \/ Continue \/ EngineUp
------------------------------------------------------------------------------
(* The clients, through LocationAPI.  One that waits for no answer may      *)
(* still send the next command; such a session is hasty.                    *)

inFlight == Len(queue) + Len(calls) + Len(pending)

command(s, message) ==
  /\ inFlight < MaxInFlight
  /\ queue' = Append(queue, message)
  /\ hasty' = IF owed[s] > 0 THEN hasty \cup {s} ELSE hasty
  /\ owed' = [owed EXCEPT ![s] = IF message[1] = "remove" THEN @ ELSE @ + 1]
  /\ UNCHANGED <<sessionVars, engineVars, known, pending, calls, failed>>

startTrackingCommand(s, o) ==
  /\ client[s] = "new" /\ client' = [client EXCEPT ![s] = "on"]
  /\ command(s, <<"start", s, o>>)

updateTrackingOptionsCommand(s, o) ==
  /\ client[s] = "on" /\ UNCHANGED client
  /\ command(s, <<"update", s, o>>)

stopTrackingCommand(s) ==
  /\ client[s] = "on" /\ client' = [client EXCEPT ![s] = "off"]
  /\ command(s, <<"stop", s, None>>)

removeClientCommand(s) ==
  /\ client[s] \in {"on", "off"}
  /\ client' = [client EXCEPT ![s] = "leaving"]
  /\ command(s, <<"remove", s, None>>)

Clients ==
  \E s \in Session :
    \/ \E o \in Options : \/ startTrackingCommand(s, o)
                          \/ updateTrackingOptionsCommand(s, o)
    \/ stopTrackingCommand(s) \/ removeClientCommand(s)
------------------------------------------------------------------------------
(* The engine executes the calls in order.  A call that fails changes       *)
(* nothing there, as may one to a modem that is down; a restarted one runs  *)
(* nothing until it is asked to.                                            *)

execute(c) ==
  \/ c.what = "start" /\ engine' = c.options /\ UNCHANGED engineDistance
  \/ c.what = "stop" /\ engine' = None /\ UNCHANGED engineDistance
  \/ /\ c.what = "startDistance"
     /\ engineDistance' = engineDistance \cup {c.session} /\ UNCHANGED engine
  \/ /\ c.what = "stopDistance"
     /\ engineDistance' = engineDistance \ {c.session} /\ UNCHANGED engine

\* LocApiResponse posts its continuation to the adapter, if there is one
returnToSender(c, err) ==
  queue' = IF c.then = "none" THEN queue
                              ELSE Append(queue, <<"response", c, err>>)

EngineCall(result) ==
  /\ calls # <<>> /\ calls' = Tail(calls)
  /\ returnToSender(Head(calls), result)
  /\ UNCHANGED <<sessionVars, known, pending, modem, client, owed, hasty>>

EngineExecutes ==
  /\ modem = "up" /\ EngineCall("SUCCESS")
  /\ execute(Head(calls)) /\ UNCHANGED failed

EngineFails ==
  /\ EngineCall("FAILURE")
  /\ Cardinality(failed) < MaxFailures
  /\ failed' = failed \cup {Head(calls).session}
  /\ UNCHANGED <<engine, engineDistance>>

ModemDown ==
  /\ modem = "up" /\ modem' = "down" /\ inFlight < MaxInFlight
  /\ engine' = None /\ engineDistance' = {}
  /\ UNCHANGED <<sessionVars, known, pending, queue, calls, client, owed,
                 hasty, failed>>

handleEngineUpEvent ==
  /\ modem = "down" /\ modem' = "up"
  /\ queue' = Append(queue, <<"engineUp">>)
  /\ UNCHANGED <<sessionVars, known, pending, calls, engine, engineDistance,
                 client, owed, hasty, failed>>

Next ==
  Task \/ Clients \/ EngineExecutes \/ EngineFails
       \/ ModemDown \/ handleEngineUpEvent

Spec == Init /\ [][Next]_vars
------------------------------------------------------------------------------
(* Properties. *)

Idle == modem = "up" /\ queue = <<>> /\ calls = <<>>

\* With nothing under way the engine runs a fix fast enough for each of the
\* time-based sessions, and the distance-based ones of patient clients; with
\* patient clients only it runs no fix without a time-based session.  No merge,
\* restart of the modem or order of the answers leaves a session unserved.
EngineServes ==
  Idle /\ failed = {} =>
    /\ \A s \in TimeBased : engine # None /\ engine.interval <= interval(s)
    /\ DistanceBased \ hasty \subseteq engineDistance
    /\ hasty = {} /\ TimeBased = {} => engine = None

\* No command is answered twice, whatever fails or restarts.
AnsweredOnce == \A s \in Session : owed[s] >= 0

\* With nothing under way every command was answered, but for sessions with
\* a failed call: no continuation is lost, and one session's failure or
\* restart leaves the answers of the others alone.
AllAnswered ==
  Idle => \A s \in Session \ failed : owed[s] = 0

Answered(s) == owed[s] = 0 /\ client[s] \in {"on", "off"}

\* Once its client is answered, a session is in one of the maps, and after a
\* stop in none (LocationAPI.h:66-78): for clients that wait for each answer.
AnswersAreTrue ==
  \A s \in Session \ (hasty \cup failed) :
    Answered(s) =>
      /\ s \in TimeBased \cup DistanceBased <=> client[s] = "on"
      /\ s \notin TimeBased \cap DistanceBased

\* Commands are answered once, truly, and all of them.
CommandsAnswered == AnsweredOnce /\ AllAnswered /\ AnswersAreTrue

\* Stopping is final even for a hasty client: stopTracking answers "ID_UNKNOWN
\* if id is not associated with a tracking session" (LocationAPI.h:78), and a
\* session that was stopped is in neither map once all is answered.
StoppedStaysStopped ==
  \A s \in Session \ failed :
    Answered(s) /\ client[s] = "off" => s \notin TimeBased \cup DistanceBased

\* A client that is gone leaves no session behind, if it waited for its answers.
NoOrphans ==
  Idle => \A s \in Session \ (hasty \cup failed) :
    client[s] = "gone" => s \notin TimeBased \cup DistanceBased
==============================================================================
