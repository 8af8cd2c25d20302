------------------------------ MODULE OnDemand ------------------------------
(***************************************************************************)
(* On-demand position injection of GnssAdapter (ODCPI,                     *)
(* gps/gnss/GnssAdapter.cpp): the modem starts and stops a request, the    *)
(* framework is asked for positions, and mOdcpiTimer keeps it from being   *)
(* asked too often and asks again while the request lasts.                 *)
(***************************************************************************)
EXTENDS Integers, Sequences

CONSTANTS
  Framework,               \* the callbacks of initOdcpi, by priority: 1, 2...
  MaxBacklog               \* messages waiting at a time

VARIABLES
  odcpiTasks,              \* messages for the task of the adapter
  mOdcpiRequestCb,         \* the registered callback, 0 for none
  mOdcpiRequestActive,
  mOdcpiRequest,           \* isEmergencyMode of the last START
  mActive,                 \* OdcpiTimer::mActive
  ticking,                 \* the LocTimer is started
  wants,                   \* the last START or STOP of the modem was a START
  asked                    \* the framework was asked since the request

vars == <<odcpiTasks, mOdcpiRequestCb, mOdcpiRequestActive, mOdcpiRequest, mActive,
          ticking, wants, asked>>

Init ==
  /\ odcpiTasks = <<>> /\ mOdcpiRequestCb = 0
  /\ mOdcpiRequestActive = FALSE /\ mOdcpiRequest = FALSE
  /\ mActive = FALSE /\ ticking = FALSE
  /\ wants = FALSE /\ asked = FALSE

post(message) ==
  Len(odcpiTasks) < MaxBacklog /\ odcpiTasks' = Append(odcpiTasks, message)
------------------------------------------------------------------------------
(* The framework, the modem and the timer.                                 *)

initOdcpiCommand(f) ==
  /\ post([fn |-> "init", cb |-> f])
  /\ UNCHANGED <<mOdcpiRequestCb, mOdcpiRequestActive, mOdcpiRequest, mActive, ticking,
                 wants, asked>>

\* the modem asks only adapters that registered for it; each request is one
\* more to be answered, unless it repeats the last
requestOdcpiEvent(type, emergency) ==
  /\ mOdcpiRequestCb # 0
  /\ post([fn |-> type, emergency |-> emergency])
  /\ wants' = (type = "start")
  /\ asked' = (wants /\ type = "start" /\ asked)
  /\ UNCHANGED <<mOdcpiRequestCb, mOdcpiRequestActive, mOdcpiRequest, mActive, ticking>>

\* a restarted modem has forgotten its request
modemRestarts ==
  /\ post([fn |-> "engineUp"])
  /\ wants' = FALSE /\ asked' = FALSE
  /\ UNCHANGED <<mOdcpiRequestCb, mOdcpiRequestActive, mOdcpiRequest, mActive, ticking>>

\* not bounded: the timer always reaches the queue
timeOutCallback ==
  /\ ticking /\ ticking' = FALSE
  /\ odcpiTasks' = Append(odcpiTasks, [fn |-> "expire"])
  /\ UNCHANGED <<mOdcpiRequestCb, mOdcpiRequestActive, mOdcpiRequest, mActive, wants, asked>>
------------------------------------------------------------------------------
(* The task of the adapter.                                                *)

receive(fn) ==
  odcpiTasks # <<>> /\ Head(odcpiTasks).fn = fn /\ odcpiTasks' = Tail(odcpiTasks)

\* a callback of equal or higher priority replaces the earlier one
initOdcpi ==
  /\ receive("init")
  /\ mOdcpiRequestCb' = IF Head(odcpiTasks).cb >= mOdcpiRequestCb THEN Head(odcpiTasks).cb
                        ELSE mOdcpiRequestCb
  /\ UNCHANGED <<mOdcpiRequestActive, mOdcpiRequest, mActive, ticking, wants, asked>>

\* the framework is asked; it counts unless a withdrawal is on its way
ask == asked' = (wants /\ \A i \in DOMAIN odcpiTasks' :
                              odcpiTasks'[i].fn \notin {"stop", "engineUp"})
startTimer == mActive' = TRUE /\ ticking' = TRUE
stopTimer == mActive' = FALSE /\ ticking' = FALSE

\* what a START does: ask the framework, or have the timer ask
startOdcpi_Forgotten(emergency) ==
  IF (~mOdcpiRequestActive /\ ~mActive) \/ (~mOdcpiRequest /\ emergency) THEN "ask" ELSE "none"
startOdcpi(emergency) ==
  IF (~mOdcpiRequestActive /\ ~mActive) \/ (~mOdcpiRequest /\ emergency) THEN "ask"
  ELSE IF ~mOdcpiRequestActive THEN "wait" ELSE "none"

requestOdcpiStart ==
  LET emergency == Head(odcpiTasks).emergency
      does == startOdcpi(emergency)
  IN /\ receive("start")
     /\ mOdcpiRequest' = emergency
     /\ mOdcpiRequestActive' = (mOdcpiRequestActive \/ does # "none")
     /\ IF does = "ask" THEN startTimer /\ ask
        ELSE UNCHANGED <<mActive, ticking, asked>>
     /\ UNCHANGED <<mOdcpiRequestCb, wants>>

\* the framework is told; the timer goes on, against too many requests
requestOdcpiStop ==
  /\ receive("stop")
  /\ mOdcpiRequestActive' = FALSE
  /\ UNCHANGED <<mOdcpiRequestCb, mOdcpiRequest, mActive, ticking, wants, asked>>

\* restartSessions(true)
engineUp ==
  /\ receive("engineUp")
  /\ mOdcpiRequestActive' = FALSE
  /\ UNCHANGED <<mOdcpiRequestCb, mOdcpiRequest, mActive, ticking, wants, asked>>

odcpiTimerExpire ==
  /\ receive("expire")
  /\ IF mOdcpiRequestActive THEN startTimer /\ ask
     ELSE stopTimer /\ UNCHANGED asked
  /\ UNCHANGED <<mOdcpiRequestCb, mOdcpiRequestActive, mOdcpiRequest, wants>>
------------------------------------------------------------------------------
Task == initOdcpi \/ requestOdcpiStart \/ requestOdcpiStop \/ engineUp \/ odcpiTimerExpire

Next ==
  \/ \E f \in Framework : initOdcpiCommand(f)
  \/ \E type \in {"start", "stop"}, emergency \in BOOLEAN : requestOdcpiEvent(type, emergency)
  \/ modemRestarts \/ timeOutCallback \/ Task

Spec == Init /\ [][Next]_vars /\ WF_vars(Task) /\ WF_vars(timeOutCallback)
------------------------------------------------------------------------------
(* Properties. *)

\* While a request is active the timer runs or its expiry is queued: the
\* framework is asked again and again until the modem stops it.
AskedAgain ==
  mOdcpiRequestActive =>
    mActive /\ (ticking \/ \E i \in DOMAIN odcpiTasks : odcpiTasks[i].fn = "expire")

\* A request the modem does not withdraw reaches the framework, whatever came
\* before it: at once, or when the timer of an earlier request expires.
OdcpiServed == []AskedAgain /\ ((wants /\ ~asked) ~> (asked \/ ~wants))
=============================================================================
