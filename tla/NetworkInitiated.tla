-------------------------- MODULE NetworkInitiated --------------------------
(***************************************************************************)
(* Network-initiated requests of GnssAdapter (gps/gnss/GnssAdapter.cpp):   *)
(* which are denied, accepted or shown to the user, the two sessions an    *)
(* answer is awaited in, each by a thread of its own with a timeout, and   *)
(* the race of answer and timeout.                                         *)
(***************************************************************************)
EXTENDS Integers, Sequences

CONSTANTS
  Request,                 \* requests of the network
  Confs,                   \* configurations to be explored
  None

VARIABLES
  conf,                    \* [locked, SUPL_ES, CP_MTLR_ES], fixed for a run
  hasCb,                   \* a client with gnssNiCb is registered
  tasks,                   \* messages for the task of the adapter
  proc,                    \* the answer of the user being handled
  sessionOf,               \* NiData: sessionEs and session
  reqIDCounter,
  threads,                 \* the threads running niThreadProc
  shown,                   \* [id, r] that the user was asked
  \* history: what the modem was told, data freed or leaked, what the user
  \* said, and requests that met the answer to an earlier one
  told, freed, said, raced

vars == <<conf, hasCb, tasks, proc, sessionOf, reqIDCounter, threads, shown, told,
          freed, said, raced>>

Session == {"es", "other"}
Types == {"supl", "es", "cp"}
idle == [step |-> "idle"]

Init ==
  /\ conf \in Confs /\ hasCb = TRUE
  /\ tasks = <<>> /\ proc = idle
  /\ sessionOf = [s \in Session |->
       [rawRequest |-> None, reqID |-> 0, resp |-> None, respRecvd |-> FALSE]]
  /\ reqIDCounter = 0 /\ threads = {} /\ shown = {}
  /\ told = [r \in Request |-> <<>>] /\ freed = {}
  /\ said = [r \in Request |-> None] /\ raced = {}
------------------------------------------------------------------------------
(* The modem, the client and its user.                                     *)

requestNiNotifyEvent(r, type, emergency) ==
  /\ said[r] = None /\ told[r] = <<>> /\ r \notin freed
  /\ \A i \in DOMAIN tasks : tasks[i].r # r
  /\ \A s \in Session : sessionOf[s].rawRequest # r
  /\ \A t \in threads : t.r # r
  /\ tasks' = Append(tasks, [fn |-> "request", r |-> r, type |-> type,
                             emergency |-> emergency])
  /\ UNCHANGED <<conf, hasCb, proc, sessionOf, reqIDCounter, threads, shown, told, freed,
                 said, raced>>

\* what the user answers, if anything; the id is all the adapter is given
gnssNiResponse(d, resp) ==
  /\ shown' = shown \ {d} /\ said' = [said EXCEPT ![d.r] = resp]
  /\ tasks' = Append(tasks, [fn |-> "response", r |-> None, id |-> d.id, resp |-> resp])
  /\ UNCHANGED <<conf, hasCb, proc, sessionOf, reqIDCounter, threads, told, freed, raced>>

clientGone ==
  /\ hasCb /\ proc = idle /\ hasCb' = FALSE
  /\ UNCHANGED <<conf, tasks, proc, sessionOf, reqIDCounter, threads, shown, told, freed,
                 said, raced>>
------------------------------------------------------------------------------
(* MsgReportNiNotify.                                                      *)

receive(fn) ==
  proc = idle /\ tasks # <<>> /\ Head(tasks).fn = fn /\ tasks' = Tail(tasks)
here == Head(tasks)

denied == conf.locked /\ here.type \in {"supl", "es"} /\ ~here.emergency
\* an emergency SUPL request is accepted at once or denied; what is left for
\* control-plane requests is accepted in an emergency
informed ==
  IF denied THEN {"deny"}
  ELSE CASE here.type = "es" -> IF here.emergency \/ ~conf.SUPL_ES THEN {} ELSE {"deny"}
         [] here.type = "cp" -> IF here.emergency /\ conf.CP_MTLR_ES THEN {"accept"} ELSE {}
         [] OTHER -> {}

informAtOnce ==
  /\ receive("request")
  /\ \E resp \in informed : told' = [told EXCEPT ![here.r] = Append(@, resp)]
  /\ UNCHANGED <<conf, hasCb, proc, sessionOf, reqIDCounter, threads, shown, freed, said,
                 raced>>

\* requestNiNotify() with no client: an emergency request is accepted and the
\* other session ignored; the data of any other is not freed
notifyNobody ==
  /\ receive("request") /\ informed = {} /\ ~hasCb
  /\ IF here.type # "es" THEN UNCHANGED <<told, proc>>
     ELSE /\ told' = [told EXCEPT ![here.r] = Append(@, "accept")]
          /\ proc' = IF sessionOf["other"].rawRequest = None THEN idle
                     ELSE [step |-> "ignore", session |-> None, resp |-> None, r |-> None]
  /\ UNCHANGED <<conf, hasCb, sessionOf, reqIDCounter, threads, shown, freed, said, raced>>

busy(s) == sessionOf["es"].rawRequest # None
           \/ (s = "other" /\ sessionOf["other"].rawRequest # None)

\* requestNiNotify(): the request is shown, or freed if another is pending
notify ==
  LET s == IF here.type = "es" THEN "es" ELSE "other"
      id == reqIDCounter + 1
  IN /\ receive("request") /\ informed = {} /\ hasCb
     /\ IF busy(s)
        THEN /\ freed' = freed \cup {here.r}
             /\ UNCHANGED <<sessionOf, reqIDCounter, threads, shown>>
        ELSE /\ sessionOf' = [sessionOf EXCEPT ![s].rawRequest = here.r, ![s].reqID = id]
             /\ reqIDCounter' = id
             /\ threads' = threads \cup
                  {[session |-> s, id |-> id, step |-> "start", r |-> None, resp |-> None]}
             /\ shown' = shown \cup {[id |-> id, r |-> here.r]}
             /\ UNCHANGED freed
     /\ UNCHANGED <<conf, hasCb, proc, told, said, raced>>
------------------------------------------------------------------------------
(* MsgGnssNiResponse: rawRequest is read without the lock of the session,  *)
(* under which the answer is stored afterwards.                            *)

MsgGnssNiResponse ==
  LET active(s) == sessionOf[s].reqID = here.id /\ sessionOf[s].rawRequest # None
      s == IF active("es") THEN "es" ELSE "other"
  IN /\ receive("response")
     /\ proc' =
          IF ~hasCb \/ ~(active("es") \/ active("other")) THEN idle
          ELSE [step |-> IF /\ s = "es" /\ here.resp = "accept"
                            /\ sessionOf["other"].rawRequest # None
                         THEN "ignore" ELSE "store",
                session |-> s, resp |-> here.resp, r |-> sessionOf[s].rawRequest]
     /\ UNCHANGED <<conf, hasCb, sessionOf, reqIDCounter, threads, shown, told, freed, said,
                    raced>>

\* a SUPL request is ignored once an emergency request is accepted
ignoreOther ==
  /\ proc.step = "ignore"
  /\ sessionOf' = [sessionOf EXCEPT !["other"].resp = "ignore", !["other"].respRecvd = TRUE]
  /\ proc' = IF proc.session = None THEN idle ELSE [proc EXCEPT !.step = "store"]
  /\ raced' = IF sessionOf["other"].rawRequest = None THEN raced \cup {"other"} ELSE raced
  /\ UNCHANGED <<conf, hasCb, tasks, reqIDCounter, threads, shown, told, freed, said>>

\* raced: the request is gone, and the answer stays for the next one
store ==
  /\ proc.step = "store" /\ proc' = idle
  /\ sessionOf' = [sessionOf EXCEPT ![proc.session].resp = proc.resp,
                                    ![proc.session].respRecvd = TRUE]
  /\ raced' = IF sessionOf[proc.session].rawRequest # proc.r
              THEN raced \cup {proc.session} ELSE raced
  /\ UNCHANGED <<conf, hasCb, tasks, reqIDCounter, threads, shown, told, freed, said>>

\* informNiResponse(), from the message of the thread
inform ==
  /\ receive("inform")
  /\ told' = [told EXCEPT ![here.r] = Append(@, here.resp)]
  /\ UNCHANGED <<conf, hasCb, proc, sessionOf, reqIDCounter, threads, shown, freed, said,
                 raced>>
------------------------------------------------------------------------------
(* niThreadProc.                                                           *)

moves(t, step) == threads' = (threads \ {t}) \cup {[t EXCEPT !.step = step]}

waits(t) ==
  /\ t.step = "start" /\ ~sessionOf[t.session].respRecvd
  /\ moves(t, "wait")
  /\ UNCHANGED <<conf, hasCb, tasks, proc, sessionOf, reqIDCounter, shown, told, freed,
                 said, raced>>

taken_FlagKept(session, resp) == [session EXCEPT !.rawRequest = None, !.resp = resp]
\* the end of the critical section: the request is taken out of the session
taken(session, resp) ==
  [session EXCEPT !.respRecvd = FALSE, !.rawRequest = None, !.resp = resp]
ends(t, resp) ==
  LET r == sessionOf[t.session].rawRequest
      send == r # None /\ resp # "ignore"
  IN /\ sessionOf' = [sessionOf EXCEPT ![t.session] = taken(@, resp)]
     /\ freed' = IF resp = "ignore" /\ r # None THEN freed \cup {r} ELSE freed
     /\ threads' = (threads \ {t}) \cup
          {[t EXCEPT !.step = "clear", !.resp = resp, !.r = IF send THEN r ELSE None]}
     /\ UNCHANGED <<conf, hasCb, tasks, proc, reqIDCounter, shown, told, said, raced>>
answered(t) ==
  t.step \in {"start", "wait"} /\ sessionOf[t.session].respRecvd
  /\ ends(t, sessionOf[t.session].resp)
\* also when the answer came before the lock was taken again
timedOut(t) == t.step = "wait" /\ ends(t, "noResponse")

\* after the unlock: the id is cleared, whoever's it is by now
clears(t) ==
  /\ t.step = "clear" /\ threads' = threads \ {t}
  /\ sessionOf' = [sessionOf EXCEPT ![t.session].reqID = 0]
  /\ tasks' = IF t.r = None THEN tasks
              ELSE Append(tasks, [fn |-> "inform", r |-> t.r, resp |-> t.resp])
  /\ UNCHANGED <<conf, hasCb, proc, reqIDCounter, shown, told, freed, said, raced>>
------------------------------------------------------------------------------
Next ==
  \/ \E r \in Request, type \in Types, emergency \in BOOLEAN :
       requestNiNotifyEvent(r, type, emergency)
  \/ \E d \in shown, resp \in {"accept", "deny"} : gnssNiResponse(d, resp)
  \/ clientGone \/ informAtOnce \/ notifyNobody \/ notify
  \/ MsgGnssNiResponse \/ ignoreOther \/ store \/ inform
  \/ \E t \in threads : waits(t) \/ answered(t) \/ timedOut(t) \/ clears(t)

Spec == Init /\ [][Next]_vars
------------------------------------------------------------------------------
(* Properties. *)

\* The data of a request ends once: the modem is told one answer or the data
\* are freed, never both and never twice, whichever of user, timeout and
\* emergency request comes first.
EndsOnce == \A r \in Request :
  Len(told[r]) + (IF r \in freed THEN 1 ELSE 0) <= 1

\* The modem is told that the user accepted or denied only what the user did
\* answer so, however late, unless an answer was stored in a session just as
\* its request timed out: the next request gets that one.
UserDecides == \A r \in Request : \A i \in DOMAIN told[r] :
  said[r] # None /\ raced = {} => told[r][i] \in {said[r], "noResponse"}

RequestsEnd == EndsOnce /\ UserDecides
==============================================================================
