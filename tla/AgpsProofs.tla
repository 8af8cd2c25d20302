----------------------------- MODULE AgpsProofs -----------------------------
(***************************************************************************)
(* Theorems about Agps, for any set of handles and any bounds.             *)
(*                                                                         *)
(* TypeOK and ListFitsState are inductive as they stand, whatever the      *)
(* framework, the library and the modem do.  That the machines keep the    *)
(* sessions of AtlSessions needs more: Inv relates the stage of a handle   *)
(* to the lists and to the messages about it that are still queued.  That  *)
(* "agnss" and the framework agree on the connection needs Attempt, which  *)
(* follows one attempt to connect through the queue and the calls, and     *)
(* that "internet" never waits in vain needs Posted.                       *)
(***************************************************************************)
EXTENDS Agps, TLAPS

requestAt(i, h) == queue[i][1] \in Nif /\ queue[i][2] = h
releaseAt(i, h) == queue[i][1] = "release" /\ queue[i][2] = h

\* the handles in a list
Listed == subscribers["agnss"] \cup subscribers["internet"]

\* A handle is in the list of one machine.
Disjoint == subscribers["agnss"] \cap subscribers["internet"] = {}

\* A handle in a list is at the stage the machine's state has brought it to.
StageAt(n) ==
  /\ \A h \in subscribers[n] :
       modem[h] \in IF mState[n] = "ACQUIRED" THEN {"open", "closing"}
                                              ELSE {"requested", "closing"}
  /\ \A h \in inactive[n] : modem[h] = "closing"

StageFits == \A n \in Nif : StageAt(n)

\* A queued request is the only one for its handle, which is not in a list.
RequestFits ==
  \A i \in 1..Len(queue), h \in Handle :
    requestAt(i, h) => /\ h \notin Listed
                       /\ modem[h] \in {"requested", "closing"}
                       /\ \A j \in 1..Len(queue) : requestAt(j, h) => j = i

\* A queued release is of a handle the modem is done with, except one that was
\* overtaken by the end of its session: that one finds nothing in the lists.
ReleaseFits ==
  \A i \in 1..Len(queue), h \in Handle :
    releaseAt(i, h) =>
      modem[h] = "closing" \/ /\ h \notin Listed
                              /\ \A j \in 1..i : ~requestAt(j, h)

NotConfused == \A h \in Handle : modem[h] # "confused"

Inv == TypeOK /\ ListFitsState /\ Disjoint /\ StageFits /\ RequestFits /\ ReleaseFits
       /\ NotConfused

States == {"RELEASED", "PENDING", "ACQUIRED", "RELEASING"}
Stages == {"idle", "requested", "open", "closing", "confused"}

\* the part of TypeOK that the state machines write
SmTypeOK ==
  /\ mState \in [Nif -> States]
  /\ subscribers \in [Nif -> SUBSET Handle]
  /\ inactive \in [Nif -> SUBSET Handle]
  /\ \A n \in Nif : inactive[n] \subseteq subscribers[n]
  /\ calls \in Seq({"request", "release"})
  /\ modem \in [Handle -> Stages]

\* ListFitsState of one machine
FitsAt(n) ==
  /\ mState[n] = "RELEASED" => subscribers[n] = {}
  /\ mState[n] \in {"PENDING", "ACQUIRED"} => subscribers[n] # inactive[n]
  /\ mState[n] = "RELEASING" => inactive[n] # {}

Fits == TypeOK /\ ListFitsState

\* what a step of a machine may add to the queue r it was given
Posts(r) ==
  \/ queue' = r
  \/ \E t \in {"opened", "failed", "closed"} : queue' = Append(r, <<t, "internet">>)

\* Only machine n acts, within the types.
Acts(n, r) ==
  /\ mState' \in [Nif -> States]
  /\ subscribers' \in [Nif -> SUBSET Handle] /\ inactive' \in [Nif -> SUBSET Handle]
  /\ \A m \in Nif \ {n} : /\ mState'[m] = mState[m]
                          /\ subscribers'[m] = subscribers[m]
                          /\ inactive'[m] = inactive[m]
  /\ calls' \in Seq({"request", "release"})
  /\ n = "internet" => calls' = calls
  /\ modem' \in [Handle -> Stages]
  /\ Posts(r)
  /\ n = "agnss" => queue' = r
------------------------------------------------------------------------------
(* What each operator of the state machine does to its machine.            *)

LEMMA SmTypes == TypeOK => SmTypeOK
  BY DEF TypeOK, SmTypeOK, States, Stages

LEMMA Notify ==
  ASSUME NEW hs, NEW status \in {"granted", "denied", "closed"},
         TypeOK, notify(hs, status)
  PROVE  /\ modem' \in [Handle -> Stages]
         /\ \A h \in Handle : h \notin hs => modem'[h] = modem[h]
         /\ \A h \in Handle : h \in hs => modem'[h] = told(modem[h], status)
  BY DEF notify, told, TypeOK, Stages

LEMMA DataConn ==
  ASSUME NEW n \in Nif, NEW what \in {"request", "release"}, NEW r, TypeOK,
         requestOrReleaseDataConn(n, what, r)
  PROVE  /\ calls' \in Seq({"request", "release"})
         /\ n = "internet" => calls' = calls
         /\ Posts(r)
         /\ n = "agnss" => queue' = r /\ calls' = Append(calls, what)
<1>1. CASE n = "agnss"
  <2>1. calls' = Append(calls, what) /\ queue' = r
    BY <1>1 DEF requestOrReleaseDataConn
  <2>2. calls \in Seq({"request", "release"})
    BY DEF TypeOK
  <2>3. calls' \in Seq({"request", "release"})
    BY <2>1, <2>2
  <2>. QED
    BY <1>1, <2>1, <2>3 DEF Posts
<1>2. CASE n = "internet"
  <2>1. processATLRequestRelease(what, r) /\ calls' = calls
    BY <1>2 DEF requestOrReleaseDataConn
  <2>2. Posts(r)
    BY <2>1 DEF processATLRequestRelease, Posts
  <2>. QED
    BY <1>2, <2>1, <2>2 DEF TypeOK
<1>. QED
  BY <1>1, <1>2 DEF Nif

LEMMA NoDataConn ==
  ASSUME NEW n \in Nif, NEW r, TypeOK, noDataConn(r)
  PROVE  /\ calls' \in Seq({"request", "release"})
         /\ n = "internet" => calls' = calls
         /\ Posts(r)
         /\ n = "agnss" => queue' = r
  BY DEF noDataConn, Posts, TypeOK

\* A component of a machine is set.
LEMMA Transition ==
  ASSUME NEW n \in Nif, NEW s \in States, TypeOK, transitionState(n, s)
  PROVE  /\ mState' \in [Nif -> States] /\ mState'[n] = s
         /\ \A m \in Nif \ {n} : mState'[m] = mState[m]
  BY DEF transitionState, TypeOK, States

LEMMA Remove ==
  ASSUME NEW n \in Nif, NEW hs, TypeOK, removeSubscribers(n, hs)
  PROVE  /\ subscribers' \in [Nif -> SUBSET Handle] /\ inactive' \in [Nif -> SUBSET Handle]
         /\ subscribers'[n] = subscribers[n] \ hs /\ inactive'[n] = inactive[n] \ hs
         /\ \A m \in Nif \ {n} : /\ subscribers'[m] = subscribers[m]
                                 /\ inactive'[m] = inactive[m]
<1>1. /\ subscribers' = [subscribers EXCEPT ![n] = @ \ hs]
      /\ inactive' = [inactive EXCEPT ![n] = @ \ hs]
      /\ subscribers \in [Nif -> SUBSET Handle] /\ inactive \in [Nif -> SUBSET Handle]
  BY DEF removeSubscribers, TypeOK
<1>2. subscribers[n] \ hs \in SUBSET Handle /\ inactive[n] \ hs \in SUBSET Handle
  BY <1>1
<1>. QED
  BY <1>1, <1>2

LEMMA Subscribe ==
  ASSUME TypeOK, NEW n \in Nif, NEW h \in Handle, NEW r,
         processAgpsEventSubscribe(n, h, r)
  PROVE  /\ Acts(n, r)
         /\ subscribers'[n] = subscribers[n] \cup {h} /\ inactive' = inactive
         /\ \/ /\ mState[n] = "RELEASED" /\ mState'[n] = "PENDING" /\ modem' = modem
               /\ requestOrReleaseDataConn(n, "request", r)
            \/ /\ mState[n] \in {"PENDING", "RELEASING"} /\ mState' = mState
               /\ modem' = modem /\ noDataConn(r)
            \/ /\ mState[n] = "ACQUIRED" /\ mState' = mState
               /\ notify({h}, "granted") /\ noDataConn(r)
<1>1. /\ subscribers' \in [Nif -> SUBSET Handle] /\ inactive' = inactive
      /\ subscribers'[n] = subscribers[n] \cup {h}
      /\ \A m \in Nif \ {n} : subscribers'[m] = subscribers[m]
  <2>1. subscribers' = [subscribers EXCEPT ![n] = subscribers[n] \cup {h}]
        /\ inactive' = inactive /\ subscribers \in [Nif -> SUBSET Handle]
    BY DEF processAgpsEventSubscribe, addSubscriber, TypeOK
  <2>2. subscribers[n] \cup {h} \in SUBSET Handle
    BY <2>1
  <2>. QED
    BY <2>1, <2>2
<1>2. modem \in [Handle -> Stages] /\ mState \in [Nif -> States]
      /\ inactive \in [Nif -> SUBSET Handle]
  BY DEF TypeOK, Stages, States
<1>3. CASE mState[n] = "RELEASED"
  <2>1. /\ transitionState(n, "PENDING") /\ modem' = modem
        /\ requestOrReleaseDataConn(n, "request", r)
    BY <1>3 DEF processAgpsEventSubscribe
  <2>. QED
    BY <1>1, <1>2, <1>3, <2>1, Transition, DataConn DEF Acts, States
<1>4. CASE mState[n] \in {"PENDING", "RELEASING"}
  <2>1. mState' = mState /\ modem' = modem /\ noDataConn(r)
    BY <1>4 DEF processAgpsEventSubscribe
  <2>. QED
    BY <1>1, <1>2, <1>4, <2>1, NoDataConn DEF Acts
<1>5. CASE mState[n] = "ACQUIRED"
  <2>1. mState' = mState /\ notify({h}, "granted") /\ noDataConn(r)
    BY <1>5 DEF processAgpsEventSubscribe
  <2>. QED
    BY <1>1, <1>2, <1>5, <2>1, NoDataConn, Notify DEF Acts
<1>. QED
  BY <1>2, <1>3, <1>4, <1>5 DEF States

LEMMA Unsubscribe ==
  ASSUME TypeOK, NEW n \in Nif, NEW h \in subscribers[n], NEW r,
         processAgpsEventUnsubscribe(n, h, r)
  PROVE  /\ Acts(n, r) /\ subscribers' = subscribers /\ modem' = modem
         /\ inactive'[n] = inactive[n] \cup {h}
         /\ \/ /\ mState[n] # "RELEASING" /\ subscribers[n] = inactive'[n]
               /\ mState'[n] = "RELEASING" /\ requestOrReleaseDataConn(n, "release", r)
            \/ /\ mState[n] = "RELEASING" \/ subscribers[n] # inactive'[n]
               /\ mState' = mState /\ noDataConn(r)
<1>1. /\ inactive' \in [Nif -> SUBSET Handle] /\ inactive'[n] = inactive[n] \cup {h}
      /\ \A m \in Nif \ {n} : inactive'[m] = inactive[m]
  <2>1. inactive' = [inactive EXCEPT ![n] = inactive[n] \cup {h}]
        /\ inactive \in [Nif -> SUBSET Handle] /\ subscribers \in [Nif -> SUBSET Handle]
    BY DEF processAgpsEventUnsubscribe, TypeOK
  <2>2. inactive[n] \cup {h} \in SUBSET Handle
    BY <2>1
  <2>. QED
    BY <2>1, <2>2
<1>2. /\ modem \in [Handle -> Stages] /\ mState \in [Nif -> States]
      /\ subscribers \in [Nif -> SUBSET Handle]
      /\ subscribers' = subscribers /\ modem' = modem
  BY DEF TypeOK, Stages, States, processAgpsEventUnsubscribe
<1>3. CASE mState[n] # "RELEASING" /\ ~anyActiveSubscribers(n)'
  <2>1. transitionState(n, "RELEASING") /\ requestOrReleaseDataConn(n, "release", r)
    BY <1>3 DEF processAgpsEventUnsubscribe
  <2>2. subscribers[n] = inactive'[n]
    BY <1>2, <1>3 DEF anyActiveSubscribers
  <2>. QED
    BY <1>1, <1>2, <1>3, <2>1, <2>2, Transition, DataConn DEF Acts, States
<1>4. CASE ~(mState[n] # "RELEASING" /\ ~anyActiveSubscribers(n)')
  <2>1. mState' = mState /\ noDataConn(r)
    BY <1>4 DEF processAgpsEventUnsubscribe
  <2>2. mState[n] = "RELEASING" \/ subscribers[n] # inactive'[n]
    BY <1>2, <1>4 DEF anyActiveSubscribers
  <2>. QED
    BY <1>1, <1>2, <2>1, <2>2, NoDataConn DEF Acts
<1>. QED
  BY <1>3, <1>4

LEMMA Ignored ==
  ASSUME TypeOK, NEW n \in Nif, NEW r, ignored(r)
  PROVE  Acts(n, r) /\ UNCHANGED smVars /\ queue' = r
<1>1. SmTypeOK /\ UNCHANGED smVars /\ queue' = r
  BY SmTypes DEF ignored
<1>. QED
  BY <1>1 DEF SmTypeOK, smVars, Acts, Posts

LEMMA Granted ==
  ASSUME TypeOK, NEW n \in Nif, NEW r, processAgpsEventGranted(n, r), mState[n] = "PENDING"
  PROVE  /\ Acts(n, r) /\ UNCHANGED <<subscribers, inactive>>
         /\ mState'[n] = "ACQUIRED" /\ noDataConn(r)
         /\ notify(subscribers[n] \ inactive[n], "granted")
<1>1. /\ transitionState(n, "ACQUIRED") /\ noDataConn(r)
      /\ notify(subscribers[n] \ inactive[n], "granted")
      /\ UNCHANGED <<subscribers, inactive>> /\ SmTypeOK
  BY SmTypes DEF processAgpsEventGranted
<1>. QED
  BY <1>1, Transition, Notify, NoDataConn DEF Acts, States, SmTypeOK

LEMMA CloseInactive ==
  ASSUME TypeOK, NEW n \in Nif, NEW r, closeInactive(n, r)
  PROVE  /\ Acts(n, r) /\ notify(inactive[n], "closed")
         /\ subscribers'[n] = subscribers[n] \ inactive[n] /\ inactive'[n] = {}
         /\ \/ /\ subscribers[n] # inactive[n] /\ mState'[n] = "PENDING"
               /\ requestOrReleaseDataConn(n, "request", r)
            \/ /\ subscribers[n] = inactive[n] /\ mState'[n] = "RELEASED" /\ noDataConn(r)
<1>1. notify(inactive[n], "closed") /\ removeSubscribers(n, inactive[n])
  BY DEF closeInactive
<1>2. inactive[n] \ inactive[n] = {}
  OBVIOUS
<1>3. CASE anyActiveSubscribers(n)
  <2>1. transitionState(n, "PENDING") /\ requestOrReleaseDataConn(n, "request", r)
    BY <1>3 DEF closeInactive
  <2>. QED
    BY <1>1, <1>2, <1>3, <2>1, Notify, Remove, Transition, DataConn
       DEF Acts, States, anyActiveSubscribers
<1>4. CASE ~anyActiveSubscribers(n)
  <2>1. transitionState(n, "RELEASED") /\ noDataConn(r)
    BY <1>4 DEF closeInactive
  <2>. QED
    BY <1>1, <1>2, <1>4, <2>1, Notify, Remove, Transition, NoDataConn
       DEF Acts, States, anyActiveSubscribers
<1>. QED
  BY <1>3, <1>4

LEMMA DropAll ==
  ASSUME TypeOK, NEW n \in Nif, NEW status \in {"denied", "closed"}, NEW r,
         dropAll(n, status, r)
  PROVE  /\ Acts(n, r) /\ notify(subscribers[n], status) /\ noDataConn(r)
         /\ mState'[n] = "RELEASED" /\ subscribers'[n] = {} /\ inactive'[n] = {}
<1>1. /\ transitionState(n, "RELEASED") /\ notify(subscribers[n], status)
      /\ removeSubscribers(n, subscribers[n]) /\ noDataConn(r)
  BY DEF dropAll
<1>2. subscribers[n] \ subscribers[n] = {} /\ inactive[n] \ subscribers[n] = {}
  BY DEF TypeOK
<1>. QED
  BY <1>1, <1>2, Notify, Remove, Transition, NoDataConn DEF Acts, States

Event(n, r) ==
  \/ processAgpsEventGranted(n, r) \/ processAgpsEventReleased(n, r)
  \/ processAgpsEventDenied(n, r)

\* An event is one of five steps.
LEMMA Events ==
  ASSUME TypeOK, NEW n \in Nif, NEW r, Event(n, r)
  PROVE  \/ ignored(r)
         \/ mState[n] = "PENDING" /\ processAgpsEventGranted(n, r)
         \/ mState[n] = "RELEASING" /\ closeInactive(n, r)
         \/ mState[n] = "ACQUIRED" /\ dropAll(n, "closed", r)
         \/ mState[n] = "PENDING" /\ dropAll(n, "denied", r)
  BY DEF Event, processAgpsEventGranted, processAgpsEventReleased, processAgpsEventDenied
------------------------------------------------------------------------------
(* The operators keep the types and ListFitsState.                         *)

LEMMA FitsEach == ListFitsState <=> \A n \in Nif : FitsAt(n)
  BY DEF ListFitsState, FitsAt, anyActiveSubscribers

LEMMA ActsFits ==
  ASSUME Fits, NEW n \in Nif, NEW r, Acts(n, r),
         inactive'[n] \subseteq subscribers'[n], FitsAt(n)'
  PROVE  SmTypeOK' /\ ListFitsState'
<1>1. \A m \in Nif : inactive[m] \subseteq subscribers[m] /\ FitsAt(m)
  BY FitsEach DEF Fits, TypeOK
<1>2. ASSUME NEW m \in Nif
      PROVE  inactive'[m] \subseteq subscribers'[m] /\ FitsAt(m)'
  <2>1. CASE m = n
    BY <2>1
  <2>2. CASE m # n
    <3>1. /\ mState'[m] = mState[m] /\ subscribers'[m] = subscribers[m]
          /\ inactive'[m] = inactive[m]
      BY <2>2 DEF Acts
    <3>. QED
      BY <1>1, <3>1 DEF FitsAt
  <2>. QED
    BY <2>1, <2>2
<1>3. ListFitsState'
  BY <1>2 DEF ListFitsState, FitsAt, anyActiveSubscribers
<1>. QED
  BY <1>2, <1>3 DEF Acts, SmTypeOK

LEMMA SubscribeFits ==
  ASSUME Fits, NEW n \in Nif, NEW h \in Handle, NEW r, processAgpsEventSubscribe(n, h, r)
  PROVE  SmTypeOK' /\ ListFitsState' /\ Posts(r)
<1>1. Acts(n, r) /\ FitsAt(n) /\ inactive[n] \subseteq subscribers[n]
  BY Subscribe, FitsEach DEF Fits, TypeOK
<1>2. /\ subscribers'[n] = subscribers[n] \cup {h} /\ inactive'[n] = inactive[n]
      /\ \/ mState[n] = "RELEASED" /\ mState'[n] = "PENDING"
         \/ mState[n] # "RELEASED" /\ mState'[n] = mState[n]
  BY Subscribe DEF Fits
<1>3. subscribers[n] # inactive[n] => subscribers'[n] # inactive'[n]
  BY <1>1, <1>2
<1>4. mState[n] = "RELEASED" => subscribers'[n] # inactive'[n]
  BY <1>1, <1>2 DEF FitsAt
<1>5. FitsAt(n)' /\ inactive'[n] \subseteq subscribers'[n]
  BY <1>1, <1>2, <1>3, <1>4 DEF FitsAt
<1>. QED
  BY <1>1, <1>5, ActsFits DEF Acts

LEMMA UnsubscribeFits ==
  ASSUME Fits, NEW n \in Nif, NEW h \in subscribers[n], NEW r,
         processAgpsEventUnsubscribe(n, h, r)
  PROVE  SmTypeOK' /\ ListFitsState' /\ Posts(r)
<1>1. Acts(n, r) /\ FitsAt(n) /\ inactive[n] \subseteq subscribers[n]
  BY Unsubscribe, FitsEach DEF Fits, TypeOK
<1>2. /\ subscribers'[n] = subscribers[n] /\ inactive'[n] = inactive[n] \cup {h}
      /\ \/ mState'[n] = "RELEASING"
         \/ subscribers[n] # inactive'[n] /\ mState'[n] = mState[n]
  BY Unsubscribe DEF Fits
<1>3. FitsAt(n)' /\ inactive'[n] \subseteq subscribers'[n]
  BY <1>1, <1>2 DEF FitsAt
<1>. QED
  BY <1>1, <1>3, ActsFits DEF Acts

LEMMA EventFits ==
  ASSUME Fits, NEW n \in Nif, NEW r, Event(n, r)
  PROVE  SmTypeOK' /\ ListFitsState' /\ Posts(r)
<1>1. TypeOK /\ FitsAt(n) /\ inactive[n] \subseteq subscribers[n]
  BY FitsEach DEF Fits, TypeOK
<1>2. CASE ignored(r)
  <2>1. UNCHANGED smVars /\ Acts(n, r)
    BY <1>1, <1>2, Ignored
  <2>2. FitsAt(n)' /\ inactive'[n] \subseteq subscribers'[n]
    BY <1>1, <2>1 DEF FitsAt, smVars
  <2>. QED
    BY <2>1, <2>2, ActsFits DEF Acts
<1>3. CASE mState[n] = "PENDING" /\ processAgpsEventGranted(n, r)
  <2>1. Acts(n, r) /\ UNCHANGED <<subscribers, inactive>> /\ mState'[n] = "ACQUIRED"
    BY <1>1, <1>3, Granted
  <2>2. FitsAt(n)' /\ inactive'[n] \subseteq subscribers'[n]
    BY <1>1, <1>3, <2>1 DEF FitsAt
  <2>. QED
    BY <2>1, <2>2, ActsFits DEF Acts
<1>4. CASE mState[n] = "RELEASING" /\ closeInactive(n, r)
  <2>1. /\ Acts(n, r) /\ subscribers'[n] = subscribers[n] \ inactive[n] /\ inactive'[n] = {}
        /\ \/ subscribers[n] # inactive[n] /\ mState'[n] = "PENDING"
           \/ subscribers[n] = inactive[n] /\ mState'[n] = "RELEASED"
    BY <1>1, <1>4, CloseInactive
  <2>2. FitsAt(n)' /\ inactive'[n] \subseteq subscribers'[n]
    BY <1>1, <2>1 DEF FitsAt
  <2>. QED
    BY <2>1, <2>2, ActsFits DEF Acts
<1>5. CASE \E status \in {"denied", "closed"} : dropAll(n, status, r)
  <2>1. Acts(n, r) /\ subscribers'[n] = {} /\ inactive'[n] = {} /\ mState'[n] = "RELEASED"
    BY <1>1, <1>5, DropAll
  <2>2. FitsAt(n)' /\ inactive'[n] \subseteq subscribers'[n]
    BY <2>1 DEF FitsAt
  <2>. QED
    BY <2>1, <2>2, ActsFits DEF Acts
<1>. QED
  BY <1>1, <1>2, <1>3, <1>4, <1>5, Events
------------------------------------------------------------------------------
(* The queue.                                                              *)

LEMMA MsgKinds ==
  /\ \A h \in Handle, type \in Request : <<type, h>> \in Msg
  /\ \A n \in Nif, type \in Report : <<type, n>> \in Msg
  /\ \A t \in {"opened", "failed", "closed"} : <<t, "internet">> \in Msg
  /\ <<"init", "agnss">> \in Msg
  BY DEF Msg, Report, Nif

LEMMA SendMsg ==
  ASSUME NEW type, NEW what, <<type, what>> \in Msg, TypeOK, sendMsg(type, what)
  PROVE  /\ queue' \in Seq(Msg)
         /\ Len(queue) \in Nat
         /\ Len(queue') = Len(queue) + 1
         /\ \A i \in 1..Len(queue) : queue'[i] = queue[i]
         /\ queue'[Len(queue')] = <<type, what>>
<1>. HIDE DEF Msg
<1>. QED
  BY DEF sendMsg, TypeOK

LEMMA PostsType ==
  ASSUME NEW r \in Seq(Msg), Posts(r) PROVE queue' \in Seq(Msg)
<1>1. CASE queue' = r
  BY <1>1
<1>2. ASSUME NEW t \in {"opened", "failed", "closed"}, queue' = Append(r, <<t, "internet">>)
      PROVE  queue' \in Seq(Msg)
  <2>1. <<t, "internet">> \in Msg
    BY MsgKinds
  <2>. HIDE DEF Msg
  <2>. QED
    BY <1>2, <2>1
<1>. QED
  BY <1>1, <1>2 DEF Posts

\* what is true of the first message and those behind it
LEMMA Begin ==
  ASSUME NEW type, TypeOK, begin(type)
  PROVE  /\ Len(queue) \in Nat \ {0}
         /\ rest \in Seq(Msg) /\ Len(rest) = Len(queue) - 1
         /\ \A i \in 1..Len(rest) : rest[i] = queue[i + 1]
         /\ queue[1][1] = type /\ queue[1][2] = subject
         /\ type \in Request => subject \in Handle
         /\ type \in Report => subject \in Nif
<1>1. /\ Len(queue) \in Nat \ {0}
      /\ rest \in Seq(Msg) /\ Len(rest) = Len(queue) - 1
      /\ \A i \in 1..Len(rest) : rest[i] = queue[i + 1]
      /\ queue[1][1] = type /\ queue[1][2] = subject
  <2>. HIDE DEF Msg
  <2>. QED
    BY DEF begin, TypeOK, rest, subject
<1>2. queue[1] \in Msg
  <2>. HIDE DEF Msg
  <2>. QED
    BY <1>1 DEF TypeOK
<1>3. type \in Request => queue[1][2] \in Handle
  BY <1>1, <1>2 DEF Msg, Request, Report, Nif
<1>4. type \in Report => queue[1][2] \in Nif
  BY <1>1, <1>2 DEF Msg, Request, Report, Nif
<1>. QED
  BY <1>1, <1>3, <1>4

\* Taking the first message off shifts the others; what NativeAgpsHandler may
\* have added is behind them.
LEMMA Shift ==
  ASSUME NEW type, TypeOK, begin(type), Posts(rest)
  PROVE  /\ Len(queue) \in Nat \ {0} /\ Len(queue') \in Nat
         /\ \A i \in 1..Len(queue') :
              \/ i + 1 \in 1..Len(queue) /\ queue'[i] = queue[i + 1]
              \/ /\ i = Len(queue)
                 /\ queue'[i] \in {"opened", "failed", "closed"} \X {"internet"}
         /\ \A i \in 1..Len(queue) : i # 1 =>
              i - 1 \in 1..Len(queue') /\ queue'[i - 1] = queue[i]
<1>1. /\ Len(queue) \in Nat \ {0} /\ rest \in Seq(Msg) /\ Len(rest) = Len(queue) - 1
      /\ \A i \in 1..Len(rest) : rest[i] = queue[i + 1]
  BY Begin
<1>2. CASE queue' = rest
  BY <1>1, <1>2
<1>3. ASSUME NEW t \in {"opened", "failed", "closed"}, queue' = Append(rest, <<t, "internet">>)
      PROVE  /\ Len(queue') = Len(queue)
             /\ \A i \in 1..Len(rest) : queue'[i] = rest[i]
             /\ queue'[Len(queue)] = <<t, "internet">>
  <2>. HIDE DEF rest, Msg
  <2>. QED
    BY <1>1, <1>3
<1>4. CASE \E t \in {"opened", "failed", "closed"} : queue' = Append(rest, <<t, "internet">>)
  <2>1. PICK t \in {"opened", "failed", "closed"} : queue' = Append(rest, <<t, "internet">>)
    BY <1>4
  <2>2. /\ Len(queue') = Len(queue)
        /\ \A i \in 1..Len(rest) : queue'[i] = rest[i]
        /\ queue'[Len(queue)] = <<t, "internet">>
    BY <2>1, <1>3
  <2>3. queue'[Len(queue)] \in {"opened", "failed", "closed"} \X {"internet"}
    BY <2>2
  <2>4. \A i \in 1..Len(queue') : i \in 1..Len(rest) \/ i = Len(queue)
    BY <1>1, <2>2
  <2>5. \A i \in 1..Len(rest) : i + 1 \in 1..Len(queue) /\ queue'[i] = queue[i + 1]
    BY <1>1, <2>2
  <2>6. \A i \in 1..Len(queue) : i # 1 => i - 1 \in 1..Len(rest)
    BY <1>1
  <2>7. \A i \in 1..Len(queue) : i # 1 => i - 1 \in 1..Len(queue') /\ queue'[i - 1] = queue[i]
    <3> SUFFICES ASSUME NEW i \in 1..Len(queue), i # 1
                 PROVE  i - 1 \in 1..Len(queue') /\ queue'[i - 1] = queue[i]
      OBVIOUS
    <3>1. i - 1 \in 1..Len(rest) /\ (i - 1) + 1 = i
      BY <2>6
    <3>2. i - 1 \in 1..Len(queue')
      BY <1>1, <2>2, <3>1
    <3>. QED
      BY <1>1, <2>2, <3>1, <3>2
  <2>. QED
    BY <1>1, <2>2, <2>3, <2>4, <2>5, <2>7
<1>. QED
  BY <1>2, <1>4 DEF Posts
------------------------------------------------------------------------------
(* Types and the lists, for every behaviour of the modem and the framework. *)

LEMMA TypeOKFrom ==
  ASSUME SmTypeOK', created' \in SUBSET Nif, queue' \in Seq(Msg), wds' \in [Nif -> Nat],
         conn' \in {"closed", "opening", "open"}
  PROVE  TypeOK'
  BY DEF SmTypeOK, TypeOK, States, Stages

\* a message taken by a machine
LEMMA TaskTypes ==
  ASSUME Fits, NEW type, begin(type), Posts(rest), SmTypeOK', ListFitsState',
         UNCHANGED <<created, wds, conn>>
  PROVE  Fits'
<1>1. queue' \in Seq(Msg)
  BY Begin, PostsType DEF Fits
<1>. QED
  BY <1>1, TypeOKFrom DEF Fits, TypeOK

LEMMA TaskFits == ASSUME Fits, Task PROVE Fits'
<1>0. TypeOK /\ ListFitsState
  BY DEF Fits
<1>1. CASE initAgps
  <2>1. begin("init") /\ queue' = rest /\ UNCHANGED <<smVars, wds, conn>>
        /\ created' = created \cup {"agnss"}
    BY <1>1 DEF initAgps
  <2>2. queue' \in Seq(Msg)
    BY <1>0, <2>1, Begin
  <2>3. SmTypeOK' /\ ListFitsState'
    BY <1>0, <2>1, SmTypes DEF SmTypeOK, smVars, ListFitsState, anyActiveSubscribers
  <2>4. created' \in SUBSET Nif
    BY <1>0, <2>1 DEF TypeOK, Nif
  <2>. QED
    BY <1>0, <2>1, <2>2, <2>3, <2>4, TypeOKFrom DEF Fits, TypeOK
<1>2. CASE requestATL
  <2>1. PICK n \in created : begin(n) /\ processAgpsEventSubscribe(n, subject, rest)
    BY <1>2 DEF requestATL
  <2>2. n \in Nif /\ n \in Request
    BY <1>0, <2>1 DEF TypeOK, Request
  <2>3. subject \in Handle
    BY <1>0, <2>1, <2>2, Begin
  <2>4. SmTypeOK' /\ ListFitsState' /\ Posts(rest)
    BY <2>1, <2>2, <2>3, SubscribeFits
  <2>. QED
    BY <1>2, <2>1, <2>4, TaskTypes DEF requestATL
<1>3. CASE requestATLNoMachine
  <2>1. PICK n \in Nif : begin(n) /\ notify({subject}, "denied") /\ queue' = rest
          /\ UNCHANGED <<created, mState, subscribers, inactive, wds, calls, conn>>
    BY <1>3 DEF requestATLNoMachine
  <2>2. modem' \in [Handle -> Stages] /\ Posts(rest)
    BY <1>0, <2>1, Notify DEF Posts
  <2>3. SmTypeOK' /\ ListFitsState'
    BY <1>0, <2>1, <2>2, SmTypes DEF SmTypeOK, ListFitsState, anyActiveSubscribers
  <2>. QED
    BY <2>1, <2>2, <2>3, TaskTypes
<1>4. CASE releaseATL
  <2>1. begin("release") /\ UNCHANGED <<created, wds, conn>>
    BY <1>4 DEF releaseATL
  <2>2. SmTypeOK' /\ ListFitsState' /\ Posts(rest)
    <3>1. CASE /\ subject \in subscribers["agnss"]
               /\ processAgpsEventUnsubscribe("agnss", subject, rest)
      BY <3>1, UnsubscribeFits DEF Nif
    <3>2. CASE /\ subject \in subscribers["internet"]
               /\ processAgpsEventUnsubscribe("internet", subject, rest)
      BY <3>2, UnsubscribeFits DEF Nif
    <3>3. CASE ignored(rest)
      BY <1>0, <3>3, SmTypes DEF ignored, SmTypeOK, smVars, ListFitsState,
         anyActiveSubscribers, Posts
    <3>. QED
      BY <1>4, <3>1, <3>2, <3>3 DEF releaseATL
  <2>. QED
    BY <2>1, <2>2, TaskTypes
<1>5. CASE reportOpened
  <2>1. begin("opened") /\ UNCHANGED <<created, conn>>
    BY <1>5 DEF reportOpened
  <2>2. subject \in Nif /\ rest \in Seq(Msg)
    BY <1>0, <2>1, Begin DEF Report
  <2>3. CASE ignored(rest) /\ wds' = [wds EXCEPT ![subject] = @ + 1]
    <3>1. queue' \in Seq(Msg) /\ UNCHANGED smVars
      BY <2>2, <2>3 DEF ignored
    <3>2. SmTypeOK' /\ ListFitsState'
      BY <1>0, <3>1, SmTypes DEF SmTypeOK, smVars, ListFitsState, anyActiveSubscribers
    <3>3. wds' \in [Nif -> Nat]
      BY <1>0, <2>2, <2>3 DEF TypeOK
    <3>. QED
      BY <1>0, <2>1, <3>1, <3>2, <3>3, TypeOKFrom DEF Fits, TypeOK
  <2>4. CASE processAgpsEventGranted(subject, rest) /\ UNCHANGED wds
    BY <2>1, <2>2, <2>4, EventFits, TaskTypes DEF Event
  <2>. QED
    BY <1>5, <2>3, <2>4 DEF reportOpened
<1>6. CASE reportAtlOpenSuccess \/ reportAtlOpenFailed \/ reportAtlClosed
  <2>1. PICK type \in Report : begin(type)
    BY <1>6 DEF reportAtlOpenSuccess, reportAtlOpenFailed, reportAtlClosed, Report
  <2>2. Event(subject, rest) /\ UNCHANGED <<created, wds, conn>>
    BY <1>6 DEF reportAtlOpenSuccess, reportAtlOpenFailed, reportAtlClosed, Event
  <2>3. subject \in Nif
    BY <1>0, <2>1, Begin
  <2>. QED
    BY <2>1, <2>2, <2>3, EventFits, TaskTypes
<1>. QED
  BY <1>1, <1>2, <1>3, <1>4, <1>5, <1>6 DEF Task

LEMMA ModemFits ==
  ASSUME Fits, (\E h \in Handle : ModemRequests(h) \/ ModemReleases(h)) \/ ModemRestarts
  PROVE  Fits'
<1>1. UNCHANGED <<created, mState, subscribers, inactive, wds, calls, conn>>
  BY DEF ModemRequests, ModemReleases, ModemRestarts
<1>2. modem' \in [Handle -> {"idle", "requested", "open", "closing", "confused"}]
  BY DEF ModemRequests, ModemReleases, ModemRestarts, Fits, TypeOK
<1>3. queue' \in Seq(Msg)
  BY MsgKinds, SendMsg DEF ModemRequests, ModemReleases, ModemRestarts, Fits, TypeOK, Request
<1>. QED
  BY <1>1, <1>2, <1>3 DEF Fits, TypeOK, ListFitsState, anyActiveSubscribers

LEMMA FrameworkFits ==
  ASSUME Fits,
         \/ FrameworkRegisters
         \/ FrameworkRequested \/ FrameworkReleased \/ FrameworkOpens
         \/ FrameworkOpensLongApn \/ FrameworkFails \/ FrameworkLoses \/ WdsAnswers
  PROVE  Fits'
<1>. USE DEF Fits
<1>1. CASE FrameworkOpensLongApn
  <2>1. Event("agnss", queue) /\ "agnss" \in Nif /\ queue \in Seq(Msg)
        /\ UNCHANGED <<created, wds>> /\ conn' = "open"
    BY <1>1 DEF FrameworkOpensLongApn, Event, Nif, TypeOK
  <2>2. SmTypeOK' /\ ListFitsState' /\ Posts(queue)
    BY <2>1, EventFits
  <2>3. queue' \in Seq(Msg)
    BY <2>1, <2>2, PostsType
  <2>. QED
    BY <2>1, <2>2, <2>3, TypeOKFrom DEF TypeOK
<1>2. CASE ~FrameworkOpensLongApn
  <2>1. queue' \in Seq(Msg)
    <3>1. CASE UNCHANGED queue
      BY <3>1 DEF TypeOK
    <3>2. CASE sendMsg("init", "agnss")
      BY <3>2, MsgKinds, SendMsg
    <3>3. CASE \E n \in Nif, type \in Report : sendMsg(type, n)
      BY <3>3, MsgKinds, SendMsg
    <3>. QED
      BY <1>2, <3>1, <3>2, <3>3 DEF FrameworkRegisters, FrameworkRequested,
         FrameworkReleased, FrameworkOpens, FrameworkFails, FrameworkLoses, WdsAnswers,
         Nif, Report
  <2>2. UNCHANGED <<created, mState, subscribers, inactive, modem>>
    BY <1>2 DEF FrameworkRegisters, FrameworkRequested, FrameworkReleased, FrameworkOpens,
       FrameworkFails, FrameworkLoses, WdsAnswers, smVars
  <2>3. calls' \in Seq({"request", "release"})
    <3>1. calls' = calls \/ (calls # <<>> /\ calls' = Tail(calls))
      BY <1>2 DEF FrameworkRegisters, FrameworkRequested, FrameworkReleased,
         FrameworkOpens, FrameworkFails, FrameworkLoses, WdsAnswers, smVars
    <3>2. calls \in Seq({"request", "release"})
      BY DEF TypeOK
    <3>3. CASE calls' = calls
      BY <3>2, <3>3
    <3>4. CASE calls # <<>> /\ calls' = Tail(calls)
      BY <3>2, <3>4
    <3>. QED
      BY <3>1, <3>3, <3>4
  <2>4. conn' \in {"closed", "opening", "open"}
    BY <1>2 DEF FrameworkRegisters, FrameworkRequested, FrameworkReleased, FrameworkOpens,
       FrameworkFails, FrameworkLoses, WdsAnswers, TypeOK
  <2>5. wds' \in [Nif -> Nat]
    <3>1. CASE WdsAnswers
      <4>1. PICK n \in Nif : wds[n] > 0 /\ wds' = [wds EXCEPT ![n] = @ - 1]
        BY <3>1 DEF WdsAnswers
      <4>2. wds \in [Nif -> Nat] /\ wds[n] - 1 \in Nat
        BY <4>1 DEF TypeOK
      <4>. QED
        BY <4>1, <4>2
    <3>2. CASE UNCHANGED wds
      BY <3>2 DEF TypeOK
    <3>. QED
      BY <1>2, <3>1, <3>2 DEF FrameworkRegisters, FrameworkRequested, FrameworkReleased,
         FrameworkOpens, FrameworkFails, FrameworkLoses
  <2>. QED
    BY <2>1, <2>2, <2>3, <2>4, <2>5 DEF TypeOK, ListFitsState, anyActiveSubscribers
<1>. QED
  BY <1>1, <1>2

LEMMA NextFits == Fits /\ [Next]_vars => Fits'
<1> SUFFICES ASSUME Fits, [Next]_vars PROVE Fits'
  OBVIOUS
<1>1. CASE UNCHANGED vars
  BY <1>1 DEF vars, Fits, TypeOK, ListFitsState, anyActiveSubscribers
<1>. QED
  BY <1>1, TaskFits, ModemFits, FrameworkFits DEF Next

LEMMA InitFits == Init => Fits
  BY DEF Init, Fits, TypeOK, ListFitsState, Msg, Nif

\* Types, for any handles, features and bounds.
THEOREM TypeCorrect == Spec => []TypeOK
<1>1. Spec => []Fits
  BY InitFits, NextFits, PTL DEF Spec
<1>2. Fits => TypeOK
  BY DEF Fits
<1>. QED
  BY <1>1, <1>2, PTL

\* The subscriber list of each machine always fits its state, whatever order the
\* answers of the framework, the library and a restarted modem come in.
THEOREM ListIsConsistent == Spec => []ListFitsState
<1>1. Spec => []Fits
  BY InitFits, NextFits, PTL DEF Spec
<1>2. Fits => ListFitsState
  BY DEF Fits
<1>. QED
  BY <1>1, <1>2, PTL
------------------------------------------------------------------------------
(* What each step of a machine does to the handles in the lists.           *)

SessionStep ==
  \A h \in Handle : \/ modem'[h] = modem[h]
                     \/ <<modem[h], modem'[h]>> \in Sessions!Moves

\* the facts about the lists, without the queue
Staged == Fits /\ Disjoint /\ StageFits /\ NotConfused

\* What an event of machine n does to a handle: nothing to one outside its list;
\* one inside stays closing if it was, unless it leaves the list.
Served(n) ==
  /\ subscribers'[n] \subseteq subscribers[n]
  /\ \A h \in Handle :
       /\ h \notin subscribers[n] => modem'[h] = modem[h]
       /\ h \in subscribers'[n] /\ modem[h] = "closing" => modem'[h] = "closing"

\* the same of the lists together
Serves ==
  \A h \in Handle :
    \/ h \notin Listed /\ h \notin Listed' /\ modem'[h] = modem[h]
    \/ /\ h \in Listed
       /\ h \in Listed' /\ modem[h] = "closing" => modem'[h] = "closing"

LEMMA OtherStages ==
  ASSUME Staged, NEW n \in Nif, NEW r, Acts(n, r), StageAt(n)',
         \A m \in Nif \ {n} : \A g \in subscribers[m] : modem'[g] = modem[g]
  PROVE  StageFits'
<1>1. ASSUME NEW m \in Nif PROVE StageAt(m)'
  <2>1. CASE m = n
    BY <2>1
  <2>2. CASE m # n
    <3>1. /\ mState'[m] = mState[m] /\ subscribers'[m] = subscribers[m]
          /\ inactive'[m] = inactive[m]
      BY <2>2 DEF Acts
    <3>2. StageAt(m) /\ inactive[m] \subseteq subscribers[m]
      BY DEF Staged, StageFits, Fits, TypeOK
    <3>3. \A g \in subscribers[m] : modem'[g] = modem[g]
      BY <2>2
    <3>. QED
      BY <3>1, <3>2, <3>3 DEF StageAt
  <2>. QED
    BY <2>1, <2>2
<1>. QED
  BY <1>1 DEF StageFits

LEMMA ServedServes ==
  ASSUME Staged, NEW n \in Nif, NEW r, Acts(n, r), Served(n), StageAt(n)'
  PROVE  StageFits' /\ Disjoint' /\ Serves
<1>1. \A m \in Nif \ {n} : subscribers[m] \cap subscribers[n] = {}
  BY DEF Staged, Disjoint, Nif
<1>2. \A m \in Nif \ {n} : subscribers'[m] = subscribers[m]
  BY DEF Acts
<1>3. subscribers \in [Nif -> SUBSET Handle]
  BY DEF Staged, Fits, TypeOK
<1>4. \A m \in Nif \ {n} : \A g \in subscribers[m] : modem'[g] = modem[g]
  BY <1>1, <1>3 DEF Served
<1>5. StageFits'
  BY <1>4, OtherStages
<1>6. Disjoint'
  BY <1>2 DEF Staged, Disjoint, Served, Nif
<1>7. PICK m \in Nif : m # n /\ Nif = {n, m}
  BY DEF Nif
<1>8. /\ Listed = subscribers[n] \cup subscribers[m]
      /\ Listed' = subscribers'[n] \cup subscribers[m]
  BY <1>2, <1>7 DEF Listed, Nif
<1>9. Serves
  <2>1. ASSUME NEW h \in Handle, h \in subscribers[m]
        PROVE  h \in Listed /\ modem'[h] = modem[h]
    BY <1>4, <1>7, <1>8, <2>1
  <2>2. ASSUME NEW h \in Handle, h \notin subscribers[m], h \in subscribers[n]
        PROVE  h \in Listed /\ (h \in Listed' /\ modem[h] = "closing"
                                  => modem'[h] = "closing")
    BY <1>8, <2>2 DEF Served
  <2>3. ASSUME NEW h \in Handle, h \notin subscribers[m], h \notin subscribers[n]
        PROVE  h \notin Listed /\ h \notin Listed' /\ modem'[h] = modem[h]
    BY <1>8, <2>3 DEF Served
  <2>. QED
    BY <2>1, <2>2, <2>3 DEF Serves
<1>. QED
  BY <1>5, <1>6, <1>9

LEMMA SubscribeServes ==
  ASSUME Staged, NEW n \in Nif, NEW h \in Handle, h \notin Listed, NEW r,
         modem[h] \in {"requested", "closing"}, processAgpsEventSubscribe(n, h, r)
  PROVE  /\ StageFits' /\ Disjoint' /\ NotConfused' /\ SessionStep /\ Posts(r)
         /\ Listed' = Listed \cup {h}
         /\ modem[h] = "closing" => modem'[h] = "closing"
         /\ \A g \in Handle \ {h} : modem'[g] = modem[g]
<1>0. TypeOK /\ StageAt(n) /\ subscribers \in [Nif -> SUBSET Handle]
      /\ inactive[n] \subseteq subscribers[n]
  BY DEF Staged, Fits, TypeOK, StageFits
<1>1. /\ Acts(n, r) /\ subscribers'[n] = subscribers[n] \cup {h} /\ inactive' = inactive
      /\ \/ mState[n] # "ACQUIRED" /\ mState'[n] # "ACQUIRED" /\ modem' = modem
         \/ mState[n] = "ACQUIRED" /\ mState' = mState /\ notify({h}, "granted")
  BY <1>0, Subscribe
<1>2. \A g \in Handle \ {h} : modem'[g] = modem[g]
  BY <1>0, <1>1, Notify
<1>3. \/ mState[n] # "ACQUIRED" /\ mState'[n] # "ACQUIRED" /\ modem'[h] = modem[h]
      \/ /\ mState[n] = "ACQUIRED" /\ mState'[n] = "ACQUIRED"
         /\ modem[h] = "requested" => modem'[h] = "open"
         /\ modem[h] = "closing" => modem'[h] = "closing"
  BY <1>0, <1>1, Notify DEF told
<1>4. \A m \in Nif : h \notin subscribers[m]
  BY DEF Listed, Nif
<1>5. StageAt(n)'
  BY <1>0, <1>1, <1>2, <1>3, <1>4 DEF StageAt
<1>6. \A m \in Nif \ {n} : \A g \in subscribers[m] : modem'[g] = modem[g]
  BY <1>0, <1>2, <1>4
<1>7. StageFits'
  BY <1>1, <1>5, <1>6, OtherStages
<1>8. \A m \in Nif \ {n} : subscribers'[m] = subscribers[m]
  BY <1>1 DEF Acts
<1>9. Disjoint' /\ Listed' = Listed \cup {h}
  BY <1>1, <1>4, <1>8 DEF Staged, Disjoint, Listed, Nif
<1>10. NotConfused' /\ SessionStep
  BY <1>2, <1>3 DEF Staged, NotConfused, SessionStep, Sessions!Moves
<1>. QED
  BY <1>1, <1>2, <1>3, <1>7, <1>9, <1>10 DEF Acts

LEMMA UnsubscribeServes ==
  ASSUME Staged, NEW n \in Nif, NEW h \in subscribers[n], modem[h] = "closing", NEW r,
         processAgpsEventUnsubscribe(n, h, r)
  PROVE  StageFits' /\ Disjoint' /\ NotConfused' /\ SessionStep /\ Serves /\ Posts(r)
<1>0. TypeOK /\ StageAt(n) /\ subscribers \in [Nif -> SUBSET Handle]
      /\ inactive[n] \subseteq subscribers[n]
  BY DEF Staged, Fits, TypeOK, StageFits
<1>1. /\ Acts(n, r) /\ subscribers' = subscribers /\ modem' = modem
      /\ inactive'[n] = inactive[n] \cup {h}
      /\ \/ mState'[n] = "RELEASING" /\ subscribers[n] = inactive'[n]
         \/ mState'[n] = mState[n]
  BY <1>0, Unsubscribe
<1>2. \A g \in inactive'[n] : modem[g] = "closing"
  BY <1>0, <1>1 DEF StageAt
<1>3. StageAt(n)'
  BY <1>0, <1>1, <1>2 DEF StageAt
<1>4. Served(n)
  BY <1>1 DEF Served
<1>. QED
  BY <1>1, <1>3, <1>4, ServedServes DEF Staged, NotConfused, SessionStep, Acts

LEMMA GrantedServes ==
  ASSUME Staged, NEW n \in Nif, NEW r, processAgpsEventGranted(n, r), mState[n] = "PENDING"
  PROVE  StageAt(n)' /\ NotConfused' /\ SessionStep /\ Served(n) /\ Acts(n, r)
<1>0. TypeOK /\ StageAt(n) /\ subscribers[n] \in SUBSET Handle
      /\ inactive[n] \subseteq subscribers[n]
  BY DEF Staged, Fits, TypeOK, StageFits
<1>1. /\ Acts(n, r) /\ UNCHANGED <<subscribers, inactive>> /\ mState'[n] = "ACQUIRED"
      /\ notify(subscribers[n] \ inactive[n], "granted")
  BY <1>0, Granted
<1>2. \A h \in Handle : h \notin subscribers[n] \ inactive[n] => modem'[h] = modem[h]
  BY <1>0, <1>1, Notify
<1>3. \A h \in Handle : h \in subscribers[n] \ inactive[n] =>
        /\ modem[h] \in {"requested", "closing"}
        /\ modem[h] = "requested" => modem'[h] = "open"
        /\ modem[h] = "closing" => modem'[h] = "closing"
  <2> SUFFICES ASSUME NEW h \in Handle, h \in subscribers[n] \ inactive[n]
               PROVE  /\ modem[h] \in {"requested", "closing"}
                      /\ modem[h] = "requested" => modem'[h] = "open"
                      /\ modem[h] = "closing" => modem'[h] = "closing"
    OBVIOUS
  <2>1. modem'[h] = told(modem[h], "granted")
    BY <1>0, <1>1, Notify
  <2>. QED
    BY <1>0, <2>1 DEF StageAt, told
<1>4. StageAt(n)'
  BY <1>0, <1>1, <1>2, <1>3 DEF StageAt
<1>5. NotConfused' /\ SessionStep
  BY <1>2, <1>3 DEF Staged, NotConfused, SessionStep, Sessions!Moves
<1>6. Served(n)
  BY <1>0, <1>1, <1>2, <1>3 DEF Served
<1>. QED
  BY <1>1, <1>4, <1>5, <1>6

LEMMA CloseInactiveServes ==
  ASSUME Staged, NEW n \in Nif, NEW r, mState[n] = "RELEASING", closeInactive(n, r)
  PROVE  StageAt(n)' /\ NotConfused' /\ SessionStep /\ Served(n) /\ Acts(n, r)
<1>0. TypeOK /\ StageAt(n) /\ subscribers[n] \in SUBSET Handle
      /\ inactive[n] \subseteq subscribers[n]
  BY DEF Staged, Fits, TypeOK, StageFits
<1>1. /\ Acts(n, r) /\ notify(inactive[n], "closed") /\ mState'[n] # "ACQUIRED"
      /\ subscribers'[n] = subscribers[n] \ inactive[n] /\ inactive'[n] = {}
  BY <1>0, CloseInactive
<1>2. \A h \in Handle : h \notin inactive[n] => modem'[h] = modem[h]
  BY <1>0, <1>1, Notify
<1>3. \A h \in Handle : h \in inactive[n] => modem[h] = "closing" /\ modem'[h] = "idle"
  BY <1>0, <1>1, Notify DEF told, StageAt
<1>4. StageAt(n)'
  BY <1>0, <1>1, <1>2 DEF StageAt
<1>5. NotConfused' /\ SessionStep
  BY <1>2, <1>3 DEF Staged, NotConfused, SessionStep, Sessions!Moves
<1>6. Served(n)
  BY <1>0, <1>1, <1>2 DEF Served
<1>. QED
  BY <1>1, <1>4, <1>5, <1>6

LEMMA DropAllServes ==
  ASSUME Staged, NEW n \in Nif, NEW r, NEW status \in {"denied", "closed"},
         dropAll(n, status, r),
         \/ mState[n] = "ACQUIRED" /\ status = "closed"
         \/ mState[n] = "PENDING" /\ status = "denied"
  PROVE  StageAt(n)' /\ NotConfused' /\ SessionStep /\ Served(n) /\ Acts(n, r)
<1>0. TypeOK /\ StageAt(n) /\ subscribers[n] \in SUBSET Handle
      /\ inactive[n] \subseteq subscribers[n]
  BY DEF Staged, Fits, TypeOK, StageFits
<1>1. /\ Acts(n, r) /\ notify(subscribers[n], status)
      /\ subscribers'[n] = {} /\ inactive'[n] = {}
  BY <1>0, DropAll
<1>2. \A h \in Handle : h \notin subscribers[n] => modem'[h] = modem[h]
  BY <1>0, <1>1, Notify
<1>3. \A h \in Handle : h \in subscribers[n] =>
        modem'[h] = "idle" /\ modem[h] \in {"requested", "open", "closing"}
  <2> SUFFICES ASSUME NEW h \in Handle, h \in subscribers[n]
               PROVE  modem'[h] = "idle" /\ modem[h] \in {"requested", "open", "closing"}
    OBVIOUS
  <2>1. modem'[h] = told(modem[h], status)
    BY <1>0, <1>1, Notify
  <2>. QED
    BY <1>0, <2>1 DEF StageAt, told
<1>4. StageAt(n)'
  BY <1>1 DEF StageAt
<1>5. NotConfused' /\ SessionStep
  BY <1>2, <1>3 DEF Staged, NotConfused, SessionStep, Sessions!Moves
<1>6. Served(n)
  BY <1>1, <1>2 DEF Served
<1>. QED
  BY <1>1, <1>4, <1>5, <1>6

LEMMA UnchangedServes ==
  ASSUME Staged, UNCHANGED <<mState, subscribers, inactive, modem>>
  PROVE  StageFits' /\ Disjoint' /\ NotConfused' /\ SessionStep /\ Serves
<1>1. StageFits' /\ Disjoint'
  BY DEF Staged, StageFits, StageAt, Disjoint
<1>2. NotConfused' /\ SessionStep /\ Serves
  BY DEF Staged, NotConfused, SessionStep, Serves, Listed
<1>. QED
  BY <1>1, <1>2

LEMMA EventServes ==
  ASSUME Staged, NEW n \in Nif, NEW r, Event(n, r)
  PROVE  StageFits' /\ Disjoint' /\ NotConfused' /\ SessionStep /\ Serves /\ Posts(r)
<1>0. TypeOK
  BY DEF Staged, Fits
<1>1. CASE ignored(r)
  BY <1>1, UnchangedServes DEF ignored, smVars, Posts
<1>2. CASE /\ StageAt(n)' /\ NotConfused' /\ SessionStep /\ Served(n) /\ Acts(n, r)
  BY <1>2, ServedServes DEF Acts
<1>3. CASE mState[n] = "PENDING" /\ processAgpsEventGranted(n, r)
  BY <1>2, <1>3, GrantedServes
<1>4. CASE mState[n] = "RELEASING" /\ closeInactive(n, r)
  BY <1>2, <1>4, CloseInactiveServes
<1>5. CASE \/ mState[n] = "ACQUIRED" /\ dropAll(n, "closed", r)
           \/ mState[n] = "PENDING" /\ dropAll(n, "denied", r)
  BY <1>2, <1>5, DropAllServes
<1>. QED
  BY <1>0, <1>1, <1>3, <1>4, <1>5, Events
------------------------------------------------------------------------------
(* What each step does to the messages about a handle.                     *)

LEMMA Later ==
  ASSUME TypeOK, NEW type, begin(type), Posts(rest)
  PROVE  /\ Len(queue') \in Nat /\ Len(queue) \in Nat \ {0}
         /\ \A i \in 1..Len(queue'), h \in Handle :
              /\ requestAt(i, h)' => i + 1 \in 1..Len(queue) /\ requestAt(i + 1, h)
              /\ releaseAt(i, h)' => i + 1 \in 1..Len(queue) /\ releaseAt(i + 1, h)
<1>1. /\ Len(queue') \in Nat /\ Len(queue) \in Nat \ {0}
      /\ \A i \in 1..Len(queue') :
           \/ i + 1 \in 1..Len(queue) /\ queue'[i] = queue[i + 1]
           \/ queue'[i] \in {"opened", "failed", "closed"} \X {"internet"}
  BY Shift
<1>2. \A m \in {"opened", "failed", "closed"} \X {"internet"} :
        m[1] \notin Nif /\ m[1] # "release"
  BY DEF Nif
<1>. QED
  BY <1>1, <1>2 DEF requestAt, releaseAt

\* An event keeps what is said of the messages behind it.
LEMMA ServesKeepsQueue ==
  ASSUME TypeOK, RequestFits, ReleaseFits, Serves, NEW type, begin(type), Posts(rest)
  PROVE  RequestFits' /\ ReleaseFits'
<1>1. ASSUME NEW i \in 1..Len(queue'), NEW h \in Handle, requestAt(i, h)'
      PROVE  /\ h \notin Listed'
             /\ modem'[h] \in {"requested", "closing"}
             /\ \A j \in 1..Len(queue') : requestAt(j, h)' => j = i
  <2>1. i + 1 \in 1..Len(queue) /\ requestAt(i + 1, h)
    BY <1>1, Later
  <2>2. /\ h \notin Listed /\ modem[h] \in {"requested", "closing"}
        /\ \A j \in 1..Len(queue) : requestAt(j, h) => j = i + 1
    BY <2>1 DEF RequestFits
  <2>3. ASSUME NEW j \in 1..Len(queue'), requestAt(j, h)' PROVE j = i
    <3>1. j + 1 \in 1..Len(queue) /\ requestAt(j + 1, h)
      BY <2>3, Later
    <3>2. j + 1 = i + 1
      BY <2>2, <3>1
    <3>. QED
      BY <3>2
  <2>. QED
    BY <2>2, <2>3 DEF Serves
<1>2. ASSUME NEW i \in 1..Len(queue'), NEW h \in Handle, releaseAt(i, h)'
      PROVE  modem'[h] = "closing" \/ /\ h \notin Listed'
                                      /\ \A j \in 1..i : ~requestAt(j, h)'
  <2>1. i + 1 \in 1..Len(queue) /\ releaseAt(i + 1, h) /\ Len(queue') \in Nat
    BY <1>2, Later
  <2>2. \A j \in 1..i : /\ j \in 1..Len(queue') /\ j + 1 \in 1..(i + 1)
    BY <2>1
  <2>3. CASE h \in Listed
    <3>1. modem[h] = "closing"
      BY <2>1, <2>3 DEF ReleaseFits
    <3>2. \A j \in 1..i : ~requestAt(j, h)'
      BY <2>2, <2>3, Later DEF RequestFits
    <3>. QED
      BY <2>3, <3>1, <3>2 DEF Serves
  <2>4. CASE h \notin Listed
    <3>1. h \notin Listed' /\ modem'[h] = modem[h]
      BY <2>4 DEF Serves
    <3>2. CASE modem[h] = "closing"
      BY <3>1, <3>2
    <3>3. CASE \A j \in 1..(i + 1) : ~requestAt(j, h)
      BY <2>2, <3>1, <3>3, Later
    <3>. QED
      BY <2>1, <3>2, <3>3 DEF ReleaseFits
  <2>. QED
    BY <2>3, <2>4
<1>. QED
  BY <1>1, <1>2 DEF RequestFits, ReleaseFits

\* A message of the framework or the library says nothing of a handle.
LEMMA ReportKeepsQueue ==
  ASSUME TypeOK, RequestFits, ReleaseFits, NEW type \in Report \cup {"init"},
         NEW n \in Nif, <<type, n>> \in Msg, sendMsg(type, n),
         UNCHANGED <<subscribers, modem>>
  PROVE  RequestFits' /\ ReleaseFits'
<1>1. /\ Len(queue) \in Nat /\ Len(queue') = Len(queue) + 1
      /\ \A i \in 1..Len(queue) : queue'[i] = queue[i]
      /\ queue'[Len(queue')] = <<type, n>>
  BY SendMsg
<1>2. \A i \in 1..Len(queue'), h \in Handle :
        /\ requestAt(i, h)' => i \in 1..Len(queue) /\ requestAt(i, h)
        /\ releaseAt(i, h)' => i \in 1..Len(queue) /\ releaseAt(i, h)
  BY <1>1 DEF requestAt, releaseAt, Report, Nif
<1>5. Listed' = Listed
  BY DEF Listed
<1>3. RequestFits'
  BY <1>2, <1>5 DEF RequestFits
<1>4. ReleaseFits'
  <2>1. ASSUME NEW i \in 1..Len(queue'), NEW h \in Handle, releaseAt(i, h)'
        PROVE  modem[h] = "closing" \/ /\ h \notin Listed
                                       /\ \A j \in 1..i : ~requestAt(j, h)'
    <3>1. i \in 1..Len(queue) /\ releaseAt(i, h)
      BY <2>1, <1>2
    <3>2. \A j \in 1..i : j \in 1..Len(queue')
      BY <1>1
    <3>. QED
      BY <3>1, <3>2, <1>2 DEF ReleaseFits
  <2>. QED
    BY <2>1, <1>5 DEF ReleaseFits
<1>. QED
  BY <1>3, <1>4

\* The session of one handle moves at the modem's wish, with a message.
LEMMA ModemKeepsQueue ==
  ASSUME Inv, NEW g \in Handle, ModemRequests(g) \/ ModemReleases(g)
  PROVE  RequestFits' /\ ReleaseFits'
<1>1. TypeOK /\ Listed' = Listed /\ \A h \in Handle \ {g} : modem'[h] = modem[h]
  BY DEF Inv, TypeOK, ModemRequests, ModemReleases, Listed
<1>2. PICK type \in Request :
        /\ sendMsg(type, g)
        /\ type = "release" => /\ modem'[g] = "closing"
                               /\ modem[g] \in {"requested", "open"}
        /\ type # "release" => modem[g] = "idle" /\ modem'[g] = "requested"
  <2>1. modem \in [Handle -> Stages]
    BY DEF Inv, TypeOK, Stages
  <2>2. CASE ModemRequests(g)
    <3>1. PICK n \in Nif : sendMsg(n, g)
      BY <2>2 DEF ModemRequests
    <3>2. n \in Request /\ n # "release"
      BY DEF Request, Nif
    <3>3. modem[g] = "idle" /\ modem'[g] = "requested"
      BY <2>1, <2>2 DEF ModemRequests
    <3>. QED
      BY <3>1, <3>2, <3>3
  <2>3. CASE ModemReleases(g)
    BY <2>1, <2>3 DEF ModemReleases, Request
  <2>. QED
    BY <2>2, <2>3
<1>3. /\ Len(queue) \in Nat /\ Len(queue') = Len(queue) + 1
      /\ \A i \in 1..Len(queue) : queue'[i] = queue[i]
      /\ queue'[Len(queue')] = <<type, g>>
  BY <1>1, <1>2, MsgKinds, SendMsg
<1>4. \A i \in 1..Len(queue), h \in Handle :
        /\ requestAt(i, h)' <=> requestAt(i, h)
        /\ releaseAt(i, h)' <=> releaseAt(i, h)
  BY <1>3 DEF requestAt, releaseAt
<1>5. \A n \in 1..Len(queue'), h \in Handle :
        n = Len(queue') => /\ requestAt(n, h)' <=> h = g /\ type # "release"
                           /\ releaseAt(n, h)' <=> h = g /\ type = "release"
  BY <1>3 DEF requestAt, releaseAt, Request, Nif
<1>6. \A i \in 1..Len(queue') : i \in 1..Len(queue) \/ i = Len(queue')
  BY <1>3
<1>7. type # "release" => /\ g \notin Listed
                         /\ \A i \in 1..Len(queue) : ~requestAt(i, g)
  BY <1>2 DEF Inv, StageFits, StageAt, RequestFits, Listed, Nif
<1>8. RequestFits'
  <2>1. ASSUME NEW i \in 1..Len(queue'), NEW h \in Handle, requestAt(i, h)'
        PROVE  /\ h \notin Listed
               /\ modem'[h] \in {"requested", "closing"}
               /\ \A j \in 1..Len(queue') : requestAt(j, h)' => j = i
    <3>1. CASE i \in 1..Len(queue)
      <4>1. /\ requestAt(i, h) /\ h \notin Listed
            /\ modem[h] \in {"requested", "closing"}
            /\ \A j \in 1..Len(queue) : requestAt(j, h) => j = i
        BY <2>1, <3>1, <1>4 DEF Inv, RequestFits
      <4>2. h = g => type = "release"
        BY <4>1, <1>7, <3>1
      <4>. QED
        BY <4>1, <4>2, <1>1, <1>2, <1>4, <1>5, <1>6
    <3>2. CASE i = Len(queue')
      <4>1. h = g /\ type # "release"
        BY <2>1, <3>2, <1>5
      <4>. QED
        BY <4>1, <3>2, <1>2, <1>4, <1>6, <1>7
    <3>. QED
      BY <3>1, <3>2, <1>6
  <2>. QED
    BY <2>1, <1>1 DEF RequestFits
<1>9. ReleaseFits'
  <2>1. ASSUME NEW i \in 1..Len(queue'), NEW h \in Handle, releaseAt(i, h)',
               modem'[h] # "closing"
        PROVE  h \notin Listed /\ \A j \in 1..i : ~requestAt(j, h)'
    <3>0. i # Len(queue')
      BY <2>1, <1>2, <1>5
    <3>1. i \in 1..Len(queue) /\ releaseAt(i, h)
      BY <2>1, <3>0, <1>4, <1>6
    <3>4. modem[h] # "closing"
      BY <2>1, <1>1, <1>2
    <3>2. h \notin Listed /\ \A j \in 1..i : ~requestAt(j, h)
      BY <3>1, <3>4 DEF Inv, ReleaseFits
    <3>3. \A j \in 1..i : j \in 1..Len(queue)
      BY <3>1, <1>3
    <3>. QED
      BY <3>2, <3>3, <1>4
  <2>. QED
    BY <2>1, <1>1 DEF ReleaseFits
<1>. QED
  BY <1>8, <1>9

\* The answer to a request is behind every other message about its handle.
LEMMA AnswerKeepsQueue ==
  ASSUME TypeOK, RequestFits, ReleaseFits, NEW type \in Nif, begin(type), Posts(rest),
         NEW g \in Handle, g = subject,
         \A h \in Handle \ {g} : /\ h \in Listed' <=> h \in Listed
                                 /\ modem'[h] = modem[h],
         \/ modem[g] = "closing" => modem'[g] = "closing"
         \/ g \notin Listed'
  PROVE  RequestFits' /\ ReleaseFits'
<1>1. requestAt(1, g) /\ 1 \in 1..Len(queue) /\ Len(queue') \in Nat
  BY Begin, Later DEF requestAt
<1>2. \A i \in 1..Len(queue) : requestAt(i, g) => i = 1
  BY <1>1 DEF RequestFits
<1>3. \A i \in 1..Len(queue') : ~requestAt(i, g)'
  <2>1. ASSUME NEW i \in 1..Len(queue'), requestAt(i, g)' PROVE FALSE
    <3>1. i + 1 \in 1..Len(queue) /\ requestAt(i + 1, g)
      BY <2>1, Later
    <3>2. i + 1 = 1
      BY <1>2, <3>1
    <3>. QED
      BY <3>2
  <2>. QED
    BY <2>1
<1>4. RequestFits'
  <2>1. ASSUME NEW i \in 1..Len(queue'), NEW h \in Handle, requestAt(i, h)'
        PROVE  /\ h \notin Listed'
               /\ modem'[h] \in {"requested", "closing"}
               /\ \A j \in 1..Len(queue') : requestAt(j, h)' => j = i
    <3>1. h # g /\ i + 1 \in 1..Len(queue) /\ requestAt(i + 1, h)
      BY <2>1, <1>3, Later
    <3>2. \A j \in 1..Len(queue') : requestAt(j, h)' => j + 1 = i + 1
      BY <3>1, Later DEF RequestFits
    <3>. QED
      BY <3>1, <3>2 DEF RequestFits
  <2>. QED
    BY <2>1 DEF RequestFits
<1>5. ReleaseFits'
  <2>1. ASSUME NEW i \in 1..Len(queue'), NEW h \in Handle, releaseAt(i, h)'
        PROVE  modem'[h] = "closing" \/ /\ h \notin Listed'
                                        /\ \A j \in 1..i : ~requestAt(j, h)'
    <3>1. i + 1 \in 1..Len(queue) /\ releaseAt(i + 1, h)
      BY <2>1, Later
    <3>2. \A j \in 1..i : /\ j \in 1..Len(queue') /\ j + 1 \in 1..(i + 1)
      BY <1>1
    <3>3. CASE h = g
      <4>1. 1 \in 1..(i + 1)
        OBVIOUS
      <4>2. modem[g] = "closing"
        BY <3>1, <3>3, <4>1, <1>1 DEF ReleaseFits
      <4>. QED
        BY <3>2, <3>3, <4>2, <1>3
    <3>4. CASE h # g
      BY <3>1, <3>2, <3>4, Later DEF ReleaseFits
    <3>. QED
      BY <3>3, <3>4
  <2>. QED
    BY <2>1 DEF ReleaseFits
<1>. QED
  BY <1>4, <1>5

\* An event that comes past the queue keeps what is said of it all the same.
LEMMA DirectKeepsQueue ==
  ASSUME TypeOK, RequestFits, ReleaseFits, Serves, UNCHANGED queue
  PROVE  RequestFits' /\ ReleaseFits'
<1>1. \A i \in 1..Len(queue), h \in Handle :
        /\ requestAt(i, h)' <=> requestAt(i, h)
        /\ releaseAt(i, h)' <=> releaseAt(i, h)
  BY DEF requestAt, releaseAt
<1>2. RequestFits'
  BY <1>1 DEF RequestFits, Serves
<1>3. Len(queue) \in Nat
  BY DEF TypeOK
<1>4. ASSUME NEW i \in 1..Len(queue), NEW h \in Handle, releaseAt(i, h),
             modem'[h] # "closing"
      PROVE  h \notin Listed' /\ \A j \in 1..i : ~requestAt(j, h)
  <2>1. \A j \in 1..i : j \in 1..Len(queue)
    BY <1>3
  <2>2. h \in Listed => modem[h] = "closing" /\ h \notin Listed'
    BY <1>4 DEF ReleaseFits, Serves
  <2>3. h \in Listed => \A j \in 1..i : ~requestAt(j, h)
    BY <2>1 DEF RequestFits
  <2>4. h \notin Listed => h \notin Listed' /\ modem'[h] = modem[h]
    BY DEF Serves
  <2>. QED
    BY <1>4, <2>2, <2>3, <2>4 DEF ReleaseFits
<1>5. ReleaseFits'
  <2>1. \A i \in 1..Len(queue) : \A j \in 1..i : j \in 1..Len(queue)
    BY <1>3
  <2>. QED
    BY <1>1, <1>4, <2>1 DEF ReleaseFits
<1>. QED
  BY <1>2, <1>5
------------------------------------------------------------------------------
(* Every step keeps Inv and is a step of the sessions. *)

\* what is left to show once the types and the lists are known to fit
Kept == StageFits' /\ Disjoint' /\ NotConfused' /\ RequestFits' /\ ReleaseFits'
        /\ SessionStep

LEMMA TaskKeeps == ASSUME Inv, Task PROVE Kept
<1>0. Staged /\ TypeOK /\ RequestFits /\ ReleaseFits
  BY DEF Inv, Staged, Fits
<1>1. CASE requestATL
  <2>1. PICK n \in Nif : begin(n) /\ processAgpsEventSubscribe(n, subject, rest)
    BY <1>0, <1>1 DEF requestATL, TypeOK
  <2>2. subject \in Handle /\ requestAt(1, subject) /\ 1 \in 1..Len(queue)
    BY <1>0, <2>1, Begin DEF Request, requestAt
  <2>3. subject \notin Listed /\ modem[subject] \in {"requested", "closing"}
    BY <1>0, <2>2 DEF RequestFits
  <2>4. PICK h \in Handle : h = subject
    BY <2>2
  <2>5. /\ StageFits' /\ Disjoint' /\ NotConfused' /\ SessionStep /\ Posts(rest)
        /\ Listed' = Listed \cup {h}
        /\ modem[h] = "closing" => modem'[h] = "closing"
        /\ \A g \in Handle \ {h} : modem'[g] = modem[g]
    BY <1>0, <2>1, <2>3, <2>4, SubscribeServes
  <2>6. RequestFits' /\ ReleaseFits'
    BY <1>0, <2>1, <2>4, <2>5, AnswerKeepsQueue
  <2>. QED
    BY <2>5, <2>6 DEF Kept
<1>2. CASE requestATLNoMachine
  <2>1. PICK n \in Nif : begin(n) /\ notify({subject}, "denied") /\ queue' = rest
          /\ UNCHANGED <<mState, subscribers, inactive>>
    BY <1>2 DEF requestATLNoMachine
  <2>2. subject \in Handle /\ requestAt(1, subject) /\ 1 \in 1..Len(queue)
    BY <1>0, <2>1, Begin DEF Request, requestAt
  <2>3. PICK h \in Handle : h = subject
    BY <2>2
  <2>4. h \notin Listed /\ modem[h] \in {"requested", "closing"}
    BY <1>0, <2>2, <2>3 DEF RequestFits
  <2>5. modem'[h] = "idle" /\ \A g \in Handle \ {h} : modem'[g] = modem[g]
    BY <1>0, <2>1, <2>3, <2>4, Notify DEF told
  <2>6. Listed' = Listed /\ Disjoint' /\ Posts(rest)
    BY <1>0, <2>1 DEF Listed, Staged, Disjoint, Posts
  <2>7. RequestFits' /\ ReleaseFits'
    BY <1>0, <2>1, <2>3, <2>4, <2>5, <2>6, AnswerKeepsQueue
  <2>8. StageFits'
    <3>1. \A m \in Nif : \A g \in subscribers[m] : modem'[g] = modem[g]
      BY <1>0, <2>4, <2>5 DEF Listed, TypeOK, Nif
    <3>2. \A m \in Nif : inactive[m] \subseteq subscribers[m]
      BY <1>0 DEF TypeOK
    <3>. QED
      BY <1>0, <2>1, <3>1, <3>2 DEF Staged, StageFits, StageAt
  <2>9. NotConfused' /\ SessionStep
    BY <1>0, <2>4, <2>5 DEF Staged, NotConfused, SessionStep, Sessions!Moves
  <2>. QED
    BY <2>6, <2>7, <2>8, <2>9 DEF Kept
<1>3. CASE releaseATL
  <2>1. begin("release") /\ subject \in Handle /\ releaseAt(1, subject) /\ 1 \in 1..Len(queue)
    BY <1>0, <1>3, Begin DEF releaseATL, Request, releaseAt
  <2>2. CASE ignored(rest)
    <3>1. UNCHANGED smVars /\ Posts(rest)
      BY <2>2 DEF ignored, Posts
    <3>. QED
      BY <1>0, <2>1, <3>1, UnchangedServes, ServesKeepsQueue DEF Kept, smVars
  <2>3. ASSUME NEW n \in Nif, subject \in subscribers[n],
               processAgpsEventUnsubscribe(n, subject, rest)
        PROVE  Kept
    <3>1. subject \in Listed
      BY <2>3 DEF Listed, Nif
    <3>2. modem[subject] = "closing"
      BY <1>0, <2>1, <3>1 DEF ReleaseFits
    <3>3. PICK h \in subscribers[n] : h = subject
      BY <2>3
    <3>5. /\ StageFits' /\ Disjoint' /\ NotConfused' /\ SessionStep /\ Serves
          /\ Posts(rest)
      BY <1>0, <2>3, <3>2, <3>3, UnsubscribeServes
    <3>. QED
      BY <1>0, <2>1, <3>5, ServesKeepsQueue DEF Kept
  <2>. QED
    BY <1>3, <2>2, <2>3 DEF releaseATL, Nif
<1>4. CASE reportOpened \/ reportAtlOpenSuccess \/ reportAtlOpenFailed \/ reportAtlClosed
  <2>1. PICK type \in Report : begin(type)
    BY <1>4 DEF reportOpened, reportAtlOpenSuccess, reportAtlOpenFailed,
       reportAtlClosed, Report
  <2>2. subject \in Nif
    BY <1>0, <2>1, Begin
  <2>3. Event(subject, rest) \/ ignored(rest)
    BY <1>4 DEF reportOpened, reportAtlOpenSuccess, reportAtlOpenFailed,
       reportAtlClosed, Event
  <2>4. StageFits' /\ Disjoint' /\ NotConfused' /\ SessionStep /\ Serves /\ Posts(rest)
    <3>1. CASE Event(subject, rest)
      BY <1>0, <2>2, <3>1, EventServes
    <3>2. CASE ignored(rest)
      BY <1>0, <3>2, UnchangedServes DEF ignored, smVars, Posts
    <3>. QED
      BY <2>3, <3>1, <3>2
  <2>. QED
    BY <1>0, <2>1, <2>4, ServesKeepsQueue DEF Kept
<1>5. CASE initAgps
  <2>1. begin("init") /\ UNCHANGED smVars /\ Posts(rest)
    BY <1>5 DEF initAgps, Posts
  <2>. QED
    BY <1>0, <2>1, UnchangedServes, ServesKeepsQueue DEF Kept, smVars
<1>. QED
  BY <1>1, <1>2, <1>3, <1>4, <1>5 DEF Task

LEMMA ModemKeeps ==
  ASSUME Inv, NEW h \in Handle, ModemRequests(h) \/ ModemReleases(h)
  PROVE  Kept
<1>1. RequestFits' /\ ReleaseFits'
  BY ModemKeepsQueue
<1>2. UNCHANGED <<mState, subscribers, inactive>> /\ modem \in [Handle -> Stages]
  BY DEF ModemRequests, ModemReleases, Inv, TypeOK, Stages
<1>3. \A n \in Nif : StageAt(n) /\ inactive[n] \subseteq subscribers[n]
                     /\ subscribers[n] \subseteq Handle
  BY DEF Inv, StageFits, TypeOK
<1>4. Disjoint'
  BY <1>2 DEF Inv, Disjoint
<1>5. CASE ModemRequests(h)
  <2>1. /\ modem[h] = "idle" /\ modem'[h] = "requested"
        /\ \A g \in Handle \ {h} : modem'[g] = modem[g]
    BY <1>2, <1>5 DEF ModemRequests
  <2>2. \A n \in Nif : h \notin subscribers[n]
    BY <1>3, <2>1 DEF StageAt
  <2>3. StageFits'
    BY <1>2, <1>3, <2>1, <2>2 DEF StageFits, StageAt
  <2>. QED
    BY <1>1, <1>4, <2>1, <2>3
       DEF Kept, Inv, NotConfused, SessionStep, Sessions!Moves
<1>6. CASE ModemReleases(h)
  <2>1. /\ modem[h] \in {"requested", "open"} /\ modem'[h] = "closing"
        /\ \A g \in Handle \ {h} : modem'[g] = modem[g]
    BY <1>2, <1>6 DEF ModemReleases
  <2>3. StageFits'
    BY <1>2, <1>3, <2>1 DEF StageFits, StageAt
  <2>. QED
    BY <1>1, <1>4, <2>1, <2>3
       DEF Kept, Inv, NotConfused, SessionStep, Sessions!Moves
<1>. QED
  BY <1>5, <1>6

LEMMA FrameworkKeeps ==
  ASSUME Inv,
         \/ FrameworkRegisters
         \/ FrameworkRequested \/ FrameworkReleased \/ FrameworkOpens
         \/ FrameworkOpensLongApn \/ FrameworkFails \/ FrameworkLoses \/ WdsAnswers
  PROVE  Kept
<1>0. Staged /\ TypeOK /\ RequestFits /\ ReleaseFits
  BY DEF Inv, Staged, Fits
<1>1. CASE FrameworkOpensLongApn
  <2>1. Event("agnss", queue) /\ "agnss" \in Nif
    BY <1>1 DEF FrameworkOpensLongApn, Event, Nif
  <2>2. StageFits' /\ Disjoint' /\ NotConfused' /\ SessionStep /\ Serves
    BY <1>0, <2>1, EventServes
  <2>3. UNCHANGED queue
    <3>1. processAgpsEventReleased("agnss", queue)
      BY <1>1 DEF FrameworkOpensLongApn
    <3>2. dropAll("agnss", "closed", queue) => queue' = queue
      BY DEF dropAll, noDataConn
    <3>3. closeInactive("agnss", queue) => queue' = queue
      BY DEF closeInactive, noDataConn, requestOrReleaseDataConn
    <3>4. ignored(queue) => queue' = queue
      BY DEF ignored
    <3>. QED
      BY <3>1, <3>2, <3>3, <3>4 DEF processAgpsEventReleased
  <2>. QED
    BY <1>0, <2>2, <2>3, DirectKeepsQueue DEF Kept
<1>2. CASE ~FrameworkOpensLongApn
  <2>1. UNCHANGED <<mState, subscribers, inactive, modem>>
    BY <1>2 DEF FrameworkRegisters, FrameworkRequested, FrameworkReleased,
       FrameworkOpens, FrameworkFails, FrameworkLoses, WdsAnswers, smVars
  <2>2. \/ UNCHANGED queue
        \/ \E type \in Report \cup {"init"}, n \in Nif :
             <<type, n>> \in Msg /\ sendMsg(type, n)
    BY <1>2, MsgKinds DEF FrameworkRegisters, FrameworkRequested, FrameworkReleased,
       FrameworkOpens, FrameworkFails, FrameworkLoses, WdsAnswers, Report, Nif
  <2>3. StageFits' /\ Disjoint' /\ NotConfused' /\ SessionStep /\ Serves
    BY <1>0, <2>1, UnchangedServes
  <2>. QED
    BY <1>0, <2>1, <2>2, <2>3, DirectKeepsQueue, ReportKeepsQueue DEF Kept
<1>. QED
  BY <1>1, <1>2

LEMMA NextKeeps ==
  ASSUME "ssr" \notin Features, Inv, [Next]_vars
  PROVE  Inv' /\ SessionStep
<1>1. Fits'
  BY NextFits DEF Inv, Fits
<1>2. CASE UNCHANGED vars
  <2>1. UNCHANGED queue /\ UNCHANGED <<mState, subscribers, inactive, modem>>
    BY <1>2 DEF vars
  <2>2. Staged /\ TypeOK /\ RequestFits /\ ReleaseFits
    BY DEF Inv, Staged, Fits
  <2>. QED
    BY <1>1, <2>1, <2>2, UnchangedServes, DirectKeepsQueue DEF Inv, Fits
<1>3. CASE Next
  <2>1. ~ModemRestarts
    BY DEF ModemRestarts
  <2>. QED
    BY <1>1, <1>3, <2>1, TaskKeeps, ModemKeeps, FrameworkKeeps DEF Next, Kept, Inv, Fits
<1>. QED
  BY <1>2, <1>3

LEMMA InitInv == Init => Inv
<1> SUFFICES ASSUME Init PROVE Inv
  OBVIOUS
<1>1. TypeOK /\ ListFitsState
  BY InitFits DEF Fits
<1>2. Len(queue) = 0
  BY DEF Init
<1>3. \A n \in Nif : subscribers[n] = {} /\ inactive[n] = {}
  BY DEF Init
<1>. QED
  BY <1>1, <1>2, <1>3 DEF Init, Inv, Disjoint, StageFits, StageAt, RequestFits,
     ReleaseFits, NotConfused, Nif

\* As long as the modem does not restart, a handle is in at most one list, and a
\* listed one is one the modem waits for or uses, an inactive one one it released.
THEOREM ListFollowsModem ==
  ASSUME "ssr" \notin Features PROVE Spec => []ListFitsModem
<1>1. Inv /\ [Next]_vars => Inv'
  BY NextKeeps
<1>2. Inv => ListFitsModem
  <2> SUFFICES ASSUME Inv PROVE ListFitsModem
    OBVIOUS
  <2>1. \A n \in Nif : StageAt(n)
    BY DEF Inv, StageFits
  <2>2. \A n \in Nif : /\ \A h \in subscribers[n] : modem[h] # "idle"
                       /\ \A h \in inactive[n] : modem[h] = "closing"
    BY <2>1 DEF StageAt
  <2>. QED
    BY <2>2 DEF Inv, Disjoint, ListFitsModem
<1>. QED
  BY <1>1, <1>2, InitInv, PTL DEF Spec

\* As long as the modem does not restart, each of its ATLs is granted or denied
\* at most once and closed at most once, whatever order the answers come in.
THEOREM AgpsImplementsSessions ==
  ASSUME "ssr" \notin Features PROVE Spec => ImplementsSessions
<1>1. Init => Sessions!Init
  BY DEF Init, Sessions!Init
<1>2. Inv /\ [Next]_vars => Inv'
  BY NextKeeps
<1>3. Inv /\ [Next]_vars => [Sessions!Move]_modem
  <2> SUFFICES ASSUME Inv, [Next]_vars PROVE Sessions!Move
    OBVIOUS
  <2>1. Inv' /\ SessionStep
    BY NextKeeps
  <2>2. modem' \in [Handle -> Sessions!Stage]
    BY <2>1 DEF Inv, TypeOK, NotConfused, Sessions!Stage
  <2>. QED
    BY <2>1, <2>2 DEF SessionStep, Sessions!Move
<1>. QED
  BY <1>1, <1>2, <1>3, InitInv, PTL DEF Spec, ImplementsSessions, Sessions!Spec
------------------------------------------------------------------------------
(* The connection.  Here grants are not preceded by a query of the PDN     *)
(* type, and no APN is refused.  What concerns "agnss", which asks the     *)
(* framework, is the calls and the reports to it.                          *)

reportAt(i) == queue[i][1] \in Report /\ queue[i][2] = "agnss"
typeAt(i, type) == queue[i][1] = type /\ queue[i][2] = "agnss"

\* the reports in the queue: none, one, or the success and the end of an attempt
NoReport == \A i \in 1..Len(queue) : ~reportAt(i)
OneReport(type) == \E i \in 1..Len(queue) :
  typeAt(i, type) /\ \A j \in 1..Len(queue) : reportAt(j) => j = i
OpenedAndClosed == \E i, j \in 1..Len(queue) :
  /\ i < j /\ typeAt(i, "opened") /\ typeAt(j, "closed")
  /\ \A k \in 1..Len(queue) : reportAt(k) => k \in {i, j}

\* how far the attempt to connect got, and what of it is still to be told
Down       == conn = "closed" /\ NoReport
Opening    == conn = "opening" /\ NoReport
UpUntold   == conn = "open" /\ OneReport("opened")
Up         == conn = "open" /\ NoReport
Refused    == conn = "closed" /\ OneReport("failed")
Lost       == conn = "closed" /\ OneReport("closed")
LostUntold == conn = "closed" /\ OpenedAndClosed

\* the calls the framework has yet to handle
NoCalls     == Len(calls) = 0
Release     == Len(calls) = 1 /\ calls[1] = "release"
Ask         == Len(calls) = 1 /\ calls[1] = "request"
ReleaseAsk  == Len(calls) = 2 /\ calls[1] = "release" /\ calls[2] = "request"
AskRelease  == Len(calls) = 2 /\ calls[1] = "request" /\ calls[2] = "release"
ReleaseAskRelease ==
  Len(calls) = 3 /\ calls[1] = "release" /\ calls[2] = "request" /\ calls[3] = "release"

\* One attempt at a time: a request is made once the last attempt was reported
\* ended, and each attempt is reported ended once; a release that comes after
\* the end finds no connection and is not answered.
Idle == mState["agnss"] = "RELEASED" /\ Down /\ (NoCalls \/ Release)
Asking ==
  /\ mState["agnss"] = "PENDING"
  /\ \/ Down /\ (Ask \/ ReleaseAsk)
     \/ NoCalls /\ (Opening \/ UpUntold \/ Refused \/ LostUntold)
Holding == mState["agnss"] = "ACQUIRED" /\ NoCalls /\ (Up \/ Lost)
Ending ==
  /\ mState["agnss"] = "RELEASING"
  /\ \/ Down /\ \/ AskRelease
                \/ ReleaseAskRelease
     \/ Release /\ (Opening \/ UpUntold \/ Up)
     \/ (NoCalls \/ Release) /\ (Refused \/ Lost \/ LostUntold)

OneAttempt == (\A n \in Nif : wds[n] = 0) /\ (Idle \/ Asking \/ Holding \/ Ending)

Attempt == TypeOK /\ ListFitsState /\ OneAttempt

\* A message that is no report leaves the reports as they are.
LEMMA SendOther ==
  ASSUME TypeOK, NEW type, NEW what, <<type, what>> \in Msg, sendMsg(type, what),
         type \notin Report \/ what # "agnss"
  PROVE  /\ NoReport => NoReport'
         /\ \A t \in Report : OneReport(t) => OneReport(t)'
         /\ OpenedAndClosed => OpenedAndClosed'
<1>1. /\ Len(queue) \in Nat /\ Len(queue') = Len(queue) + 1
      /\ \A i \in 1..Len(queue) : queue'[i] = queue[i]
      /\ queue'[Len(queue')] = <<type, what>>
  BY SendMsg
<1>2. \A i \in 1..Len(queue') : i = Len(queue') \/ i \in 1..Len(queue)
  BY <1>1
<1>3. \A i \in 1..Len(queue') : reportAt(i)' => i # Len(queue')
  BY <1>1 DEF reportAt
<1>4. /\ \A i \in 1..Len(queue) : i \in 1..Len(queue') /\ queue'[i] = queue[i]
      /\ \A i \in 1..Len(queue') : reportAt(i)' => i \in 1..Len(queue) /\ reportAt(i)
  BY <1>1, <1>2, <1>3 DEF reportAt
<1>. HIDE DEF Report
<1>5. NoReport => NoReport'
  BY <1>4 DEF NoReport
<1>6. ASSUME NEW t \in Report, OneReport(t)  PROVE OneReport(t)'
  BY <1>4, <1>6 DEF OneReport, typeAt
<1>7. OpenedAndClosed => OpenedAndClosed'
  <2> SUFFICES ASSUME OpenedAndClosed  PROVE OpenedAndClosed'
    OBVIOUS
  <2>1. PICK i, j \in 1..Len(queue) :
          /\ i < j /\ typeAt(i, "opened") /\ typeAt(j, "closed")
          /\ \A k \in 1..Len(queue) : reportAt(k) => k \in {i, j}
    BY DEF OpenedAndClosed
  <2>2. /\ i \in 1..Len(queue') /\ j \in 1..Len(queue')
        /\ typeAt(i, "opened")' /\ typeAt(j, "closed")'
        /\ \A k \in 1..Len(queue') : reportAt(k)' => k \in {i, j}
    BY <1>4, <2>1 DEF typeAt
  <2>. QED
    BY <2>1, <2>2 DEF OpenedAndClosed
<1>. QED
  BY <1>5, <1>6, <1>7

\* A report is added behind those of its attempt.
LEMMA SendReport ==
  ASSUME TypeOK, NEW type \in Report, sendMsg(type, "agnss")
  PROVE  /\ NoReport => OneReport(type)'
         /\ type = "closed" /\ OneReport("opened") => OpenedAndClosed'
<1>1. <<type, "agnss">> \in Msg
  BY MsgKinds DEF Nif
<1>2. /\ Len(queue) \in Nat /\ Len(queue') = Len(queue) + 1
      /\ \A i \in 1..Len(queue) : queue'[i] = queue[i]
      /\ queue'[Len(queue')] = <<type, "agnss">>
  BY <1>1, SendMsg
<1>3. /\ Len(queue') \in 1..Len(queue')
      /\ queue'[Len(queue')][1] = type /\ queue'[Len(queue')][2] = "agnss"
      /\ \A i \in 1..Len(queue) : i \in 1..Len(queue') /\ queue'[i] = queue[i] /\ i < Len(queue')
      /\ \A i \in 1..Len(queue') : i = Len(queue') \/ (i \in 1..Len(queue) /\ queue'[i] = queue[i])
  <2>1. queue'[Len(queue')][1] = type /\ queue'[Len(queue')][2] = "agnss"
    BY <1>2
  <2>2. Len(queue') \in 1..Len(queue') /\ \A i \in 1..Len(queue) : i \in 1..Len(queue') /\ i < Len(queue')
    BY <1>2
  <2>3. \A i \in 1..Len(queue') : i = Len(queue') \/ i \in 1..Len(queue)
    BY <1>2
  <2>4. \A i \in 1..Len(queue) : queue'[i] = queue[i]
    BY <1>2
  <2>. QED
    BY <2>1, <2>2, <2>3, <2>4
<1>. HIDE DEF Report
<1>4. PICK k \in 1..Len(queue') : k = Len(queue') /\ typeAt(k, type)'
  BY <1>3 DEF typeAt
<1>5. NoReport => OneReport(type)'
  BY <1>3, <1>4 DEF NoReport, OneReport, reportAt
<1>6. ASSUME type = "closed", OneReport("opened")  PROVE OpenedAndClosed'
  <2>1. PICK i \in 1..Len(queue) :
          typeAt(i, "opened") /\ \A j \in 1..Len(queue) : reportAt(j) => j = i
    BY <1>6 DEF OneReport
  <2>3. /\ i \in 1..Len(queue') /\ i < k /\ typeAt(i, "opened")' /\ typeAt(k, "closed")'
        /\ \A m \in 1..Len(queue') : reportAt(m)' => m \in {i, k}
    BY <1>3, <1>4, <1>6, <2>1 DEF reportAt, typeAt
  <2>. QED
    BY <2>3 DEF OpenedAndClosed
<1>. QED
  BY <1>5, <1>6

\* The begin of another message leaves the reports in their order.
LEMMA BeginOther ==
  ASSUME TypeOK, NEW type, begin(type), Posts(rest), ~reportAt(1)
  PROVE  /\ NoReport => NoReport'
         /\ \A t \in Report : OneReport(t) => OneReport(t)'
         /\ OpenedAndClosed => OpenedAndClosed'
<1>1. /\ Len(queue) \in Nat \ {0} /\ Len(queue') \in Nat
      /\ \A i \in 1..Len(queue') :
           \/ i + 1 \in 1..Len(queue) /\ queue'[i] = queue[i + 1]
           \/ queue'[i] \in {"opened", "failed", "closed"} \X {"internet"}
      /\ \A i \in 1..Len(queue) : i # 1 =>
           i - 1 \in 1..Len(queue') /\ queue'[i - 1] = queue[i]
  BY Shift
<1>2. \A i \in 1..Len(queue') : reportAt(i)' =>
        i + 1 \in 1..Len(queue) /\ reportAt(i + 1)
  BY <1>1 DEF reportAt
<1>3. \A i \in 1..Len(queue), t \in Report : typeAt(i, t) =>
        i # 1 /\ i - 1 \in 1..Len(queue') /\ typeAt(i - 1, t)'
  BY <1>1 DEF reportAt, typeAt
<1>4. "opened" \in Report /\ "closed" \in Report
  BY DEF Report
<1>. HIDE DEF Report
<1>5. NoReport => NoReport'
  BY <1>2 DEF NoReport
<1>6. ASSUME NEW t \in Report, OneReport(t)  PROVE OneReport(t)'
  <2>1. PICK i \in 1..Len(queue) :
          typeAt(i, t) /\ \A j \in 1..Len(queue) : reportAt(j) => j = i
    BY <1>6 DEF OneReport
  <2>2. i - 1 \in 1..Len(queue') /\ typeAt(i - 1, t)'
    BY <1>3, <2>1
  <2>3. ASSUME NEW j \in 1..Len(queue'), reportAt(j)'  PROVE j = i - 1
    <3>1. j + 1 = i
      BY <1>2, <2>1, <2>3
    <3>. QED
      BY <3>1
  <2>. QED
    BY <2>2, <2>3 DEF OneReport
<1>7. OpenedAndClosed => OpenedAndClosed'
  <2> SUFFICES ASSUME OpenedAndClosed  PROVE OpenedAndClosed'
    OBVIOUS
  <2>1. PICK i, j \in 1..Len(queue) :
          /\ i < j /\ typeAt(i, "opened") /\ typeAt(j, "closed")
          /\ \A k \in 1..Len(queue) : reportAt(k) => k \in {i, j}
    BY DEF OpenedAndClosed
  <2>2. /\ i - 1 \in 1..Len(queue') /\ typeAt(i - 1, "opened")'
        /\ j - 1 \in 1..Len(queue') /\ typeAt(j - 1, "closed")'
        /\ i - 1 < j - 1
    BY <1>3, <1>4, <2>1
  <2>3. ASSUME NEW k \in 1..Len(queue'), reportAt(k)'  PROVE k \in {i - 1, j - 1}
    <3>1. k + 1 \in {i, j}
      BY <1>2, <2>1, <2>3
    <3>. QED
      BY <3>1
  <2>4. PICK a, b \in 1..Len(queue') : a = i - 1 /\ b = j - 1
    BY <2>2
  <2>5. /\ a < b /\ typeAt(a, "opened")' /\ typeAt(b, "closed")'
        /\ \A k \in 1..Len(queue') : reportAt(k)' => k \in {a, b}
    BY <2>2, <2>3, <2>4
  <2>. QED
    BY <2>5 DEF OpenedAndClosed
<1>. QED
  BY <1>5, <1>6, <1>7

\* A report that begins is the oldest, and leaves the later one of its attempt.
LEMMA BeginReport ==
  ASSUME TypeOK, NEW type \in Report, begin(type), subject = "agnss", queue' = rest
  PROVE  /\ ~NoReport
         /\ \A t \in Report : OneReport(t) => type = t /\ NoReport'
         /\ OpenedAndClosed => type = "opened" /\ OneReport("closed")'
<1>1. /\ Len(queue) \in Nat /\ Len(queue') \in Nat
      /\ 1 \in 1..Len(queue) /\ queue[1][1] = type /\ queue[1][2] = "agnss"
      /\ \A i \in 1..Len(queue') : i + 1 \in 1..Len(queue) /\ queue'[i] = queue[i + 1]
      /\ \A i \in 1..Len(queue) : i # 1 =>
           i - 1 \in 1..Len(queue') /\ queue'[i - 1] = queue[i]
  <2>1. /\ Len(queue) \in Nat \ {0} /\ Len(queue') = Len(queue) - 1
        /\ \A i \in 1..Len(queue') : queue'[i] = queue[i + 1]
        /\ queue[1][1] = type /\ queue[1][2] = "agnss"
    BY Begin
  <2>. QED
    BY <2>1
<1>2. reportAt(1)
  BY <1>1 DEF reportAt
<1>3. \A i \in 1..Len(queue') : reportAt(i)' =>
        i + 1 \in 1..Len(queue) /\ reportAt(i + 1)
  BY <1>1 DEF reportAt
<1>. HIDE DEF Report
<1>4. ~NoReport
  BY <1>1, <1>2 DEF NoReport
<1>5. ASSUME NEW t \in Report, OneReport(t)  PROVE type = t /\ NoReport'
  <2>1. \A j \in 1..Len(queue) : reportAt(j) => j = 1
    BY <1>1, <1>2, <1>5 DEF OneReport
  <2>2. type = t
    BY <1>1, <1>2, <1>5 DEF OneReport, typeAt
  <2>3. ASSUME NEW j \in 1..Len(queue'), reportAt(j)'  PROVE FALSE
    <3>1. j + 1 = 1
      BY <1>3, <2>1, <2>3
    <3>. QED
      BY <3>1
  <2>. QED
    BY <2>2, <2>3 DEF NoReport
<1>6. ASSUME OpenedAndClosed  PROVE type = "opened" /\ OneReport("closed")'
  <2>1. PICK i, j \in 1..Len(queue) :
          /\ i < j /\ typeAt(i, "opened") /\ typeAt(j, "closed")
          /\ \A k \in 1..Len(queue) : reportAt(k) => k \in {i, j}
    BY <1>6 DEF OpenedAndClosed
  <2>2. i = 1 /\ j # 1
    BY <1>1, <1>2, <2>1
  <2>3. j - 1 \in 1..Len(queue') /\ typeAt(j - 1, "closed")'
    BY <1>1, <2>1, <2>2 DEF typeAt
  <2>4. ASSUME NEW k \in 1..Len(queue'), reportAt(k)'  PROVE k = j - 1
    <3>1. k + 1 \in {i, j}
      BY <1>3, <2>1, <2>4
    <3>. QED
      BY <2>2, <3>1
  <2>5. type = "opened"
    BY <1>1, <2>1, <2>2 DEF typeAt
  <2>. QED
    BY <2>3, <2>4, <2>5 DEF OneReport
<1>. QED
  BY <1>4, <1>5, <1>6

\* With the queue unchanged, or changed by others' messages only, what is left of
\* an attempt stays.
Kept_Reports ==
  /\ NoReport => NoReport'
  /\ \A t \in Report : OneReport(t) => OneReport(t)'
  /\ OpenedAndClosed => OpenedAndClosed'

LEMMA AttemptKept ==
  ASSUME OneAttempt, Kept_Reports, mState'["agnss"] = mState["agnss"],
         UNCHANGED <<calls, conn, wds>>
  PROVE  OneAttempt'
<1>1. /\ Down => Down'
      /\ Opening => Opening'
      /\ UpUntold => UpUntold'
      /\ Up => Up'
      /\ Refused => Refused'
      /\ Lost => Lost'
      /\ LostUntold => LostUntold'
  BY DEF Kept_Reports, Down, Opening, UpUntold, Up, Refused, Lost, LostUntold, Report
<1>2. /\ NoCalls => NoCalls'
      /\ Release => Release'
      /\ Ask => Ask'
      /\ ReleaseAsk => ReleaseAsk'
      /\ AskRelease => AskRelease'
      /\ ReleaseAskRelease => ReleaseAskRelease'
  BY DEF NoCalls, Release, Ask, ReleaseAsk, AskRelease, ReleaseAskRelease
<1>3. Idle => Idle'
  BY <1>1, <1>2 DEF Idle
<1>4. Asking => Asking'
  BY <1>1, <1>2 DEF Asking
<1>5. Holding => Holding'
  BY <1>1, <1>2 DEF Holding
<1>6. Ending => Ending'
  BY <1>1, <1>2 DEF Ending
<1>. QED
  BY <1>3, <1>4, <1>5, <1>6 DEF OneAttempt

\* What the calls are after one more.
LEMMA MoreCalls ==
  ASSUME TypeOK, NEW what \in {"request", "release"}, calls' = Append(calls, what)
  PROVE  /\ what = "request" /\ NoCalls => Ask'
         /\ what = "request" /\ Release => ReleaseAsk'
         /\ what = "release" /\ NoCalls => Release'
         /\ what = "release" /\ Ask => AskRelease'
         /\ what = "release" /\ ReleaseAsk => ReleaseAskRelease'
<1>1. /\ Len(calls') = Len(calls) + 1 /\ Len(calls) \in Nat
      /\ \A i \in 1..Len(calls) : calls'[i] = calls[i]
      /\ calls'[Len(calls) + 1] = what
  <2>1. calls \in Seq({"request", "release"})
    BY DEF TypeOK
  <2>. QED
    BY <2>1
<1>2. ASSUME NoCalls PROVE Len(calls') = 1 /\ calls'[1] = what
  BY ONLY <1>1, <1>2 DEF NoCalls
<1>3. ASSUME Release \/ Ask
      PROVE  Len(calls') = 2 /\ calls'[1] = calls[1] /\ calls'[2] = what
  BY ONLY <1>1, <1>3 DEF Release, Ask
<1>4. ASSUME ReleaseAsk
      PROVE  /\ Len(calls') = 3 /\ calls'[1] = calls[1] /\ calls'[2] = calls[2]
             /\ calls'[3] = what
  BY ONLY <1>1, <1>4 DEF ReleaseAsk
<1>. QED
  BY <1>2, <1>3, <1>4 DEF NoCalls, Release, Ask, ReleaseAsk, AskRelease, ReleaseAskRelease

\* What they are after the first is worked off.
LEMMA LessCalls ==
  ASSUME TypeOK, calls # <<>>, calls' = Tail(calls)
  PROVE  /\ ~NoCalls
         /\ Release => Head(calls) = "release" /\ NoCalls'
         /\ Ask => Head(calls) = "request" /\ NoCalls'
         /\ ReleaseAsk => Head(calls) = "release" /\ Ask'
         /\ AskRelease => Head(calls) = "request" /\ Release'
         /\ ReleaseAskRelease => Head(calls) = "release" /\ AskRelease'
<1>1. /\ Len(calls) \in Nat \ {0} /\ Len(calls') = Len(calls) - 1
      /\ \A i \in 1..Len(calls') : calls'[i] = calls[i + 1]
      /\ Head(calls) = calls[1]
  BY DEF TypeOK
<1>. QED
  BY <1>1 DEF NoCalls, Release, Ask, ReleaseAsk, AskRelease, ReleaseAskRelease

\* The modem's side: its messages say nothing of the connection.
LEMMA ModemAttempts ==
  ASSUME Attempt, (\E h \in Handle : ModemRequests(h) \/ ModemReleases(h)) \/ ModemRestarts
  PROVE  OneAttempt'
<1>1. UNCHANGED <<mState, wds, calls, conn>>
  BY DEF ModemRequests, ModemReleases, ModemRestarts
<1>2. CASE \E h \in Handle, type \in Request : sendMsg(type, h)
  <2>1. PICK h \in Handle, type \in Request : sendMsg(type, h)
    BY <1>2
  <2>2. <<type, h>> \in Msg /\ type \notin Report
    BY MsgKinds DEF Request, Report, Nif
  <2>3. Kept_Reports
    BY <2>1, <2>2, SendOther DEF Attempt, Kept_Reports
  <2>. QED
    BY <1>1, <2>3, AttemptKept DEF Attempt
<1>3. CASE UNCHANGED queue
  <2>1. Kept_Reports
    BY <1>3 DEF Kept_Reports, NoReport, OneReport, OpenedAndClosed, reportAt, typeAt
  <2>. QED
    BY <1>1, <2>1, AttemptKept DEF Attempt
<1>. QED
  BY <1>2, <1>3 DEF ModemRequests, ModemReleases, ModemRestarts, Request

\* The framework works off a call.
LEMMA CallAttempts ==
  ASSUME Attempt, FrameworkRequested \/ FrameworkReleased
  PROVE  OneAttempt'
<1>1. calls # <<>> /\ calls' = Tail(calls) /\ UNCHANGED <<mState, wds>>
  BY DEF FrameworkRequested, FrameworkReleased
<1>2. /\ ~NoCalls
      /\ Release => Head(calls) = "release" /\ NoCalls'
      /\ Ask => Head(calls) = "request" /\ NoCalls'
      /\ ReleaseAsk => Head(calls) = "release" /\ Ask'
      /\ AskRelease => Head(calls) = "request" /\ Release'
      /\ ReleaseAskRelease => Head(calls) = "release" /\ AskRelease'
  BY <1>1, LessCalls DEF Attempt
<1>3. (\A n \in Nif : wds'[n] = 0) /\ (Idle \/ Asking \/ Holding \/ Ending)
  BY <1>1 DEF Attempt, OneAttempt
<1>4. CASE FrameworkRequested
  <2>1. Head(calls) = "request" /\ conn' = "opening" /\ queue' = queue
    BY <1>4 DEF FrameworkRequested
  <2>2. Down => Opening'
    BY <2>1 DEF Down, Opening, NoReport, reportAt
  <2>3. ~Idle /\ ~Holding
    BY <1>2, <2>1 DEF Idle, Holding
  <2>4. Asking => Asking'
    BY <1>1, <1>2, <2>1, <2>2 DEF Asking
  <2>5. Ending => Ending'
    BY <1>1, <1>2, <2>1, <2>2 DEF Ending
  <2>. QED
    BY <1>3, <2>3, <2>4, <2>5 DEF OneAttempt
<1>5. CASE FrameworkReleased /\ conn = "closed"
  <2>1. Head(calls) = "release" /\ conn' = conn /\ queue' = queue
    BY <1>5 DEF FrameworkReleased
  <2>2. /\ Down => Down'
        /\ Refused => Refused'
        /\ Lost => Lost'
        /\ LostUntold => LostUntold'
        /\ ~Opening /\ ~UpUntold /\ ~Up
    BY <1>5, <2>1 DEF Down, Refused, Lost, LostUntold, Opening, UpUntold, Up, NoReport,
       OneReport, OpenedAndClosed, reportAt, typeAt
  <2>3. Idle => Idle'
    BY <1>1, <1>2, <2>1, <2>2 DEF Idle
  <2>4. Asking => Asking'
    BY <1>1, <1>2, <2>1, <2>2 DEF Asking
  <2>5. Ending => Ending'
    BY <1>1, <1>2, <2>1, <2>2 DEF Ending
  <2>6. ~Holding
    BY <1>2 DEF Holding
  <2>. QED
    BY <1>3, <2>3, <2>4, <2>5, <2>6 DEF OneAttempt
<1>6. CASE FrameworkReleased /\ conn # "closed"
  <2>1. Head(calls) = "release" /\ conn' = "closed" /\ sendMsg("closed", "agnss")
    BY <1>6 DEF FrameworkReleased
  <2>2. (NoReport => OneReport("closed")') /\ (OneReport("opened") => OpenedAndClosed')
    BY <2>1, SendReport DEF Attempt, Report
  <2>3. /\ Opening => Lost'
        /\ Up => Lost'
        /\ UpUntold => LostUntold'
        /\ ~Down /\ ~Refused /\ ~Lost /\ ~LostUntold
    BY <1>6, <2>1, <2>2 DEF Down, Refused, Lost, LostUntold, Opening, UpUntold, Up
  <2>4. ~Idle /\ ~Asking /\ ~Holding
    BY <1>2, <2>3 DEF Idle, Asking, Holding
  <2>5. Ending => Ending'
    BY <1>1, <1>2, <2>1, <2>3 DEF Ending
  <2>. QED
    BY <1>3, <2>4, <2>5 DEF OneAttempt
<1>. QED
  BY <1>4, <1>5, <1>6

\* An attempt succeeds, fails, or its connection is lost.
LEMMA ConnAttempts ==
  ASSUME Attempt, FrameworkOpens \/ FrameworkFails \/ FrameworkLoses
  PROVE  OneAttempt'
<1>1. UNCHANGED <<mState, calls, wds>>
  BY DEF FrameworkOpens, FrameworkFails, FrameworkLoses, smVars
<1>2. (\A n \in Nif : wds'[n] = 0) /\ (Idle \/ Asking \/ Holding \/ Ending)
  BY <1>1 DEF Attempt, OneAttempt
<1>3. /\ NoCalls => NoCalls'
      /\ Release => Release'
  BY <1>1 DEF NoCalls, Release
<1>4. conn # "closed"
  BY DEF FrameworkOpens, FrameworkFails, FrameworkLoses
<1>5. ~Down /\ ~Refused /\ ~Lost /\ ~LostUntold
  BY <1>4 DEF Down, Refused, Lost, LostUntold
<1>6. /\ Opening => UpUntold' \/ Refused'
      /\ UpUntold => LostUntold'
      /\ Up => Lost'
  <2>1. CASE FrameworkOpens
    <3>1. conn = "opening" /\ conn' = "open" /\ (NoReport => OneReport("opened")')
      BY <2>1, SendReport DEF FrameworkOpens, Attempt, Report
    <3>. QED
      BY <3>1 DEF Opening, UpUntold, Up
  <2>2. CASE FrameworkFails
    <3>1. conn = "opening" /\ conn' = "closed" /\ (NoReport => OneReport("failed")')
      BY <2>2, SendReport DEF FrameworkFails, Attempt, Report
    <3>. QED
      BY <3>1 DEF Opening, UpUntold, Up, Refused
  <2>3. CASE FrameworkLoses
    <3>1. /\ conn = "open" /\ conn' = "closed" /\ (NoReport => OneReport("closed")')
          /\ OneReport("opened") => OpenedAndClosed'
      BY <2>3, SendReport DEF FrameworkLoses, Attempt, Report
    <3>. QED
      BY <3>1 DEF Opening, UpUntold, Up, Lost, LostUntold
  <2>. QED
    BY <2>1, <2>2, <2>3
<1>7. ~Idle
  BY <1>5 DEF Idle
<1>8. Asking => Asking'
  BY <1>1, <1>3, <1>5, <1>6 DEF Asking
<1>9. Holding => Holding'
  BY <1>1, <1>3, <1>5, <1>6 DEF Holding
<1>10. Ending => Ending'
  BY <1>1, <1>3, <1>5, <1>6 DEF Ending
<1>. QED
  BY <1>2, <1>7, <1>8, <1>9, <1>10 DEF OneAttempt

\* A message that is no report to "agnss", and has it do nothing.
LEMMA OtherAttempts ==
  ASSUME Attempt, NEW type, begin(type), ~reportAt(1), Posts(rest),
         mState'["agnss"] = mState["agnss"], UNCHANGED <<calls, conn, wds>>
  PROVE  OneAttempt'
<1>1. Kept_Reports
  BY BeginOther DEF Attempt, Kept_Reports
<1>. QED
  BY <1>1, AttemptKept DEF Attempt

\* The steps of "internet" are none of them.
LEMMA EventActs ==
  ASSUME TypeOK, NEW n \in Nif, NEW r, Event(n, r)
  PROVE  Acts(n, r)
  BY Events, Ignored, Granted, CloseInactive, DropAll

LEMMA InternetActs ==
  ASSUME NEW r, Acts("internet", r)
  PROVE  Posts(r) /\ mState'["agnss"] = mState["agnss"] /\ calls' = calls
  BY DEF Acts, Nif

LEMMA AgnssDataConn ==
  ASSUME TypeOK, NEW what \in {"request", "release"}, NEW r,
         requestOrReleaseDataConn("agnss", what, r)
  PROVE  queue' = r /\ calls' = Append(calls, what)
  BY DataConn DEF Nif

\* A handle subscribes or is ignored.
LEMMA RequestAttempts ==
  ASSUME Attempt, requestATL \/ requestATLNoMachine
  PROVE  OneAttempt'
<1>0. TypeOK /\ UNCHANGED <<wds, conn>>
  BY DEF Attempt, requestATL, requestATLNoMachine
<1>1. PICK n \in Nif : /\ begin(n)
                       /\ \/ requestATL /\ processAgpsEventSubscribe(n, subject, rest)
                          \/ requestATLNoMachine
  BY <1>0 DEF requestATL, requestATLNoMachine, TypeOK
<1>2. subject \in Handle /\ ~reportAt(1)
  BY <1>0, <1>1, Begin DEF Request, Report, reportAt, Nif
<1>3. CASE requestATLNoMachine
  <2>1. Posts(rest) /\ UNCHANGED <<mState, calls>>
    BY <1>3 DEF requestATLNoMachine, Posts
  <2>. QED
    BY <1>0, <1>1, <1>2, <2>1, OtherAttempts
<1>4. CASE n = "internet" /\ processAgpsEventSubscribe(n, subject, rest)
  <2>1. Acts("internet", rest)
    BY <1>0, <1>2, <1>4, Subscribe
  <2>. QED
    BY <1>0, <1>1, <1>2, <2>1, InternetActs, OtherAttempts
<1>5. CASE n = "agnss" /\ processAgpsEventSubscribe(n, subject, rest)
  <2>0. /\ Acts("agnss", rest)
        /\ \/ /\ mState["agnss"] = "RELEASED" /\ mState'["agnss"] = "PENDING"
              /\ requestOrReleaseDataConn("agnss", "request", rest)
           \/ mState' = mState /\ noDataConn(rest)
    BY <1>0, <1>2, <1>5, Subscribe
  <2>1. Posts(rest) /\ queue' = rest
    BY <2>0 DEF Acts
  <2>2. CASE mState' = mState /\ noDataConn(rest)
    BY <1>0, <1>1, <1>2, <2>1, <2>2, OtherAttempts DEF noDataConn
  <2>3. CASE /\ mState["agnss"] = "RELEASED" /\ mState'["agnss"] = "PENDING"
             /\ requestOrReleaseDataConn("agnss", "request", rest)
    <3>1. calls' = Append(calls, "request")
      BY <1>0, <2>3, AgnssDataConn
    <3>2. (NoCalls => Ask') /\ (Release => ReleaseAsk')
      BY <1>0, <3>1, MoreCalls
    <3>3. Idle
      BY <2>3 DEF Attempt, OneAttempt, Idle, Asking, Holding, Ending
    <3>4. NoReport => NoReport'
      BY <1>0, <1>1, <1>2, <2>1, BeginOther
    <3>5. Down'
      BY <1>0, <3>3, <3>4 DEF Idle, Down
    <3>6. Asking'
      BY <2>3, <3>2, <3>3, <3>5 DEF Idle, Asking
    <3>. QED
      BY <1>0, <3>6 DEF Attempt, OneAttempt
  <2>. QED
    BY <2>0, <2>2, <2>3
<1>. QED
  BY <1>1, <1>3, <1>4, <1>5 DEF Nif

\* A handle unsubscribes or is ignored.
LEMMA ReleaseAttempts ==
  ASSUME Attempt, releaseATL
  PROVE  OneAttempt'
<1>0. TypeOK /\ begin("release") /\ UNCHANGED <<wds, conn>>
  BY DEF Attempt, releaseATL
<1>1. ~reportAt(1)
  BY <1>0, Begin DEF reportAt, Report
<1>2. CASE ignored(rest)
  BY <1>0, <1>1, <1>2, OtherAttempts DEF ignored, smVars, Posts
<1>3. CASE subject \in subscribers["internet"]
           /\ processAgpsEventUnsubscribe("internet", subject, rest)
  <2>1. Acts("internet", rest)
    BY <1>0, <1>3, Unsubscribe DEF Nif
  <2>. QED
    BY <1>0, <1>1, <2>1, InternetActs, OtherAttempts
<1>4. CASE subject \in subscribers["agnss"]
           /\ processAgpsEventUnsubscribe("agnss", subject, rest)
  <2>0. /\ Acts("agnss", rest)
        /\ \/ /\ mState["agnss"] # "RELEASING" /\ mState'["agnss"] = "RELEASING"
              /\ requestOrReleaseDataConn("agnss", "release", rest)
           \/ mState' = mState /\ noDataConn(rest)
    BY <1>0, <1>4, Unsubscribe DEF Nif
  <2>1. Posts(rest) /\ queue' = rest
    BY <2>0 DEF Acts
  <2>2. CASE mState' = mState /\ noDataConn(rest)
    BY <1>0, <1>1, <2>1, <2>2, OtherAttempts DEF noDataConn
  <2>3. CASE /\ mState["agnss"] # "RELEASING" /\ mState'["agnss"] = "RELEASING"
             /\ requestOrReleaseDataConn("agnss", "release", rest)
    <3>1. calls' = Append(calls, "release")
      BY <1>0, <2>3, AgnssDataConn
    <3>2. /\ NoCalls => Release'
          /\ Ask => AskRelease'
          /\ ReleaseAsk => ReleaseAskRelease'
      BY <1>0, <3>1, MoreCalls
    <3>3. Kept_Reports
      BY <1>0, <1>1, <2>1, BeginOther DEF Kept_Reports
    <3>4. /\ Down => Down'
          /\ Opening => Opening'
          /\ UpUntold => UpUntold'
          /\ Up => Up'
          /\ Refused => Refused'
          /\ Lost => Lost'
          /\ LostUntold => LostUntold'
      BY <1>0, <3>3 DEF Kept_Reports, Down, Opening, UpUntold, Up, Refused, Lost,
         LostUntold, Report
    <3>5. mState["agnss"] # "RELEASED"
      BY <1>4 DEF Attempt, ListFitsState, Nif
    <3>6. Asking \/ Holding
      BY <2>3, <3>5 DEF Attempt, OneAttempt, Idle, Asking, Holding, Ending
    <3>7. Ending'
      BY <2>3, <3>2, <3>4, <3>6 DEF Asking, Holding, Ending
    <3>. QED
      BY <1>0, <3>7 DEF Attempt, OneAttempt
  <2>. QED
    BY <2>0, <2>2, <2>3
<1>. QED
  BY <1>2, <1>3, <1>4 DEF releaseATL

\* The report that begins, and what it says of the attempt.
LEMMA ReportBegins ==
  ASSUME Attempt, NEW type \in Report, begin(type), subject = "agnss", queue' = rest,
         conn' = conn
  PROVE  /\ ~Down /\ ~Opening /\ ~Up
         /\ UpUntold => type = "opened" /\ Up'
         /\ Refused => type = "failed" /\ Down'
         /\ Lost => type = "closed" /\ Down'
         /\ LostUntold => type = "opened" /\ Lost'
  BY BeginReport DEF Attempt, Report, Down, Opening, UpUntold, Up, Refused, Lost, LostUntold

\* A report to "internet" says nothing of the attempt.
LEMMA InternetReports ==
  ASSUME Attempt, NEW type, begin(type), subject = "internet", Event(subject, rest),
         UNCHANGED <<conn, wds>>
  PROVE  OneAttempt'
<1>1. Acts("internet", rest)
  BY EventActs DEF Attempt, Nif
<1>2. ~reportAt(1)
  BY Begin DEF Attempt, reportAt
<1>. QED
  BY <1>1, <1>2, InternetActs, OtherAttempts

\* The success of an attempt is told while it is wanted or ended.
LEMMA OpenedAttempts ==
  ASSUME Attempt, reportOpened \/ reportAtlOpenSuccess, "wds" \notin Features
  PROVE  OneAttempt'
<1>1. PICK type \in {"opened", "granted"} : begin(type)
  BY DEF reportOpened, reportAtlOpenSuccess
<1>2. processAgpsEventGranted(subject, rest) /\ UNCHANGED <<wds, conn>>
  BY DEF reportOpened, reportAtlOpenSuccess
<1>3. subject \in Nif /\ TypeOK
  BY <1>1, Begin DEF Report, Attempt
<1>4. CASE subject = "internet"
  BY <1>1, <1>2, <1>4, InternetReports DEF Event
<1>5. CASE subject = "agnss"
  <2>1. /\ queue' = rest /\ calls' = calls
        /\ mState'["agnss"] = IF mState["agnss"] = "PENDING" THEN "ACQUIRED"
                                                             ELSE mState["agnss"]
    <3>1. CASE mState["agnss"] = "PENDING"
      BY <1>2, <1>3, <1>5, <3>1, Granted DEF noDataConn
    <3>2. CASE mState["agnss"] # "PENDING"
      BY <1>2, <1>5, <3>2 DEF processAgpsEventGranted, ignored, smVars
    <3>. QED
      BY <3>1, <3>2
  <2>2. /\ ~Down /\ ~Opening /\ ~Up
        /\ UpUntold => Up'
        /\ ~Refused /\ ~Lost
        /\ LostUntold => Lost'
    BY <1>1, <1>2, <1>5, <2>1, ReportBegins DEF Report
  <2>3. /\ NoCalls => NoCalls'
        /\ Release => Release'
    BY <2>1 DEF NoCalls, Release
  <2>4. ~Idle /\ ~Holding
    BY <2>2 DEF Idle, Holding
  <2>5. Asking => Holding'
    BY <2>1, <2>2, <2>3 DEF Asking, Holding
  <2>6. Ending => Ending'
    BY <2>1, <2>2, <2>3 DEF Ending
  <2>. QED
    BY <1>2, <2>4, <2>5, <2>6 DEF Attempt, OneAttempt
<1>. QED
  BY <1>3, <1>4, <1>5 DEF Nif

\* The machine's choice once its waiting handles are told.
LEMMA CloseAttempts ==
  ASSUME TypeOK, NEW r, closeInactive("agnss", r), Down', NoCalls \/ Release
  PROVE  Idle' \/ Asking'
<1>1. \/ mState'["agnss"] = "RELEASED" /\ noDataConn(r)
      \/ mState'["agnss"] = "PENDING" /\ requestOrReleaseDataConn("agnss", "request", r)
  BY CloseInactive DEF Nif
<1>2. CASE mState'["agnss"] = "RELEASED" /\ noDataConn(r)
  BY <1>2 DEF noDataConn, Idle, NoCalls, Release
<1>3. CASE mState'["agnss"] = "PENDING" /\ requestOrReleaseDataConn("agnss", "request", r)
  <2>1. calls' = Append(calls, "request")
    BY <1>3, AgnssDataConn
  <2>. QED
    BY <1>3, <2>1, MoreCalls DEF Asking
<1>. QED
  BY <1>1, <1>2, <1>3

LEMMA DropAttempts ==
  ASSUME TypeOK, NEW status \in {"denied", "closed"}, NEW r, dropAll("agnss", status, r),
         Down', NoCalls
  PROVE  Idle'
<1>1. mState'["agnss"] = "RELEASED" /\ calls' = calls
  BY DropAll DEF Nif, noDataConn
<1>. QED
  BY <1>1 DEF Idle, NoCalls

\* The end of an attempt is told, denied or closed.
LEMMA EndedAttempts ==
  ASSUME Attempt, reportAtlOpenFailed \/ reportAtlClosed
  PROVE  OneAttempt'
<1>1. PICK type \in {"failed", "closed"} :
        /\ begin(type)
        /\ type = "failed" => processAgpsEventDenied(subject, rest)
        /\ type = "closed" => processAgpsEventReleased(subject, rest)
  BY DEF reportAtlOpenFailed, reportAtlClosed
<1>2. UNCHANGED <<wds, conn>> /\ TypeOK
  BY DEF reportAtlOpenFailed, reportAtlClosed, Attempt
<1>3. subject \in Nif /\ Event(subject, rest)
  BY <1>1, <1>2, Begin DEF Report, Event
<1>4. CASE subject = "internet"
  BY <1>1, <1>2, <1>3, <1>4, InternetReports
<1>5. CASE subject = "agnss"
  <2>1. queue' = rest
    BY <1>2, <1>3, <1>5, EventActs DEF Acts
  <2>2. /\ ~Down /\ ~Opening /\ ~Up /\ ~UpUntold /\ ~LostUntold
        /\ Refused => type = "failed" /\ Down'
        /\ Lost => type = "closed" /\ Down'
    BY <1>1, <1>2, <1>5, <2>1, ReportBegins DEF Report
  <2>3. ~Idle
    BY <2>2 DEF Idle
  <2>4. CASE Asking
    <3>1. Refused /\ NoCalls /\ mState["agnss"] = "PENDING"
      BY <2>2, <2>4 DEF Asking
    <3>2. dropAll("agnss", "denied", rest)
      BY <1>1, <1>5, <2>2, <3>1 DEF processAgpsEventDenied
    <3>3. Idle'
      BY <1>2, <2>2, <3>1, <3>2, DropAttempts
    <3>. QED
      BY <1>2, <3>3 DEF Attempt, OneAttempt
  <2>5. CASE Holding
    <3>1. Lost /\ NoCalls /\ mState["agnss"] = "ACQUIRED"
      BY <2>2, <2>5 DEF Holding
    <3>2. dropAll("agnss", "closed", rest)
      BY <1>1, <1>5, <2>2, <3>1 DEF processAgpsEventReleased
    <3>3. Idle'
      BY <1>2, <2>2, <3>1, <3>2, DropAttempts
    <3>. QED
      BY <1>2, <3>3 DEF Attempt, OneAttempt
  <2>6. CASE Ending
    <3>1. Down' /\ (NoCalls \/ Release) /\ mState["agnss"] = "RELEASING"
      BY <2>2, <2>6 DEF Ending
    <3>2. closeInactive("agnss", rest)
      BY <1>1, <1>5, <3>1 DEF processAgpsEventDenied, processAgpsEventReleased
    <3>3. Idle' \/ Asking'
      BY <1>2, <3>1, <3>2, CloseAttempts
    <3>. QED
      BY <1>2, <3>3 DEF Attempt, OneAttempt
  <2>. QED
    BY <2>3, <2>4, <2>5, <2>6 DEF Attempt, OneAttempt
<1>. QED
  BY <1>3, <1>4, <1>5 DEF Nif

\* "agnss" is made, or asked to be.
LEMMA RegisterAttempts ==
  ASSUME Attempt, initAgps \/ FrameworkRegisters
  PROVE  OneAttempt'
<1>1. CASE initAgps
  <2>1. begin("init") /\ Posts(rest) /\ UNCHANGED <<mState, calls, conn, wds>>
    BY <1>1 DEF initAgps, Posts, smVars
  <2>2. ~reportAt(1)
    BY <2>1, Begin DEF Attempt, reportAt, Report
  <2>. QED
    BY <2>1, <2>2, OtherAttempts
<1>2. CASE FrameworkRegisters
  <2>1. sendMsg("init", "agnss") /\ UNCHANGED <<mState, calls, conn, wds>>
    BY <1>2 DEF FrameworkRegisters, smVars
  <2>2. Kept_Reports
    BY <2>1, MsgKinds, SendOther DEF Attempt, Kept_Reports, Report
  <2>. QED
    BY <2>1, <2>2, AttemptKept DEF Attempt
<1>. QED
  BY <1>1, <1>2

LEMMA NextAttempts ==
  ASSUME "wds" \notin Features, "longApn" \notin Features, Attempt, [Next]_vars
  PROVE  Attempt'
<1>1. TypeOK' /\ ListFitsState'
  BY NextFits DEF Attempt, Fits
<1>2. CASE UNCHANGED vars
  <2>1. Kept_Reports /\ UNCHANGED <<mState, calls, conn, wds>>
    BY <1>2 DEF vars, Kept_Reports, NoReport, OneReport, OpenedAndClosed, reportAt, typeAt
  <2>. QED
    BY <1>1, <2>1, AttemptKept DEF Attempt
<1>3. CASE Task
  BY <1>1, <1>3, RequestAttempts, ReleaseAttempts, OpenedAttempts, EndedAttempts,
     RegisterAttempts DEF Task, Attempt
<1>4. ~FrameworkOpensLongApn /\ ~WdsAnswers
  BY DEF FrameworkOpensLongApn, WdsAnswers, Attempt, OneAttempt
<1>. QED
  BY <1>1, <1>2, <1>3, <1>4, ModemAttempts, CallAttempts, ConnAttempts,
     RegisterAttempts DEF Next, Attempt

LEMMA InitAttempt == Init => Attempt
<1> SUFFICES ASSUME Init PROVE Attempt
  OBVIOUS
<1>1. TypeOK /\ ListFitsState
  BY InitFits DEF Fits
<1>2. Len(queue) = 0 /\ Len(calls) = 0
  BY DEF Init
<1>. QED
  BY <1>1, <1>2 DEF Init, Attempt, OneAttempt, Idle, Down, NoReport, NoCalls, Nif
------------------------------------------------------------------------------
(* What "internet" waits for is in the queue: NativeAgpsHandler answers at *)
(* once.                                                                   *)

answerAt(i) == queue[i][1] \in {"opened", "failed"} /\ queue[i][2] = "internet"
closeAt(i)  == queue[i][1] = "closed" /\ queue[i][2] = "internet"

AnswerPosted == \E i \in 1..Len(queue) : answerAt(i)
ClosePosted  == \E i \in 1..Len(queue) : closeAt(i)

Posted ==
  /\ mState["internet"] = "PENDING" => AnswerPosted
  /\ mState["internet"] = "RELEASING" => ClosePosted

\* A message that begins takes only itself off.
LEMMA PostedShift ==
  ASSUME TypeOK, NEW type, begin(type), Posts(rest)
  PROVE  /\ AnswerPosted /\ ~answerAt(1) => AnswerPosted'
         /\ ClosePosted /\ ~closeAt(1) => ClosePosted'
<1>1. \A i \in 1..Len(queue) : i # 1 =>
        i - 1 \in 1..Len(queue') /\ queue'[i - 1] = queue[i]
  BY Shift
<1>2. ASSUME AnswerPosted, ~answerAt(1) PROVE AnswerPosted'
  <2>1. PICK i \in 1..Len(queue) : answerAt(i) /\ i # 1
    BY <1>2 DEF AnswerPosted
  <2>2. i - 1 \in 1..Len(queue') /\ queue'[i - 1] = queue[i]
    BY <1>1, <2>1
  <2>3. PICK k \in 1..Len(queue') : queue'[k] = queue[i]
    BY <2>2
  <2>. QED
    BY <2>1, <2>3 DEF AnswerPosted, answerAt
<1>3. ASSUME ClosePosted, ~closeAt(1) PROVE ClosePosted'
  <2>1. PICK i \in 1..Len(queue) : closeAt(i) /\ i # 1
    BY <1>3 DEF ClosePosted
  <2>2. i - 1 \in 1..Len(queue') /\ queue'[i - 1] = queue[i]
    BY <1>1, <2>1
  <2>3. PICK k \in 1..Len(queue') : queue'[k] = queue[i]
    BY <2>2
  <2>. QED
    BY <2>1, <2>3 DEF ClosePosted, closeAt
<1>. QED
  BY <1>2, <1>3

\* A message that is sent leaves the others.
LEMMA PostedSend ==
  ASSUME TypeOK, NEW type, NEW what, <<type, what>> \in Msg, sendMsg(type, what)
  PROVE  (AnswerPosted => AnswerPosted') /\ (ClosePosted => ClosePosted')
<1>1. \A i \in 1..Len(queue) : i \in 1..Len(queue') /\ queue'[i] = queue[i]
  <2>1. /\ Len(queue) \in Nat /\ Len(queue') = Len(queue) + 1
        /\ \A i \in 1..Len(queue) : queue'[i] = queue[i]
    BY SendMsg
  <2>. QED
    BY <2>1
<1>. QED
  BY <1>1 DEF AnswerPosted, ClosePosted, answerAt, closeAt

\* What is asked of NativeAgpsHandler is answered.
LEMMA PostsAnswer ==
  ASSUME "longApn" \notin Features, NEW what \in {"request", "release"},
         NEW r \in Seq(Msg), requestOrReleaseDataConn("internet", what, r)
  PROVE  /\ what = "request" => AnswerPosted'
         /\ what = "release" => ClosePosted'
<1>1. ASSUME NEW t \in {"opened", "failed", "closed"}, queue' = Append(r, <<t, "internet">>)
      PROVE  \E k \in 1..Len(queue') : queue'[k][1] = t /\ queue'[k][2] = "internet"
  <2>1. queue'[Len(queue')] = <<t, "internet">> /\ Len(queue') \in 1..Len(queue')
    <3>. HIDE DEF Msg
    <3>. QED
      BY <1>1
  <2>. QED
    BY <2>1
<1>2. processATLRequestRelease(what, r)
  BY DEF requestOrReleaseDataConn
<1>3. CASE what = "request"
  <2>1. PICK t \in {"opened", "failed"} : queue' = Append(r, <<t, "internet">>)
    BY <1>2, <1>3 DEF processATLRequestRelease
  <2>2. PICK k \in 1..Len(queue') : queue'[k][1] = t /\ queue'[k][2] = "internet"
    BY <1>1, <2>1
  <2>. QED
    BY <1>3, <2>2 DEF AnswerPosted, answerAt
<1>4. CASE what = "release"
  <2>1. queue' = Append(r, <<"closed", "internet">>)
    BY <1>2, <1>4 DEF processATLRequestRelease
  <2>2. PICK k \in 1..Len(queue') : queue'[k][1] = "closed" /\ queue'[k][2] = "internet"
    BY <1>1, <2>1
  <2>. QED
    BY <1>4, <2>2 DEF ClosePosted, closeAt
<1>. QED
  BY <1>3, <1>4

\* A message that has "internet" do nothing, and is no report to it.
LEMMA OtherPosted ==
  ASSUME TypeOK, Posted, NEW type, begin(type), Posts(rest),
         type \notin Report \/ subject # "internet",
         mState'["internet"] = mState["internet"]
  PROVE  Posted'
<1>1. ~answerAt(1) /\ ~closeAt(1)
  BY Begin DEF answerAt, closeAt, Report
<1>. QED
  BY <1>1, PostedShift DEF Posted

LEMMA AgnssActs ==
  ASSUME NEW r, Acts("agnss", r)
  PROVE  Posts(r) /\ mState'["internet"] = mState["internet"]
  BY DEF Acts, Nif

\* A request or a release of a handle.
LEMMA HandlePosted ==
  ASSUME "longApn" \notin Features, TypeOK, Posted,
         requestATL \/ requestATLNoMachine \/ releaseATL
  PROVE  Posted'
<1>1. PICK type \in Request : begin(type)
  BY DEF requestATL, requestATLNoMachine, releaseATL, Request, TypeOK
<1>2. subject \in Handle /\ rest \in Seq(Msg) /\ type \notin Report
  BY <1>1, Begin DEF Request, Report, Nif
<1>3. ASSUME Posts(rest), mState'["internet"] = mState["internet"] PROVE Posted'
  BY <1>1, <1>2, <1>3, OtherPosted
<1>4. CASE requestATLNoMachine \/ ignored(rest)
  <2>1. Posts(rest) /\ UNCHANGED mState
    BY <1>4 DEF requestATLNoMachine, ignored, smVars, Posts
  <2>. QED
    BY <1>3, <2>1
<1>5. ASSUME NEW n \in Nif, processAgpsEventSubscribe(n, subject, rest) PROVE Posted'
  <2>1. /\ Acts(n, rest)
        /\ \/ mState'[n] = "PENDING" /\ requestOrReleaseDataConn(n, "request", rest)
           \/ mState' = mState
    BY <1>2, <1>5, Subscribe
  <2>2. CASE n = "agnss"
    BY <1>3, <2>1, <2>2, AgnssActs
  <2>3. CASE n = "internet" /\ mState' = mState
    BY <1>3, <2>1, <2>3 DEF Acts
  <2>4. CASE n = "internet" /\ mState'[n] = "PENDING"
             /\ requestOrReleaseDataConn(n, "request", rest)
    <3>1. AnswerPosted'
      BY <1>2, <2>4, PostsAnswer
    <3>. QED
      BY <2>4, <3>1 DEF Posted
  <2>. QED
    BY <2>1, <2>2, <2>3, <2>4 DEF Nif
<1>6. ASSUME NEW n \in Nif, subject \in subscribers[n],
             processAgpsEventUnsubscribe(n, subject, rest) PROVE Posted'
  <2>1. /\ Acts(n, rest)
        /\ \/ mState'[n] = "RELEASING" /\ requestOrReleaseDataConn(n, "release", rest)
           \/ mState' = mState
    BY <1>6, Unsubscribe
  <2>2. CASE n = "agnss"
    BY <1>3, <2>1, <2>2, AgnssActs
  <2>3. CASE n = "internet" /\ mState' = mState
    BY <1>3, <2>1, <2>3 DEF Acts
  <2>4. CASE n = "internet" /\ mState'[n] = "RELEASING"
             /\ requestOrReleaseDataConn(n, "release", rest)
    <3>1. ClosePosted'
      BY <1>2, <2>4, PostsAnswer
    <3>. QED
      BY <2>4, <3>1 DEF Posted
  <2>. QED
    BY <2>1, <2>2, <2>3, <2>4 DEF Nif
<1>7. CASE requestATL
  BY <1>5, <1>7 DEF requestATL, TypeOK
<1>8. CASE releaseATL
  BY <1>4, <1>6, <1>8 DEF releaseATL, Nif
<1>. QED
  BY <1>4, <1>7, <1>8

\* A report to either machine.
LEMMA ReportPosted ==
  ASSUME "wds" \notin Features, "longApn" \notin Features, TypeOK, Posted,
         reportOpened \/ reportAtlOpenSuccess \/ reportAtlOpenFailed \/ reportAtlClosed
  PROVE  Posted'
<1>1. PICK type \in Report :
        /\ begin(type)
        /\ type \in {"opened", "granted"} => processAgpsEventGranted(subject, rest)
        /\ type = "failed" => processAgpsEventDenied(subject, rest)
        /\ type = "closed" => processAgpsEventReleased(subject, rest)
  BY DEF reportOpened, reportAtlOpenSuccess, reportAtlOpenFailed, reportAtlClosed, Report
<1>2. subject \in Nif /\ rest \in Seq(Msg) /\ Event(subject, rest)
  BY <1>1, Begin DEF Report, Event
<1>3. Acts(subject, rest)
  BY <1>2, EventActs
<1>4. CASE subject = "agnss"
  BY <1>1, <1>3, <1>4, AgnssActs, OtherPosted
<1>5. CASE subject = "internet"
  <2>1. queue[1][1] = type /\ queue[1][2] = "internet" /\ Posts(rest)
    BY <1>1, <1>3, <1>5, Begin DEF Acts
  <2>2. CASE mState'["internet"] \in {"RELEASED", "ACQUIRED"}
    BY <2>2 DEF Posted
  <2>3. CASE closeInactive("internet", rest)
    <3>1. \/ mState'["internet"] = "RELEASED"
          \/ /\ mState'["internet"] = "PENDING"
             /\ requestOrReleaseDataConn("internet", "request", rest)
      BY <2>3, CloseInactive DEF Nif
    <3>. QED
      BY <1>2, <2>2, <3>1, PostsAnswer DEF Posted
  <2>4. CASE mState["internet"] = "PENDING" /\ ignored(rest) /\ type = "closed"
    <3>1. ~answerAt(1) /\ mState'["internet"] = "PENDING"
      BY <2>1, <2>4 DEF answerAt, ignored, smVars
    <3>. QED
      BY <1>1, <2>1, <2>4, <3>1, PostedShift DEF Posted
  <2>5. CASE mState["internet"] = "RELEASING" /\ ignored(rest)
             /\ type \in {"opened", "granted"}
    <3>1. ~closeAt(1) /\ mState'["internet"] = "RELEASING"
      BY <2>1, <2>5 DEF closeAt, ignored, smVars
    <3>. QED
      BY <1>1, <2>1, <2>5, <3>1, PostedShift DEF Posted
  <2>6. CASE mState["internet"] \in {"RELEASED", "ACQUIRED"} /\ ignored(rest)
    BY <2>2, <2>6 DEF ignored, smVars
  <2>7. mState["internet"] \in States
    BY DEF TypeOK, States, Nif
  <2>8. CASE type \in {"opened", "granted"}
    <3>1. CASE mState["internet"] = "PENDING"
      <4>1. mState'["internet"] = "ACQUIRED"
        BY <1>1, <1>5, <2>8, <3>1, Granted DEF Nif
      <4>. QED
        BY <2>2, <4>1
    <3>2. CASE mState["internet"] # "PENDING"
      <4>1. ignored(rest)
        BY <1>1, <1>5, <2>8, <3>2 DEF processAgpsEventGranted
      <4>. QED
        BY <2>5, <2>6, <2>7, <2>8, <3>2, <4>1 DEF States
    <3>. QED
      BY <3>1, <3>2
  <2>9. ASSUME NEW status \in {"denied", "closed"}, dropAll("internet", status, rest)
        PROVE  mState'["internet"] = "RELEASED"
    BY <2>9, DropAll DEF Nif
  <2>10. CASE type = "failed"
    BY <1>1, <1>5, <2>2, <2>3, <2>6, <2>9, <2>10 DEF processAgpsEventDenied
  <2>11. CASE type = "closed"
    BY <1>1, <1>5, <2>2, <2>3, <2>4, <2>6, <2>9, <2>11 DEF processAgpsEventReleased
  <2>. QED
    BY <2>8, <2>10, <2>11 DEF Report
<1>. QED
  BY <1>2, <1>4, <1>5 DEF Nif

LEMMA NextPosted ==
  ASSUME "wds" \notin Features, "longApn" \notin Features, TypeOK, Posted, [Next]_vars
  PROVE  Posted'
<1>1. CASE UNCHANGED vars
  BY <1>1 DEF vars, Posted, AnswerPosted, ClosePosted, answerAt, closeAt
<1>2. CASE initAgps
  <2>1. begin("init") /\ Posts(rest) /\ UNCHANGED mState
    BY <1>2 DEF initAgps, Posts, smVars
  <2>. QED
    BY <2>1, OtherPosted DEF Report
<1>3. CASE /\ ~Task /\ ~FrameworkOpensLongApn /\ Next
  <2>1. UNCHANGED mState
    BY <1>3 DEF Next, ModemRequests, ModemReleases, ModemRestarts, FrameworkRegisters,
       FrameworkRequested, FrameworkReleased, FrameworkOpens, FrameworkFails,
       FrameworkLoses, WdsAnswers, smVars
  <2>2. \/ UNCHANGED queue
        \/ \E type \in Request, h \in Handle : sendMsg(type, h)
        \/ \E type \in Report, n \in Nif : sendMsg(type, n)
        \/ sendMsg("init", "agnss")
    BY <1>3 DEF Next, ModemRequests, ModemReleases, ModemRestarts, FrameworkRegisters,
       FrameworkRequested, FrameworkReleased, FrameworkOpens, FrameworkFails,
       FrameworkLoses, WdsAnswers, smVars, Request, Report, Nif
  <2>3. (AnswerPosted => AnswerPosted') /\ (ClosePosted => ClosePosted')
    <3>1. CASE UNCHANGED queue
      BY <3>1 DEF AnswerPosted, ClosePosted, answerAt, closeAt
    <3>. QED
      BY <2>2, <3>1, PostedSend, MsgKinds
  <2>. QED
    BY <2>1, <2>3 DEF Posted
<1>4. ~FrameworkOpensLongApn
  BY DEF FrameworkOpensLongApn
<1>. QED
  BY <1>1, <1>2, <1>3, <1>4, HandlePosted, ReportPosted DEF Next, Task

\* With nothing under way "agnss" and the framework agree on the connection and
\* "internet" waits for nothing, whatever order requests, releases, answers and
\* losses come in, and though the modem restarts.
THEOREM ConnectionSettles ==
  ASSUME "wds" \notin Features, "longApn" \notin Features
  PROVE  Spec => []Settled
<1>1. Attempt /\ Posted => Settled
  <2> SUFFICES ASSUME Attempt, Posted, queue = <<>>, calls = <<>>
               PROVE  /\ mState["internet"] \in {"RELEASED", "ACQUIRED"}
                      /\ mState["agnss"] # "RELEASING"
                      /\ conn = [RELEASED |-> "closed", PENDING |-> "opening",
                                 ACQUIRED |-> "open"][mState["agnss"]]
    BY DEF Settled
  <2>1. Len(queue) = 0 /\ Len(calls) = 0
    OBVIOUS
  <2>2. ~UpUntold /\ ~Refused /\ ~Lost /\ ~LostUntold
    BY <2>1 DEF UpUntold, Refused, Lost, LostUntold, OneReport, OpenedAndClosed
  <2>3. ~Release /\ ~Ask /\ ~ReleaseAsk /\ ~AskRelease /\ ~ReleaseAskRelease
    BY <2>1 DEF Release, Ask, ReleaseAsk, AskRelease, ReleaseAskRelease
  <2>4. \/ mState["agnss"] = "RELEASED" /\ conn = "closed"
        \/ mState["agnss"] = "PENDING" /\ conn = "opening"
        \/ mState["agnss"] = "ACQUIRED" /\ conn = "open"
    BY <2>2, <2>3 DEF Attempt, OneAttempt, Idle, Asking, Holding, Ending, Down, Opening, Up
  <2>5. ~AnswerPosted /\ ~ClosePosted
    BY <2>1 DEF AnswerPosted, ClosePosted
  <2>6. mState["internet"] \in {"RELEASED", "ACQUIRED"}
    BY <2>5 DEF Attempt, TypeOK, Posted, Nif
  <2>. QED
    BY <2>4, <2>6
<1>2. Attempt /\ Posted /\ [Next]_vars => Attempt' /\ Posted'
  BY NextAttempts, NextPosted DEF Attempt
<1>3. Init => Attempt /\ Posted
  BY InitAttempt DEF Init, Posted, Nif
<1>. QED
  BY <1>1, <1>2, <1>3, PTL DEF Spec

\* While "agnss" holds the connection it is up, or the report of its loss is
\* queued, as the comment of Agps.cpp:93 says: that the run with both features
\* finds a counterexample is due to them alone.
THEOREM AcquiredMeansConnected ==
  ASSUME "wds" \notin Features, "longApn" \notin Features
  PROVE  Spec => []AcquiredIsConnected
<1>1. Attempt => AcquiredIsConnected
  <2> SUFFICES ASSUME Attempt, mState["agnss"] = "ACQUIRED", conn # "open"
               PROVE  \E i \in 1..Len(queue) : queue[i] = <<"closed", "agnss">>
    BY DEF AcquiredIsConnected
  <2>1. OneReport("closed")
    BY DEF Attempt, OneAttempt, Idle, Asking, Holding, Ending, Up, Lost
  <2>2. PICK i \in 1..Len(queue) : queue[i][1] = "closed" /\ queue[i][2] = "agnss"
    BY <2>1 DEF OneReport, typeAt
  <2>3. queue[i] \in Msg
    <3>1. queue \in Seq(Msg)
      BY DEF Attempt, TypeOK
    <3>. HIDE DEF Msg
    <3>. QED
      BY <3>1
  <2>4. queue[i] = <<"closed", "agnss">>
    BY <2>2, <2>3 DEF Msg
  <2>. QED
    BY <2>4
<1>2. Attempt /\ [Next]_vars => Attempt'
  BY NextAttempts
<1>. QED
  BY <1>1, <1>2, InitAttempt, PTL DEF Spec
=============================================================================
