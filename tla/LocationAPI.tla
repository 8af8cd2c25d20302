---------------------------- MODULE LocationAPI ----------------------------
(***************************************************************************)
(* The life of a client in gps/location/LocationAPI.cpp and the registries *)
(* it enters: LocationAPI creates a client and adds it to the adapters its *)
(* callbacks ask for, each adapter (gps/core/LocAdapterBase.cpp) keeps its *)
(* clients, their sessions and an event mask, and LocApiBase keeps the     *)
(* modem open for the union of these masks. A client is destroyed in as    *)
(* many steps as there are adapters, and its object is deleted by the last.*)
(*                                                                         *)
(* Three kinds of thread: callers, serialised by gDataMutex; one task for  *)
(* all adapters (LocContext has one MsgTask); and the task of LocApiBase.  *)
(***************************************************************************)
EXTENDS Integers, Sequences, FiniteSets, SequencesExt

CONSTANTS
  Client,
  Interface,               \* gnss, batching, geofence
  Library,                 \* the interfaces whose library can be loaded
  Callbacks,               \* sets of interfaces clients have callbacks for
  Kinds,                   \* per interface, the kinds of session it has
  None,
  MaxCalls,                \* bound: sessions started, callbacks changed, restarts
  MaxBacklog               \* bound: messages waiting when a caller calls

ASSUME LocationAPIAssumption ==
  /\ Library \subseteq Interface /\ Callbacks \subseteq SUBSET Interface
  /\ None \notin Client \cup Interface /\ IsFiniteSet(Interface)
  /\ Kinds \in [Interface -> SUBSET {"time", "distance", "routine", "trip"}]
  /\ {MaxCalls, MaxBacklog} \subseteq Nat

VARIABLES
  gData,                   \* clientData, destroyClientData, the interfaces
                           \* loaded, references to the OS framework
  object,                  \* a LocationAPI: "none", "live", "deleted"; or "aborted",
                           \* which ends the process
  adapter,                 \* per interface: known, clients, sessions, pending
  queue,                   \* the task of the adapters
  apiQueue,                \* the task of LocApiBase
  modem,                   \* up: it can be opened; known: ContextBase has its
                           \* capabilities; mask: the adapters whose clients it reports to
  asked,                   \* starts and stops of sessions the modem has yet to answer
  issued,                  \* sessions clients started and may stop
  told,                    \* clients that were told the capabilities
  calls,
  refused                  \* history: sessions the modem would not stop

sessionVars == <<asked, issued, refused>>
vars == <<gData, object, adapter, queue, apiQueue, modem, told, calls, sessionVars>>

With(f, x, y) == [z \in DOMAIN f \cup {x} |-> IF z = x THEN y ELSE f[z]]
Without(f, x) == [z \in DOMAIN f \ {x} |-> f[z]]
Nothing       == [x \in {} |-> None]

Init ==
  /\ gData = [clientData |-> Nothing, destroyClientData |-> Nothing,
              loaded |-> {}, osFrameworkRefCount |-> 0]
  /\ object = [c \in Client |-> "none"]
  /\ adapter = [i \in Interface |->
                  [known |-> FALSE, clients |-> {}, sessions |-> {}, pending |-> <<>>]]
  /\ queue = <<>> /\ apiQueue = <<>>
  /\ modem = [up |-> FALSE, known |-> FALSE, mask |-> {}]
  /\ told = {} /\ calls = 0
  /\ asked = {} /\ issued = {} /\ refused = {}
------------------------------------------------------------------------------
(* Callers, under gDataMutex. *)

msg(type, i, c) == [type |-> type, interface |-> i, client |-> c]
inOrder(I) == SetToSeq(I)
messages(type, I, c) == [n \in 1..Cardinality(I) |-> msg(type, inOrder(I)[n], c)]

\* a library is loaded, and its adapter made and added, when first needed
load(want) ==
  LET new == (want \cap Library) \ gData.loaded
  IN /\ adapter' = [i \in Interface |->
                      IF i \in new THEN [adapter[i] EXCEPT !.known = modem.known]
                      ELSE adapter[i]]
     /\ apiQueue' = apiQueue \o messages("open", new, None)
addTo(want) == want \cap (gData.loaded \cup Library)

createInstance(c, callbacks) ==
  LET I == addTo(callbacks)
  IN /\ object[c] = "none" /\ object' = [object EXCEPT ![c] = "live"]
     /\ load(callbacks)
     /\ queue' = queue \o messages("add", I, c)
                       \o IF I = {} THEN <<>>
                          ELSE <<msg("capabilities", inOrder(I)[1], c)>>
     /\ gData' = [gData EXCEPT !.clientData = With(@, c, callbacks), !.loaded = @ \cup I,
                               !.osFrameworkRefCount = @ + 1]
     /\ UNCHANGED <<modem, told, calls, sessionVars>>

updateCallbacks(c, callbacks) ==
  LET I == addTo(callbacks)
  IN /\ c \in DOMAIN gData.clientData /\ gData.clientData[c] # callbacks
     /\ calls < MaxCalls /\ calls' = calls + 1
     /\ load(callbacks)
     /\ queue' = queue \o messages("add", I, c)
     /\ gData' = [gData EXCEPT !.clientData = With(@, c, callbacks), !.loaded = @ \cup I]
     /\ UNCHANGED <<object, modem, told, sessionVars>>

\* The client, taken from the map, is removed from all interfaces there are, and waits
\* for those in wait.  With no interface and no callback an empty function is called.
takenApart(c, withCallback, wait) ==
  /\ c \in DOMAIN gData.clientData
  /\ gData' = [gData EXCEPT
       !.clientData = Without(@, c), !.osFrameworkRefCount = @ - 1,
       !.destroyClientData =
         IF withCallback /\ gData.loaded # {} THEN With(@, c, wait) ELSE @]
  /\ queue' = queue \o messages("remove", gData.loaded, c)
  /\ object' = [object EXCEPT ![c] = IF gData.loaded # {} THEN @
                                    ELSE IF withCallback THEN "deleted" ELSE "aborted"]
  /\ UNCHANGED <<adapter, apiQueue, modem, told, calls, sessionVars>>

destroy_WaitsForAll(c, withCallback) == takenApart(c, withCallback, Interface)

\* With a callback the client waits for all interfaces; without one, nobody
\* deletes it once there are interfaces.
destroy(c, withCallback) == takenApart(c, withCallback, gData.loaded)

about(type, i, s) == [type |-> type, interface |-> i, session |-> s]

\* startTracking, startBatching: the interface, if loaded, gets a message
startSession(c, i, kind) ==
  LET s == [client |-> c, id |-> calls, kind |-> kind]
  IN /\ calls < MaxCalls /\ calls' = calls + 1
     /\ c \in DOMAIN gData.clientData /\ i \in gData.loaded
     /\ queue' = Append(queue, about("start", i, s))
     /\ issued' = issued \cup {[interface |-> i, session |-> s]}
     /\ UNCHANGED <<gData, object, adapter, apiQueue, modem, told, asked, refused>>

\* stopTracking, stopBatching
stopSession(x) ==
  /\ x.session.client \in DOMAIN gData.clientData
  /\ queue' = Append(queue, about("stop", x.interface, x.session))
  /\ issued' = issued \ {x}
  /\ UNCHANGED <<gData, object, adapter, apiQueue, modem, told, calls, asked, refused>>

running == \A c \in Client : object[c] # "aborted"

Callers ==
  /\ running /\ Len(queue) + Len(apiQueue) <= MaxBacklog
  /\ \/ \E c \in Client :
          \/ \E callbacks \in Callbacks : \/ createInstance(c, callbacks)
                                          \/ updateCallbacks(c, callbacks)
          \/ \E withCallback \in BOOLEAN : destroy(c, withCallback)
          \/ \E i \in Interface : \E kind \in Kinds[i] : startSession(c, i, kind)
     \/ \E x \in issued : stopSession(x)
------------------------------------------------------------------------------
(* The task of the adapters. *)

begin(type) ==
  queue # <<>> /\ Head(queue).type = type
this   == adapter[Head(queue).interface]
client == Head(queue).client
becomes(a) == adapter' = [adapter EXCEPT ![Head(queue).interface] = a]
updateClientsEventMask == apiQueue' = Append(apiQueue, msg("open", None, None))

MsgAddClient ==
  /\ begin("add") /\ queue' = Tail(queue)
  /\ becomes([this EXCEPT !.clients = @ \cup {client}]) /\ updateClientsEventMask
  /\ UNCHANGED <<gData, object, modem, told, calls, sessionVars>>

\* before the engine is up, messages wait
postpone == becomes([this EXCEPT !.pending = Append(@, Head(queue))])

MsgRequestCapabilities ==
  /\ begin("capabilities") /\ queue' = Tail(queue)
  /\ \/ ~this.known /\ postpone /\ UNCHANGED told
     \/ /\ this.known /\ UNCHANGED adapter
        /\ told' = told \cup ({client} \cap this.clients)
  /\ UNCHANGED <<gData, object, apiQueue, modem, calls, sessionVars>>

(* Sessions.  Those for fixes at intervals ("time") share one of the modem;  *)
(* those by distance and the batches for a routine have each their own; the *)
(* trips share one, and only the first is saved with the batches.           *)
subject == Head(queue).session
request(op) == [op |-> op, interface |-> Head(queue).interface, session |-> subject]
asks(R)     == asked' = asked \cup R
sessionsBecome(S) == becomes([this EXCEPT !.sessions = S])

\* a client that is not there, or no longer, starts nothing
startUnless(missing) ==
  /\ begin("start") /\ queue' = Tail(queue)
  /\ LET waits == ~this.known /\ subject.kind # "time"
     IN \/ waits /\ postpone /\ UNCHANGED asked
        \/ ~waits /\ missing /\ UNCHANGED <<adapter, asked>>
        \/ /\ ~waits /\ ~missing /\ sessionsBecome(this.sessions \cup {subject})
           /\ asks({request("start")}) \/ (subject.kind = "time" /\ UNCHANGED asked)
        \/ ~waits /\ subject.kind = "trip" /\ UNCHANGED <<adapter, asked>>
  /\ UNCHANGED <<gData, object, apiQueue, modem, told, calls, issued, refused>>

MsgStartSession_Unchecked == startUnless(FALSE)

MsgStartSession == startUnless(subject.client \notin this.clients)

\* A batch for a routine is forgotten when its stop is asked, a session by distance when
\* it is granted; a trip stays with the batches, unless it is over and stopped as one.
MsgStopSession ==
  /\ begin("stop") /\ queue' = Tail(queue)
  /\ LET waits == ~this.known /\ subject.kind \in {"routine", "trip"}
         stops == ~waits /\ subject \in this.sessions
     IN \/ waits /\ postpone /\ UNCHANGED asked
        \/ ~waits /\ subject \notin this.sessions /\ UNCHANGED <<adapter, asked>>
        \/ /\ stops /\ subject.kind = "time"
           /\ sessionsBecome(this.sessions \ {subject}) /\ UNCHANGED asked
        \/ stops /\ subject.kind = "distance" /\ UNCHANGED adapter /\ asks({request("stop")})
        \/ stops /\ subject.kind = "trip" /\ UNCHANGED <<adapter, asked>>
        \/ /\ stops /\ subject.kind \in {"routine", "trip"}
           /\ sessionsBecome(this.sessions \ {subject}) /\ asks({request("stop")})
  /\ UNCHANGED <<gData, object, apiQueue, modem, told, calls, issued, refused>>

\* What LocApiResponse runs: a start that failed is undone; of a stop that failed, the
\* batch is saved again, whether or not there is still a client.
answered(S, op, ok) ==
  IF op = "start" THEN IF ok THEN S ELSE S \ {subject}
  ELSE IF subject.kind = "distance" THEN IF ok THEN S \ {subject} ELSE S
  ELSE IF ok THEN S ELSE S \cup {subject}

MsgResponse ==
  /\ begin("answer") /\ queue' = Tail(queue)
  /\ LET m == Head(queue)
     IN /\ sessionsBecome(answered(this.sessions, m.op, m.ok))
        /\ refused' = IF m.ok \/ m.op = "start" THEN refused
                      ELSE refused \cup {[interface |-> m.interface, session |-> subject]}
  /\ UNCHANGED <<gData, object, apiQueue, modem, told, calls, asked, issued>>

onRemoveClientCompleteCb(c, i) ==
  IF c \notin DOMAIN gData.destroyClientData THEN UNCHANGED <<gData, object>>
  ELSE LET wait == gData.destroyClientData[c] \ {i}
       IN /\ gData' = [gData EXCEPT !.destroyClientData =
                         IF wait = {} THEN Without(@, c) ELSE With(@, c, wait)]
          /\ object' = [object EXCEPT ![c] = IF wait = {} THEN "deleted" ELSE @]

\* stopClientSessions, then eraseClient
MsgRemoveClient ==
  LET own  == {s \in this.sessions : s.client = client}
      kept == {s \in own : s.kind \in {"distance", "trip"}}
      stop == {s \in own : s.kind \in {"distance", "routine"}}
  IN /\ begin("remove") /\ queue' = Tail(queue)
     /\ becomes([this EXCEPT !.sessions = (@ \ own) \cup kept, !.clients = @ \ {client}])
     /\ asks([op : {"remove"}, interface : {Head(queue).interface}, session : stop])
     /\ updateClientsEventMask
     /\ onRemoveClientCompleteCb(client, Head(queue).interface)
     /\ UNCHANGED <<modem, told, calls, issued, refused>>

MsgHandleEngineUp ==
  /\ begin("up") /\ queue' = Tail(queue) \o this.pending
  /\ becomes([this EXCEPT !.known = TRUE, !.pending = <<>>])
  /\ told' = told \cup this.clients
  /\ UNCHANGED <<gData, object, apiQueue, modem, calls, sessionVars>>

AdapterTask ==
  /\ running
  /\ \/ MsgAddClient \/ MsgRequestCapabilities \/ MsgStartSession \/ MsgStopSession
     \/ MsgResponse \/ MsgRemoveClient \/ MsgHandleEngineUp
------------------------------------------------------------------------------
(* The task of LocApiBase, and the modem. *)

getEvtMask == {i \in gData.loaded : adapter[i].clients # {}}
\* opening makes the capabilities known; the adapters are told by messages
open(I) ==
  IF modem.up
  THEN /\ modem' = [modem EXCEPT !.known = TRUE, !.mask = getEvtMask]
       /\ queue' = queue \o messages("up", I, None)
  ELSE UNCHANGED <<modem, queue>>

LocOpenMsg ==
  /\ apiQueue # <<>> /\ Head(apiQueue).type = "open" /\ apiQueue' = Tail(apiQueue)
  /\ open({Head(apiQueue).interface} \ {None})
  /\ UNCHANGED <<gData, object, adapter, told, calls, sessionVars>>

LocSsrMsg ==
  /\ apiQueue # <<>> /\ Head(apiQueue).type = "ssr" /\ apiQueue' = Tail(apiQueue)
  /\ open(gData.loaded)
  /\ UNCHANGED <<gData, object, adapter, told, calls, sessionVars>>

\* the service of the modem appears, or comes back without registrations
handleEngineDownEvent ==
  /\ running
  /\ \/ ~modem.up /\ UNCHANGED calls
     \/ modem.up /\ calls < MaxCalls /\ calls' = calls + 1
  /\ modem' = [modem EXCEPT !.up = TRUE, !.mask = {}]
  /\ apiQueue' = Append(apiQueue, msg("ssr", None, None))
  /\ UNCHANGED <<gData, object, adapter, queue, told, sessionVars>>

\* a start or a stop is answered, in any order
returnToSender ==
  /\ running /\ \E r \in asked, ok \in BOOLEAN :
       /\ asked' = asked \ {r}
       /\ queue' = Append(queue, [type |-> "answer", interface |-> r.interface,
                                  session |-> r.session, op |-> r.op, ok |-> ok])
  /\ UNCHANGED <<gData, object, adapter, apiQueue, modem, told, calls, issued, refused>>

ApiTask == running /\ (LocOpenMsg \/ LocSsrMsg)

Next == Callers \/ AdapterTask \/ ApiTask \/ handleEngineDownEvent \/ returnToSender

\* the tasks run, and the modem comes up
Fairness == /\ WF_vars(AdapterTask) /\ WF_vars(ApiTask)
            /\ WF_vars(~modem.up /\ handleEngineDownEvent)
Spec == Init /\ [][Next]_vars /\ Fairness
------------------------------------------------------------------------------
(* Properties. *)

\* A deleted client is in no adapter and nothing on its way makes it a client
\* again. (Postponed messages may still name it.)
DeletedIsForgotten ==
  \A c \in Client : object[c] = "deleted" =>
    /\ \A i \in Interface : c \notin adapter[i].clients
    /\ \A n \in DOMAIN queue : queue[n] \notin
         [type : {"add", "remove"}, interface : Interface, client : {c}]

\* However starts, stops, postponed ones, removals and the modem's answers are ordered,
\* a session belongs to a client of its adapter, or is by distance and the modem was asked
\* to stop it and has yet to answer; or the modem would not stop it; or it is a trip,
\* which stays with the batches.
stopUnderway(i, s) ==
  \/ \E r \in asked : r.op # "start" /\ r.interface = i /\ r.session = s
  \/ \E n \in DOMAIN queue : /\ queue[n].type = "answer" /\ queue[n].op # "start"
                             /\ queue[n].interface = i /\ queue[n].session = s
SessionsEnd ==
  \A i \in Interface : \A s \in adapter[i].sessions :
    \/ s.client \in adapter[i].clients \/ s.kind = "trip"
    \/ s.kind = "distance" /\ stopUnderway(i, s)
    \/ [interface |-> i, session |-> s] \in refused

\* What outlives a client, in the order in which it is taken apart, is being stopped.
ClientsEnd == DeletedIsForgotten /\ SessionsEnd

\* Once the tasks are idle the modem reports to the adapters that have clients.
MaskFollows ==
  queue = <<>> /\ apiQueue = <<>> /\ modem.up =>
    modem.mask = {i \in Interface : adapter[i].clients # {}}

\* A client that asks for the capabilities is told them, also when the engine
\* was not up; a client destroyed with a callback is deleted; unless the process aborts.
ClientServed(c) ==
  /\ (\E n \in DOMAIN queue : queue[n].type = "capabilities" /\ queue[n].client = c)
       ~> c \in told \/ c \notin DOMAIN gData.clientData \/ ~running
  /\ c \in DOMAIN gData.destroyClientData ~> object[c] = "deleted" \/ ~running
=============================================================================
