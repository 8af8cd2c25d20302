------------------------------ MODULE Geofence ------------------------------
(* Geofences, from the framework to the modem:                              *)
(*   - LocationAPIClientBase, the client: it names fences by the ids of the *)
(*     framework, queues one request per call and gives each answer to the  *)
(*     request at the head of that queue;                                   *)
(*   - GeofenceAdapter, on the message task of the adapters: it names       *)
(*     fences by session and keeps the modem's id (hwId) of each;           *)
(*   - the task of LocApiBase, which talks to the modem (external) and      *)
(*     posts every answer back to the adapters' task.                       *)
(* A request holds one fence, as every call of GeofenceAPIClient.cpp does.  *)
EXTENDS Naturals, Sequences, FiniteSets, SequencesExt, Functions
CONSTANTS Client, Mask, None,
          Fence,        \* client -> the ids it uses
          Careful,      \* clients that await the answer for a fence
          MaxSession,   \* bound: sessions generated
          MaxInFlight,  \* bound: messages in the two tasks
          MaxCalls,     \* bound: calls of the clients
          MaxRestarts,  \* bound: modem restarts
          MaxCrossed    \* bound: messages under way when the modem restarts
ASSUME GeofenceAssumption ==
    /\ Careful \subseteq Client /\ DOMAIN Fence = Client
    /\ MaxSession \in Nat /\ MaxInFlight \in Nat
    /\ MaxCalls \in Nat /\ MaxRestarts \in Nat
    /\ MaxCrossed \in Nat
VARIABLES
    mRequestQueue,  \* client: the requests that await an answer
    mForwardMap, mBackwardMap, mExtMap,  \* client: fence -> session and back
    mLocationAPI,   \* clients that are not destroyed
    failedAdds,     \* client: fences whose addition was refused
    mClientData, mGeofences, mGeofenceIds,  \* adapter
    task,           \* messages of the adapters' task
    apiTask,        \* messages of the task of LocApiBase
    engine,         \* modem: hwId -> the fence it watches
    mSessionIdCounter, calls, restarts,
    lastHwId,       \* modem: the last hwId it gave out
    resumeFailed,   \* a resume failed, and was not answered
    crossed         \* history: a restart met messages under way

dictVars == <<mForwardMap, mBackwardMap, mExtMap>>
clientVars == <<dictVars, mLocationAPI, mSessionIdCounter, calls>>
replyVars == <<mRequestQueue, failedAdds, resumeFailed>>
adapterVars == <<mClientData, mGeofences, mGeofenceIds>>
engineVars == <<engine, lastHwId, restarts, crossed>>
vars == <<clientVars, replyVars, adapterVars, task, apiTask, engineVars>>

Session == 1..MaxSession
HwId == 1..(2 * MaxSession)
Empty == [x \in {} |-> None]
Without(f, x) == Restrict(f, DOMAIN f \ {x})
With(f, x, v) == [y \in DOMAIN f \cup {x} |-> IF y = x THEN v ELSE f[y]]
InFlight == Len(task) + Len(apiTask)
(* The numbers of a finite set in their order, as a std::map is walked.     *)
inOrder(S) == CHOOSE q \in [1..Cardinality(S) -> S] :
                 \A i, j \in DOMAIN q : i < j => q[i] < q[j]

Init ==
    /\ mRequestQueue = [c \in Client |-> <<>>]
    /\ mForwardMap = [c \in Client |-> Empty]
    /\ mBackwardMap = Empty /\ mExtMap = Empty
    /\ mLocationAPI = Client /\ mClientData = Client
    /\ failedAdds = [c \in Client |-> {}]
    /\ mGeofences = Empty /\ mGeofenceIds = Empty /\ engine = Empty
    /\ task = <<>> /\ apiTask = <<>>
    /\ mSessionIdCounter = 0 /\ calls = 0 /\ restarts = 0 /\ lastHwId = 0
    /\ resumeFailed = FALSE /\ crossed = FALSE

-----------------------------------------------------------------------------
(* The client. A careful client does not touch a fence again before it was  *)
(* answered, nor one whose addition failed; the code lets every client.     *)
Outstanding(c) == {mRequestQueue[c][i].fence : i \in DOMAIN mRequestQueue[c]}
MayCall(c, f) ==
    /\ c \in mLocationAPI /\ InFlight < MaxInFlight /\ calls < MaxCalls
    /\ c \in Careful => f \notin Outstanding(c) \cup failedAdds[c]

send(op, c, f, s, m) ==
    /\ calls' = calls + 1
    /\ mRequestQueue' = [mRequestQueue EXCEPT ![c] =
                             Append(@, [op |-> op, fence |-> f, id |-> s])]
    /\ task' = Append(task, [stage |-> "command", op |-> op, client |-> c,
                             id |-> s, mask |-> m])

(* BiDict: a fence may be added again under an id in use, set overwrites.   *)
set(c, f, s, m) ==
    /\ mForwardMap' = [mForwardMap EXCEPT ![c] = With(@, f, s)]
    /\ mBackwardMap' = With(mBackwardMap, s, f)
    /\ mExtMap' = With(mExtMap, s, m)
\* mutant: only the forward map forgets the fence
rmBySession_ForwardOnly(c, s) ==
    /\ mForwardMap' = [mForwardMap EXCEPT ![c] = Without(@, mBackwardMap[s])]
    /\ UNCHANGED <<mBackwardMap, mExtMap>>
rmBySession(c, s) ==
    /\ mForwardMap' = [mForwardMap EXCEPT ![c] = Without(@, mBackwardMap[s])]
    /\ mBackwardMap' = Without(mBackwardMap, s)
    /\ mExtMap' = Without(mExtMap, s)

locAPIAddGeofences(c, f, m) ==
    LET s == mSessionIdCounter + 1 IN
    /\ MayCall(c, f) /\ s \in Session
    /\ c \in Careful => f \notin DOMAIN mForwardMap[c]
    /\ mSessionIdCounter' = s
    /\ send("add", c, f, s, m)
    /\ set(c, f, s, m)
    /\ UNCHANGED <<mLocationAPI, failedAdds, resumeFailed, adapterVars, apiTask,
                   engineVars>>

locAPIRemoveGeofences(c, f) ==
    /\ MayCall(c, f) /\ f \in DOMAIN mForwardMap[c]
    /\ LET s == mForwardMap[c][f] IN
       /\ send("remove", c, f, s, None)
       /\ rmBySession(c, s)
    /\ UNCHANGED <<mLocationAPI, mSessionIdCounter, failedAdds, resumeFailed,
                   adapterVars, apiTask, engineVars>>

locAPIModifyGeofences(c, f, m) ==
    /\ MayCall(c, f) /\ f \in DOMAIN mForwardMap[c]
    /\ send("modify", c, f, mForwardMap[c][f], m)
    /\ set(c, f, mForwardMap[c][f], m)
    /\ UNCHANGED <<mLocationAPI, mSessionIdCounter, failedAdds, resumeFailed,
                   adapterVars, apiTask, engineVars>>

locAPIPauseGeofences(c, f) ==
    /\ MayCall(c, f) /\ f \in DOMAIN mForwardMap[c]
    /\ send("pause", c, f, mForwardMap[c][f], None)
    /\ UNCHANGED <<dictVars, mLocationAPI, mSessionIdCounter, failedAdds,
                   resumeFailed, adapterVars, apiTask, engineVars>>

(* The mask of a resume goes to the client's filter only.                   *)
locAPIResumeGeofences(c, f, m) ==
    /\ MayCall(c, f) /\ f \in DOMAIN mForwardMap[c]
    /\ send("resume", c, f, mForwardMap[c][f], None)
    /\ set(c, f, mForwardMap[c][f], m)
    /\ UNCHANGED <<mLocationAPI, mSessionIdCounter, failedAdds, resumeFailed,
                   adapterVars, apiTask, engineVars>>

destroy(c) ==
    /\ c \in mLocationAPI /\ InFlight < MaxInFlight
    /\ mRequestQueue' = [mRequestQueue EXCEPT ![c] = <<>>]
    /\ mLocationAPI' = mLocationAPI \ {c}
    /\ task' = Append(task, [stage |-> "removeClient", client |-> c])
    /\ UNCHANGED <<dictVars, mSessionIdCounter, calls, failedAdds, resumeFailed,
                   adapterVars, apiTask, engineVars>>

(* An answer goes to the request at the head of the queue, whatever request *)
(* it answers.                                                              *)
onCollectiveResponseCb(c, op, ok) ==
    LET q == mRequestQueue[c] IN
    /\ mRequestQueue' = [mRequestQueue EXCEPT ![c] = IF q = <<>> THEN q ELSE Tail(q)]
    /\ failedAdds' = IF q # <<>> /\ Head(q).op = "add" /\ ~ok
                     THEN [failedAdds EXCEPT ![c] = @ \cup {Head(q).fence}]
                     ELSE failedAdds

-----------------------------------------------------------------------------
(* The adapter.                                                             *)
reportResponse(c, op, ok) ==
    IF c \in mClientData THEN onCollectiveResponseCb(c, op, ok)
    ELSE UNCHANGED <<mRequestQueue, failedAdds>>

keyIn(r) == <<r.client, r.id>>
keyOf(hw) == <<mGeofences[hw].client, mGeofences[hw].id>>
saveGeofenceItem(c, s, hw, m) ==
    /\ mGeofences' = With(mGeofences, hw,
                          [client |-> c, id |-> s, mask |-> m, paused |-> FALSE])
    /\ mGeofenceIds' = With(mGeofenceIds, <<c, s>>, hw)
\* mutant: the fence stays in the other map
removeGeofenceItem_IdOnly(hw) ==
    /\ mGeofenceIds' = IF hw \in DOMAIN mGeofences
                       THEN Without(mGeofenceIds, keyOf(hw)) ELSE mGeofenceIds
    /\ UNCHANGED mGeofences
removeGeofenceItem(hw) ==
    IF hw \in DOMAIN mGeofences /\ keyOf(hw) \in DOMAIN mGeofenceIds
    THEN /\ mGeofenceIds' = Without(mGeofenceIds, keyOf(hw))
         /\ mGeofences' = Without(mGeofences, hw)
    ELSE UNCHANGED <<mGeofences, mGeofenceIds>>
changeItem(hw, field, value) ==
    /\ mGeofences' = IF hw \in DOMAIN mGeofences
                     THEN [mGeofences EXCEPT ![hw] = [@ EXCEPT ![field] = value]]
                     ELSE mGeofences
    /\ UNCHANGED mGeofenceIds

Message(stage) == task # <<>> /\ Head(task).stage = stage
toEngine(op, c, s, hw, m, p) ==
    [stage |-> "engine", op |-> op, client |-> c, id |-> s, hw |-> hw,
     mask |-> m, paused |-> p]

(* MsgAddGeofences and its like: each item takes a turn of the other task.  *)
Command ==
    /\ Message("command")
    /\ task' = Tail(task)
    /\ apiTask' = Append(apiTask, [Head(task) EXCEPT !.stage = "queued"])
    /\ UNCHANGED <<clientVars, replyVars, adapterVars, engineVars>>

addItem ==
    /\ Message("item") /\ Head(task).op = "add"
    /\ task' = Tail(task)
    /\ LET r == Head(task) IN
       apiTask' = Append(apiTask, toEngine("add", r.client, r.id, 0, r.mask, FALSE))
    /\ UNCHANGED <<clientVars, replyVars, adapterVars, engineVars>>

knownItem ==
    /\ Message("item") /\ Head(task).op # "add"
    /\ keyIn(Head(task)) \in DOMAIN mGeofenceIds
    /\ task' = Tail(task)
    /\ LET r == Head(task) IN
       apiTask' = Append(apiTask, toEngine(r.op, r.client, r.id,
                                           mGeofenceIds[keyIn(r)], r.mask, FALSE))
    /\ UNCHANGED <<clientVars, replyVars, adapterVars, engineVars>>

\* mutant: the request is not answered
unknownItem_Silent ==
    /\ Message("item") /\ Head(task).op # "add"
    /\ keyIn(Head(task)) \notin DOMAIN mGeofenceIds
    /\ task' = Tail(task)
    /\ UNCHANGED <<clientVars, replyVars, adapterVars, apiTask, engineVars>>
(* LOCATION_ERROR_ID_UNKNOWN is answered at once.                           *)
unknownItem ==
    /\ Message("item") /\ Head(task).op # "add"
    /\ keyIn(Head(task)) \notin DOMAIN mGeofenceIds
    /\ task' = Tail(task)
    /\ reportResponse(Head(task).client, Head(task).op, FALSE)
    /\ UNCHANGED <<clientVars, resumeFailed, adapterVars, apiTask, engineVars>>

(* What the engine's success changes here.                                  *)
applied(r) ==
    \/ r.op \in {"add", "restore"} /\ saveGeofenceItem(r.client, r.id, r.hw, r.mask)
    \/ r.op = "remove" /\ removeGeofenceItem(r.hw)
    \/ r.op = "pause" /\ changeItem(r.hw, "paused", TRUE)
    \/ r.op = "resume" /\ changeItem(r.hw, "paused", FALSE)
    \/ r.op = "modify" /\ changeItem(r.hw, "mask", r.mask)
    \/ r.op = "drop" /\ mGeofences' = Without(mGeofences, r.hw) /\ UNCHANGED mGeofenceIds
    \/ r.op = "repause" /\ UNCHANGED <<mGeofences, mGeofenceIds>>

isRequest(r) == r.op \in {"add", "remove", "pause", "resume", "modify"}

AnswerOk ==
    /\ Message("answer") /\ Head(task).ok
    /\ task' = Tail(task)
    /\ LET r == Head(task) IN
       /\ applied(r)
       /\ apiTask' = IF r.op = "restore" /\ r.paused
                     THEN Append(apiTask, toEngine("repause", r.client, r.id, r.hw, None, FALSE))
                     ELSE apiTask
       /\ IF isRequest(r) THEN reportResponse(r.client, r.op, TRUE)
          ELSE UNCHANGED <<mRequestQueue, failedAdds>>
    /\ UNCHANGED <<clientVars, resumeFailed, mClientData, engineVars>>

\* mutant: as for a resume, a modify that fails is not answered
(* A resume that fails is not answered; a modify that fails is answered     *)
(* with the success of its lookup.                                          *)
AnswerFailed ==
    /\ Message("answer") /\ ~Head(task).ok
    /\ task' = Tail(task)
    /\ LET r == Head(task) IN
       /\ IF isRequest(r) /\ r.op # "resume"
          THEN reportResponse(r.client, r.op, r.op = "modify")
          ELSE UNCHANGED <<mRequestQueue, failedAdds>>
       /\ resumeFailed' = (resumeFailed \/ r.op = "resume")
    /\ UNCHANGED <<clientVars, adapterVars, apiTask, engineVars>>

(* MsgRemoveClient: stopClientSessions, then eraseClient.                   *)
RemoveClient ==
    /\ Message("removeClient")
    /\ LET c == Head(task).client
           own == {s \in Session : <<c, s>> \in DOMAIN mGeofenceIds}
           sorted == inOrder(own) IN
       /\ mGeofenceIds' = Restrict(mGeofenceIds,
                                    DOMAIN mGeofenceIds \ {<<c, s>> : s \in own})
       /\ apiTask' = apiTask \o
              [i \in 1..Len(sorted) |->
                  toEngine("drop", c, sorted[i], mGeofenceIds[<<c, sorted[i]>>],
                           None, FALSE)]
       /\ mClientData' = mClientData \ {c}
    /\ task' = Tail(task)
    /\ UNCHANGED <<clientVars, replyVars, mGeofences, engineVars>>

(* MsgSSREvent: restartGeofences.                                           *)
RestartGeofences ==
    /\ Message("ssr")
    /\ task' = Tail(task)
    /\ LET old == inOrder(DOMAIN mGeofences) IN
       apiTask' = apiTask \o
           [i \in 1..Len(old) |->
               LET o == mGeofences[old[i]] IN
               toEngine("restore", o.client, o.id, 0, o.mask, o.paused)]
    /\ mGeofences' = Empty
    /\ mGeofenceIds' = IF mGeofences = Empty THEN mGeofenceIds ELSE Empty
    /\ UNCHANGED <<clientVars, replyVars, mClientData, engineVars>>

(* geofenceBreach, and beforeGeofenceBreachCb of the owner, which filters by *)
(* the breach types that were asked for last.                               *)
breachTarget(b) ==
    IF /\ b.hw \in DOMAIN mGeofences
       /\ mGeofences[b.hw].client \in mClientData \cap mLocationAPI
       /\ mGeofences[b.hw].id \in DOMAIN mBackwardMap
       /\ mExtMap[mGeofences[b.hw].id] = b.mask
    THEN <<mGeofences[b.hw].client, mBackwardMap[mGeofences[b.hw].id]>>
    ELSE None
Breach ==
    /\ Message("breach")
    /\ task' = Tail(task)
    /\ UNCHANGED <<clientVars, replyVars, adapterVars, apiTask, engineVars>>

-----------------------------------------------------------------------------
(* The task of LocApiBase and the modem. Between the death of the modem and *)
(* LocSsrMsg every request fails. The modem numbers fences from 1 after each *)
(* restart and gives no hwId twice in between.                              *)
ApiMessage(stage) == apiTask # <<>> /\ Head(apiTask).stage = stage
Down == \E i \in DOMAIN apiTask : apiTask[i].stage = "ssr"

AddToCallQueue ==
    /\ ApiMessage("queued")
    /\ apiTask' = Tail(apiTask)
    /\ task' = Append(task, [Head(apiTask) EXCEPT !.stage = "item"])
    /\ UNCHANGED <<clientVars, replyVars, adapterVars, engineVars>>

returnToSender(r, hw, ok) ==
    /\ apiTask' = Tail(apiTask)
    /\ task' = Append(task, [stage |-> "answer", op |-> r.op, client |-> r.client,
                             id |-> r.id, hw |-> hw, mask |-> r.mask,
                             paused |-> r.paused, ok |-> ok])

EngineFails ==
    /\ ApiMessage("engine")
    /\ returnToSender(Head(apiTask), Head(apiTask).hw, FALSE)
    /\ UNCHANGED <<clientVars, replyVars, adapterVars, engineVars>>

EngineAdds ==
    /\ ApiMessage("engine") /\ ~Down /\ Head(apiTask).op \in {"add", "restore"}
    /\ lastHwId' = lastHwId + 1
    /\ returnToSender(Head(apiTask), lastHwId', TRUE)
    /\ engine' = With(engine, lastHwId', [id |-> Head(apiTask).id,
                                          mask |-> Head(apiTask).mask, paused |-> FALSE])
    /\ UNCHANGED <<clientVars, replyVars, adapterVars, restarts, crossed>>

EngineChanges ==
    /\ ApiMessage("engine") /\ ~Down /\ Head(apiTask).hw \in DOMAIN engine
    /\ LET r == Head(apiTask) IN
       /\ returnToSender(r, r.hw, TRUE)
       /\ \/ r.op \in {"remove", "drop"} /\ engine' = Without(engine, r.hw)
          \/ r.op \in {"pause", "repause"}
             /\ engine' = [engine EXCEPT ![r.hw] = [@ EXCEPT !.paused = TRUE]]
          \/ r.op = "resume"
             /\ engine' = [engine EXCEPT ![r.hw] = [@ EXCEPT !.paused = FALSE]]
          \/ r.op = "modify"
             /\ engine' = [engine EXCEPT ![r.hw] = [@ EXCEPT !.mask = r.mask]]
    /\ UNCHANGED <<clientVars, replyVars, adapterVars, lastHwId, restarts, crossed>>

ModemRestarts ==
    /\ restarts < MaxRestarts /\ InFlight <= MaxCrossed
    /\ crossed' = (crossed \/ InFlight > 0)
    /\ restarts' = restarts + 1 /\ engine' = Empty /\ lastHwId' = 0
    /\ apiTask' = Append(apiTask, [stage |-> "ssr"])
    /\ UNCHANGED <<clientVars, replyVars, adapterVars, task>>

LocSsr ==
    /\ ApiMessage("ssr")
    /\ apiTask' = Tail(apiTask)
    /\ task' = Append(task, [stage |-> "ssr"])
    /\ UNCHANGED <<clientVars, replyVars, adapterVars, engineVars>>

EngineReportsBreach(hw) ==
    /\ hw \in DOMAIN engine /\ ~engine[hw].paused /\ InFlight < MaxInFlight
    /\ task' = Append(task, [stage |-> "breach", hw |-> hw, id |-> engine[hw].id,
                             mask |-> engine[hw].mask])
    /\ UNCHANGED <<clientVars, replyVars, adapterVars, apiTask, engineVars>>

-----------------------------------------------------------------------------
Calls ==
    \E c \in Client :
        \/ destroy(c)
        \/ \E f \in Fence[c] :
            \/ locAPIRemoveGeofences(c, f)
            \/ locAPIPauseGeofences(c, f)
            \/ \E m \in Mask : \/ locAPIAddGeofences(c, f, m)
                               \/ locAPIModifyGeofences(c, f, m)
                               \/ locAPIResumeGeofences(c, f, m)
AdapterRuns ==
    \/ Command \/ addItem \/ knownItem \/ unknownItem \/ AnswerOk
    \/ AnswerFailed \/ RemoveClient \/ RestartGeofences \/ Breach
ApiRuns ==
    AddToCallQueue \/ EngineFails \/ EngineAdds \/ EngineChanges \/ LocSsr
ModemActs == ModemRestarts \/ \E hw \in HwId : EngineReportsBreach(hw)
Next == Calls \/ AdapterRuns \/ ApiRuns \/ ModemActs
Spec == Init /\ [][Next]_vars /\ WF_vars(AdapterRuns) /\ WF_vars(ApiRuns)

-----------------------------------------------------------------------------
(* With nothing under way every fence the modem watches is known to the     *)
(* adapter under its hwId, with its options; and for the clients it still   *)
(* has, the converse, with its two maps inverse to each other. (Whether a   *)
(* fence is paused is lost by the first restart: saveGeofenceItem.) Excepted*)
(* is what follows a restart that met messages under way: an answer of the  *)
(* old modem behind it fills the maps that MsgSSREvent emptied.             *)
EngineFollows ==
    ~crossed /\ task = <<>> /\ apiTask = <<>> =>
        /\ \A hw \in DOMAIN engine :
            /\ hw \in DOMAIN mGeofences
            /\ engine[hw].id = mGeofences[hw].id
            /\ engine[hw].mask = mGeofences[hw].mask
            /\ restarts = 0 => engine[hw].paused = mGeofences[hw].paused
        /\ \A hw \in DOMAIN mGeofences :
            mGeofences[hw].client \in mClientData =>
                /\ hw \in DOMAIN engine
                /\ keyOf(hw) \in DOMAIN mGeofenceIds /\ mGeofenceIds[keyOf(hw)] = hw
        /\ \A k \in DOMAIN mGeofenceIds :
            mGeofenceIds[k] \in DOMAIN mGeofences /\ keyOf(mGeofenceIds[k]) = k

(* A breach is reported to the framework as the fence the modem watched, and*)
(* to a careful client only as long as it has not removed that fence.       *)
BreachIsOwn ==
    Message("breach") /\ breachTarget(Head(task)) # None =>
        LET c == breachTarget(Head(task))[1]
            f == breachTarget(Head(task))[2] IN
        /\ mGeofences[Head(task).hw].id = Head(task).id
        /\ c \in Careful => f \in DOMAIN mForwardMap[c]
                            /\ mForwardMap[c][f] = Head(task).id

(* The queue of a careful client gives each answer to the request it        *)
(* answers: nothing else ties the two together. Until a resume fails, which *)
(* leaves its request in the queue, or a restart loses a fence, which is    *)
(* then answered ahead of its turn.                                         *)
AnswersMatch ==
    [][ \A c \in Careful :
          /\ mRequestQueue[c] # <<>> /\ mRequestQueue'[c] = Tail(mRequestQueue[c])
          /\ c \in mLocationAPI' /\ restarts = 0 /\ ~resumeFailed
          => /\ Head(mRequestQueue[c]).op = Head(task).op
             /\ Head(mRequestQueue[c]).id = Head(task).id ]_vars

(* Every request of a careful client is answered, or a resume failed.       *)
RequestsAnswered ==
    \A c \in Careful : \A f \in Fence[c] :
        f \in Outstanding(c) ~> f \notin Outstanding(c) \/ resumeFailed

(* Each answer reaches its request, and each request has one.               *)
AnswersReach == AnswersMatch /\ RequestsAnswered
=============================================================================
