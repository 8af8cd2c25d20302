------------------------------- MODULE Networks -------------------------------
(***************************************************************************)
(* The networks of the device: the framework reports each as it comes and  *)
(* goes (AGnssRil), SystemStatus collates the reports into one item, and   *)
(* NativeAgpsHandler opens the data connection of the modem by it.  A      *)
(* report is a message of the task; a death of the framework disconnects,  *)
(* from another thread and without the lock, what the last entries of the  *)
(* history name.                                                           *)
(***************************************************************************)
EXTENDS Integers, FiniteSets, Sequences, SequencesExt

CONSTANTS
  Handle, Apn,          \* networks, and access points of mobile ones
  MAX_NETWORK_HANDLES,  \* 10 in the code
  MaxItem,              \* SystemStatusItemBase::maxItem, 5 in the code
  MaxEvents,            \* bound: reports of the framework
  None

Type == {"mobile", "wifi"}

VARIABLES
  legacy,         \* it speaks V1_0 of IAGnssRil, where networks have types and nothing else
  connected,      \* of the framework: networks up, with their types
  queue,          \* reports on their way: [handle, type, conn, apn]
  mNetworkInfo,   \* history: reports with [table, allTypes]
  walk,           \* resetNetworkInfo(): the entry it reads next, or None
  mConnected, mApn,     \* of NativeAgpsHandler
  events,
  \* history: the APN of mobile reported last; what may leave the item wrong: no room in the
  \* table, a first report of a network that went, one of several of a type that went, a
  \* network that changed its type, one that was up before this program, one that a death of
  \* the framework did not reach
  apn, full, phantom, siblings, changed, unreported, lost

vars == <<legacy, connected, queue, mNetworkInfo, walk, mConnected, mApn, events, apn, full,
          phantom, siblings, changed, unreported, lost>>
------------------------------------------------------------------------------
(* The framework. *)

up == {h \in Handle : connected[h] # None}
Init ==
  /\ legacy \in BOOLEAN
  /\ connected \in {f \in [Handle -> Type \cup {None}] :
                     /\ \A h \in Handle : f[h] # "wifi"
                     /\ legacy => Cardinality({h \in Handle : f[h] # None}) < 2}
  /\ queue = <<>> /\ mNetworkInfo = <<>> /\ walk = None
  /\ mConnected = FALSE /\ mApn = None /\ events = 0 /\ apn = None
  /\ full = FALSE /\ phantom = FALSE /\ siblings = FALSE /\ changed = FALSE
  /\ unreported = up /\ lost = {}

message(handle, type, conn, point) ==
  [handle |-> handle, type |-> type, conn |-> conn, apn |-> point]
report(handle, type, conn, point) ==
  /\ queue' = Append(queue, message(handle, type, conn, point))
  /\ apn' = IF type = "mobile" THEN point ELSE apn
seen(h, type, conn) ==
  /\ walk = None /\ events < MaxEvents /\ events' = events + 1
  /\ conn \/ connected[h] = type
  /\ connected' = [connected EXCEPT ![h] = IF conn THEN type ELSE None]
  /\ unreported' = unreported \ {h}
  /\ UNCHANGED <<legacy, mNetworkInfo, walk, mConnected, mApn, full, phantom, siblings, changed,
                 lost>>
\* V1_0 speaks of one network of a type; the handle is 0 and the access point is empty.
shared == 0
handleOf(h) == IF legacy THEN shared ELSE h
updateNetworkState(h, type, conn) ==
  /\ legacy /\ \A other \in Handle \ {h} : connected[other] # type
  /\ connected[h] \in {None, type}
  /\ seen(h, type, conn) /\ report(handleOf(h), type, conn, None)
pointsOf(type) == IF type = "mobile" THEN Apn ELSE {None}
updateNetworkState_2_0(h, type, conn) ==
  /\ ~legacy
  /\ seen(h, type, conn) /\ \E point \in pointsOf(type) : report(handleOf(h), type, conn, point)

\* The framework dies, and with it what it knew.  It takes longer to come back than the
\* walk through the history does.
serviceDied ==
  /\ walk = None /\ events < MaxEvents
  /\ walk' = 1 /\ events' = events + 1
  /\ connected' = [h \in Handle |-> None]
  /\ lost' = lost \cup {<<handleOf(h), connected[h]>> : h \in up \ unreported}
  /\ unreported' = {}
  /\ UNCHANGED <<legacy, queue, mNetworkInfo, mConnected, mApn, apn, full, phantom, siblings,
                 changed>>
resetNetworkInfo ==
  /\ walk # None
  /\ IF walk <= Len(mNetworkInfo)
     THEN LET e == mNetworkInfo[walk]
          IN /\ queue' = Append(queue, message(e.handle, e.type, FALSE, e.apn))
             /\ walk' = walk + 1
             /\ lost' = lost \ {<<e.handle, e.type>>}
     ELSE walk' = None /\ UNCHANGED <<queue, lost>>
  /\ UNCHANGED <<legacy, connected, mNetworkInfo, mConnected, mApn, events, apn, full, phantom,
                 siblings, changed, unreported>>
------------------------------------------------------------------------------
(* SystemStatus and its observer. *)

\* A network that came is added, if there is room and it is not there; one that went
\* gives its place to the last.
placeOf(table, m) == {i \in 1 .. Len(table) : table[i].handle = m.handle}
added(table, m) ==
  IF placeOf(table, m) = {} /\ Len(table) < MAX_NETWORK_HANDLES
  THEN Append(table, [handle |-> m.handle, type |-> m.type]) ELSE table
removed(table, m) ==
  LET at == {i \in placeOf(table, m) : table[i].type = m.type}
  IN IF at = {} THEN table
     ELSE [i \in 1 .. Len(table) - 1 |-> IF i \in at THEN Last(table) ELSE table[i]]
others(table, m) == {i \in 1 .. Len(table) : table[i].type = m.type /\ table[i].handle # m.handle}

collate(m, cur) ==
  [handle |-> m.handle, type |-> m.type, conn |-> m.conn,
   apn |-> IF m.type # "mobile" /\ cur.apn # None THEN cur.apn ELSE m.apn,
   table |-> IF m.conn THEN added(cur.table, m) ELSE removed(cur.table, m),
   allTypes |-> IF m.conn THEN cur.allTypes \cup {m.type}
                ELSE IF others(cur.table, m) = {} THEN cur.allTypes \ {m.type} ELSE {m.type}]
first(m) ==
  [handle |-> m.handle, type |-> m.type, conn |-> m.conn, apn |-> m.apn,
   table |-> <<[handle |-> m.handle, type |-> m.type]>>, allTypes |-> {m.type}]
equals(a, b) == a.conn = b.conn /\ a.table = b.table /\ a.apn = b.apn

\* NativeAgpsHandler is told what has changed.
notify(item) == mConnected' = ("mobile" \in item.allTypes) /\ mApn' = item.apn
HandleNotify ==
  LET m == Head(queue)
      cur == Last(mNetworkInfo)
      item == IF mNetworkInfo = <<>> THEN first(m) ELSE collate(m, cur)
  IN /\ queue # <<>> /\ queue' = Tail(queue)
     /\ IF mNetworkInfo # <<>> /\ equals(cur, item)
        THEN UNCHANGED <<mNetworkInfo, mConnected, mApn>>
        ELSE LET r == Append(mNetworkInfo, item)
             IN mNetworkInfo' = (IF Len(r) > MaxItem THEN Tail(r) ELSE r) /\ notify(item)
     /\ full' = (full \/ (m.conn /\ placeOf(item.table, m) = {}))
     /\ phantom' = (phantom \/ (mNetworkInfo = <<>> /\ ~m.conn))
     /\ siblings' = (siblings \/ (~m.conn /\ mNetworkInfo # <<>> /\ others(cur.table, m) # {}))
     /\ changed' = (changed \/ \E i \in placeOf(item.table, m) : item.table[i].type # m.type)
     /\ UNCHANGED <<legacy, connected, walk, events, apn, unreported, lost>>

Next ==
  \/ \E h \in Handle, type \in Type, conn \in BOOLEAN :
       updateNetworkState(h, type, conn) \/ updateNetworkState_2_0(h, type, conn)
  \/ serviceDied
  \/ resetNetworkInfo
  \/ HandleNotify
Spec == Init /\ [][Next]_vars
------------------------------------------------------------------------------
\* The modem asks for a data connection.
processATLRequestRelease ==
  IF mConnected THEN [open |-> TRUE, apn |-> mApn] ELSE [open |-> FALSE, apn |-> None]

AtRest == queue = <<>> /\ walk = None
\* Once all that is up has been reported, the item has the networks and their types; the
\* modem gets a data connection when there is a mobile one, by its access point.  By V1_0
\* that is so as long as there is one network, for the second has the same handle.
NetworksFollow ==
  AtRest /\ mNetworkInfo # <<>> /\ ~full /\ ~phantom /\ ~changed /\ unreported = {} /\ lost = {} =>
    LET item == Last(mNetworkInfo)
    IN /\ {[handle |-> handleOf(h), type |-> connected[h]] : h \in up} = ToSet(item.table)
       /\ ~siblings => /\ item.allTypes = {connected[h] : h \in up}
                       /\ processATLRequestRelease.open <=> \E h \in up : connected[h] = "mobile"
       /\ processATLRequestRelease.open => processATLRequestRelease.apn = apn
==============================================================================
