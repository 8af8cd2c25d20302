----------------------------- MODULE OsObserver -----------------------------
(***************************************************************************)
(* core/SystemStatusOsObserver.cpp over utils/LocUnorderedSetMap.h: which  *)
(* client wants which data items, kept in two maps inverse to each other,  *)
(* what the framework is subscribed to, and the cache from which clients   *)
(* are told.  All of it runs on the message task, one request at a time,   *)
(* so an action is the proc() of a request.  A map entry is never empty:   *)
(* an absent one is the empty set here.                                    *)
(***************************************************************************)
EXTENDS FiniteSets

CONSTANTS
  Observer,                \* the clients, IDataItemObserver objects
  DataItem                 \* ids of data items

VARIABLES
  mSubscriptionObj,        \* the framework has been set
  mClientToDataItems,
  mDataItemToClients,
  mDataItemCache,          \* the items something is known of
  framework,               \* items the framework is subscribed to
  knows,                   \* [client, item] with the last report delivered
  requested,               \* history: items only ever requested, not subscribed
  updated                  \* history: [client, item] an update left one-sided

vars == <<mSubscriptionObj, mClientToDataItems, mDataItemToClients, mDataItemCache,
          framework, knows, requested, updated>>

Init ==
  /\ mSubscriptionObj = FALSE
  /\ mClientToDataItems = [c \in Observer |-> {}]
  /\ mDataItemToClients = [i \in DataItem |-> {}]
  /\ mDataItemCache = {} /\ framework = {} /\ knows = {}
  /\ requested = {} /\ updated = {}
------------------------------------------------------------------------------
(* LocUnorderedSetMap.                                                     *)

getKeys(m) == {k \in DOMAIN m : m[k] # {}}
add(m, keys, vals) == [k \in DOMAIN m |-> IF k \in keys THEN m[k] \cup vals ELSE m[k]]
newKeys(m, keys) == keys \ getKeys(m)
trimOrRemove(m, keys, vals) ==
  [k \in DOMAIN m |-> IF k \in keys THEN m[k] \ vals ELSE m[k]]
goneKeys_Trimmed(m, keys, vals) == {k \in keys : m[k] \cap vals # {}}
goneKeys(m, keys, vals) == {k \in keys : m[k] # {} /\ m[k] \subseteq vals}
goneVals(m, keys, vals) == UNION {m[k] \cap vals : k \in keys}
------------------------------------------------------------------------------
\* a client is told what is known of the items
sendCachedDataItems(c, items) == knows' = knows \cup ({c} \X (items \cap mDataItemCache))

\* the framework is handed what became new and what became unused
forward(subscribed, unsubscribed) ==
  framework' = IF mSubscriptionObj THEN (framework \cup subscribed) \ unsubscribed
               ELSE framework

setSubscriptionObj ==
  /\ mSubscriptionObj' = TRUE
  /\ framework' = framework \cup getKeys(mDataItemToClients)
  /\ requested' = {}
  /\ UNCHANGED <<mClientToDataItems, mDataItemToClients, mDataItemCache, knows, updated>>

\* subscribe() and requestData(): the latter does not subscribe new items
subscribe(c, items, toRequestData) ==
  LET new == newKeys(mDataItemToClients, items)
  IN /\ mDataItemToClients' = add(mDataItemToClients, items, {c})
     /\ mClientToDataItems' = add(mClientToDataItems, {c}, items)
     /\ sendCachedDataItems(c, items)
     /\ forward(IF toRequestData THEN {} ELSE new, {})
     /\ requested' = IF mSubscriptionObj /\ toRequestData THEN requested \cup new
                     ELSE requested
     /\ updated' = updated \ ({c} \X items)
     /\ UNCHANGED <<mSubscriptionObj, mDataItemCache>>

\* LocUnorderedSetMap::update() returns what the old set and the new one have
\* in common, or part of it (removeAndReturnInterset() erases under its own
\* iterator), and leaves the rest of the new set: the client is taken out of
\* the items it keeps and stays in those it gave up
updateSubscription(c, items) ==
  \E common \in SUBSET (mClientToDataItems[c] \cap items) :
    LET rest == items \ common
        trimmed == trimOrRemove(mDataItemToClients, common, {c})
    IN /\ common = {} => mClientToDataItems[c] \cap items = {}
       /\ mClientToDataItems' = [mClientToDataItems EXCEPT ![c] = items]
       /\ mDataItemToClients' = add(trimmed, rest, {c})
       /\ sendCachedDataItems(c, rest)
       /\ forward(newKeys(trimmed, rest), goneKeys(mDataItemToClients, common, {c}))
       /\ requested' = requested \ goneKeys(mDataItemToClients, common, {c})
       /\ updated' = (updated \cup ({c} \X mClientToDataItems[c])) \ ({c} \X rest)
       /\ UNCHANGED <<mSubscriptionObj, mDataItemCache>>

\* the items the client does not have are left alone
unsubscribe(c, items) ==
  LET unused == goneVals(mClientToDataItems, {c}, items)
  IN /\ mClientToDataItems' = trimOrRemove(mClientToDataItems, {c}, items)
     /\ mDataItemToClients' = trimOrRemove(mDataItemToClients, unused, {c})
     /\ forward({}, goneKeys(mDataItemToClients, unused, {c}))
     /\ requested' = requested \ goneKeys(mDataItemToClients, unused, {c})
     /\ updated' = updated \ ({c} \X unused)
     /\ UNCHANGED <<mSubscriptionObj, mDataItemCache, knows>>

unsubscribeAll(c) == mClientToDataItems[c] # {} /\ unsubscribe(c, mClientToDataItems[c])

\* the framework reports items, of which some changed; those go to the clients
\* that have them in both maps
notify(changed) ==
  LET has(c, i) == /\ i \in mClientToDataItems[c]
                   /\ \E j \in changed : c \in mDataItemToClients[j]
  IN /\ mDataItemCache' = mDataItemCache \cup changed
     /\ knows' = {k \in Observer \X DataItem :
                   IF k[2] \in changed THEN has(k[1], k[2]) ELSE k \in knows}
     /\ UNCHANGED <<mSubscriptionObj, mClientToDataItems, mDataItemToClients, framework,
                    requested, updated>>
------------------------------------------------------------------------------
Some == SUBSET DataItem \ {{}}

Next ==
  \/ setSubscriptionObj
  \/ \E c \in Observer, items \in Some :
       \/ \E toRequestData \in BOOLEAN : subscribe(c, items, toRequestData)
       \/ updateSubscription(c, items)
       \/ unsubscribe(c, items)
  \/ \E c \in Observer : unsubscribeAll(c)
  \/ \E changed \in Some : notify(changed)

Spec == Init /\ [][Next]_vars
------------------------------------------------------------------------------
(* Properties. *)

\* The two maps are inverse: what a client asked for is what it is told of.
\* Excepted is a pair that updateSubscription() left in one map, until a later
\* request of the client puts it into both or takes it out of both.
MapsAreInverse == \A c \in Observer, i \in DataItem :
  <<c, i>> \notin updated => (i \in mClientToDataItems[c] <=> c \in mDataItemToClients[i])

\* A client knows the last report of each item it has, whether it came before
\* or after the client asked; the pairs left by an update are excepted again.
ClientsKnow == \A c \in Observer, i \in DataItem :
  <<c, i>> \notin updated /\ i \in mClientToDataItems[c] \cap mDataItemCache =>
    <<c, i>> \in knows

\* The framework is subscribed to just the items that clients have by their own
\* lists, however clients come, go and overlap, and whenever the framework is set.
\* Excepted are an item first asked for with requestData(), which a subscribe() by
\* another client finds in the map already, and an item with a pair in updated.
FrameworkFollows ==
  mSubscriptionObj => \A i \in DataItem \ requested :
    (\A c \in Observer : <<c, i>> \notin updated) =>
      (i \in framework <=> \E c \in Observer : i \in mClientToDataItems[c])

SubscriptionsHold == MapsAreInverse /\ ClientsKnow /\ FrameworkFollows

\* An update leaves a client with just the items of its new list
\* (IDataItemSubscription.h:72-76), so that the framework stays subscribed to one
\* that is in the old list and in the new.
KeptStaysSubscribed ==
  mSubscriptionObj => \A c \in Observer : mClientToDataItems[c] \subseteq framework \cup requested
=============================================================================
