---------------------------- MODULE ServicesProofs ----------------------------
(***************************************************************************)
(* What holds of the data items, of the requests of the network, of the    *)
(* display and of the XTRA daemon, for any constants.  A step of           *)
(* Services_MC is one of the part that was chosen or leaves that part as   *)
(* it is, so that an invariant of the part, kept by its steps, is one of   *)
(* the composition.                                                        *)
(***************************************************************************)
EXTENDS Services_MC, SequenceTheorems, WellFoundedInduction, TLAPS
------------------------------------------------------------------------------
(* The data items.  The framework is handed the keys of one map, so that it *)
(* follows what clients have as long as the maps are inverse.  The          *)
(* invariant adds that what was only requested is an item of some client,   *)
(* and that nothing is subscribed or requested before the framework is set. *)

ItemTypes ==
  /\ mSubscriptionObj \in BOOLEAN
  /\ mClientToDataItems \in [Observer -> SUBSET DataItem]
  /\ mDataItemToClients \in [DataItem -> SUBSET Observer]
  /\ mDataItemCache \subseteq DataItem /\ framework \subseteq DataItem
  /\ knows \subseteq Observer \X DataItem /\ updated \subseteq Observer \X DataItem
  /\ requested \subseteq DataItem

FrameworkHasKeys ==
  mSubscriptionObj => framework = S!getKeys(mDataItemToClients) \ requested
RequestedAreWanted == requested \subseteq S!getKeys(mDataItemToClients)
NothingBefore == mSubscriptionObj = FALSE => framework = {} /\ requested = {}

ItemsInv ==
  /\ ItemTypes /\ S!MapsAreInverse /\ S!ClientsKnow /\ FrameworkHasKeys
  /\ RequestedAreWanted /\ NothingBefore
------------------------------------------------------------------------------
(* LocUnorderedSetMap: the keys of a map.                                  *)

\* Adding a value under some keys makes them keys (add()).
LEMMA KeysOfAdd ==
  ASSUME NEW m \in [DataItem -> SUBSET Observer], NEW keys \in SUBSET DataItem,
         NEW c \in Observer
  PROVE  /\ S!add(m, keys, {c}) \in [DataItem -> SUBSET Observer]
         /\ S!getKeys(S!add(m, keys, {c})) = S!getKeys(m) \cup keys
  BY Zenon DEF S!add, S!getKeys

\* Trimming removes just the keys it reports as gone (trimOrRemove()).
LEMMA KeysOfTrim ==
  ASSUME NEW m \in [DataItem -> SUBSET Observer], NEW keys \in SUBSET DataItem,
         NEW c \in Observer
  PROVE  /\ S!trimOrRemove(m, keys, {c}) \in [DataItem -> SUBSET Observer]
         /\ S!getKeys(S!trimOrRemove(m, keys, {c})) = S!getKeys(m) \ S!goneKeys(m, keys, {c})
         /\ S!goneKeys(m, keys, {c}) \subseteq keys
  <1>1. S!trimOrRemove(m, keys, {c}) \in [DataItem -> SUBSET Observer]  BY DEF S!trimOrRemove
  <1>2. S!getKeys(S!trimOrRemove(m, keys, {c})) = S!getKeys(m) \ S!goneKeys(m, keys, {c})
    <2>1. \A k \in DataItem : S!trimOrRemove(m, keys, {c})[k] =
                         IF k \in keys THEN m[k] \ {c} ELSE m[k]
      BY DEF S!trimOrRemove
    <2>2. DOMAIN S!trimOrRemove(m, keys, {c}) = DataItem  BY DEF S!trimOrRemove
    <2>3. \A k \in DataItem : (m[k] \ {c} # {}) <=> ~(m[k] \subseteq {c})  OBVIOUS
    <2> QED  BY Zenon, <2>1, <2>2, <2>3 DEF S!getKeys, S!goneKeys
  <1>3. S!goneKeys(m, keys, {c}) \subseteq keys  BY DEF S!goneKeys
  <1> QED  BY Zenon, <1>1, <1>2, <1>3

\* The values a client loses are those it has (trimSet()).
LEMMA LostValues ==
  ASSUME NEW m, NEW c, NEW vals
  PROVE  S!goneVals(m, {c}, vals) = m[c] \cap vals
  BY DEF S!goneVals

------------------------------------------------------------------------------
(* One lemma per request.                                                  *)

LEMMA ItemsInit == S!Init => ItemsInv
  BY Zenon DEF S!Init, ItemsInv, ItemTypes, S!MapsAreInverse, S!ClientsKnow, FrameworkHasKeys,
         RequestedAreWanted, NothingBefore, S!getKeys

LEMMA ItemsSet == ItemsInv /\ S!setSubscriptionObj => ItemsInv'
  <1> SUFFICES ASSUME ItemsInv, S!setSubscriptionObj  PROVE ItemsInv'
    OBVIOUS
  <1> USE DEF S!setSubscriptionObj
  <1>1. ItemTypes'  BY DEF ItemsInv, ItemTypes, S!getKeys
  <1>2. S!MapsAreInverse' /\ S!ClientsKnow'  BY DEF ItemsInv, S!MapsAreInverse, S!ClientsKnow
  <1>3. S!getKeys(mDataItemToClients)' = S!getKeys(mDataItemToClients)  BY DEF S!getKeys
  <1>4. framework \subseteq S!getKeys(mDataItemToClients)
    <2>1. CASE mSubscriptionObj = TRUE  BY <2>1 DEF ItemsInv, FrameworkHasKeys
    <2>2. CASE mSubscriptionObj = FALSE  BY <2>2 DEF ItemsInv, NothingBefore
    <2> QED  BY Zenon, <2>1, <2>2 DEF ItemsInv, ItemTypes
  <1>5. FrameworkHasKeys' /\ RequestedAreWanted' /\ NothingBefore'
    BY <1>3, <1>4 DEF FrameworkHasKeys, RequestedAreWanted, NothingBefore
  <1> QED  BY <1>1, <1>2, <1>5 DEF ItemsInv

LEMMA ItemsSubscribed ==
  ASSUME NEW c \in Observer, NEW items \in SUBSET DataItem, NEW toRequestData \in BOOLEAN,
         ItemsInv, S!subscribe(c, items, toRequestData)
  PROVE  ItemsInv'
  <1> DEFINE new == S!newKeys(mDataItemToClients, items)
  <1>1. /\ mDataItemToClients' = S!add(mDataItemToClients, items, {c})
        /\ mClientToDataItems' = S!add(mClientToDataItems, {c}, items)
        /\ knows' = knows \cup ({c} \X (items \cap mDataItemCache))
        /\ framework' = IF mSubscriptionObj
                          THEN (framework \cup (IF toRequestData THEN {} ELSE new)) \ {}
                          ELSE framework
        /\ requested' = IF mSubscriptionObj /\ toRequestData THEN requested \cup new
                          ELSE requested
        /\ updated' = updated \ ({c} \X items)
        /\ UNCHANGED <<mSubscriptionObj, mDataItemCache>>
    BY DEF S!subscribe, S!sendCachedDataItems, S!forward
  <1>2. ItemTypes  BY DEF ItemsInv
  <1>3. /\ mDataItemToClients' \in [DataItem -> SUBSET Observer]
        /\ S!getKeys(mDataItemToClients') = S!getKeys(mDataItemToClients) \cup items
    <2>1. mDataItemToClients \in [DataItem -> SUBSET Observer]  BY <1>2 DEF ItemTypes
    <2>2. /\ S!add(mDataItemToClients, items, {c}) \in [DataItem -> SUBSET Observer]
          /\ S!getKeys(S!add(mDataItemToClients, items, {c})) = S!getKeys(mDataItemToClients) \cup items
      BY <2>1, KeysOfAdd
    <2> QED  BY Zenon, <1>1, <2>2
  <1>4. new = items \ S!getKeys(mDataItemToClients)  BY DEF S!newKeys
  <1>5. \A d \in Observer, i \in DataItem :
          /\ i \in mClientToDataItems'[d] <=> i \in mClientToDataItems[d] \/ (d = c /\ i \in items)
          /\ d \in mDataItemToClients'[i] <=> d \in mDataItemToClients[i] \/ (d = c /\ i \in items)
    BY <1>1, <1>2 DEF S!add, ItemTypes
  <1>6. ItemTypes'
    <2>1. mClientToDataItems' \in [Observer -> SUBSET DataItem]
      BY <1>1, <1>2 DEF S!add, ItemTypes
    <2> HIDE DEF new
    <2> QED  BY Zenon, <1>1, <1>2, <1>3, <1>4, <2>1 DEF ItemTypes
  <1>70. \A d \in Observer, i \in DataItem :
           <<d, i>> \notin updated' => <<d, i>> \notin updated \/ (d = c /\ i \in items)
    BY <1>1
  <1>7. S!MapsAreInverse'  BY Zenon, <1>5, <1>70 DEF ItemsInv, S!MapsAreInverse
  <1>8. S!ClientsKnow'  BY <1>1, <1>5, <1>70 DEF ItemsInv, S!ClientsKnow
  <1>9. FrameworkHasKeys' /\ RequestedAreWanted' /\ NothingBefore'
    <2> HIDE DEF new
    <2>1. CASE mSubscriptionObj = TRUE
      BY Zenon, <1>1, <1>3, <1>4, <2>1
         DEF ItemsInv, FrameworkHasKeys, RequestedAreWanted, NothingBefore
    <2>2. CASE mSubscriptionObj = FALSE
      BY <1>1, <1>3, <2>2 DEF ItemsInv, FrameworkHasKeys, RequestedAreWanted, NothingBefore
    <2> QED  BY Zenon, <1>2, <2>1, <2>2 DEF ItemTypes
  <1> QED  BY <1>6, <1>7, <1>8, <1>9 DEF ItemsInv

\* What the client kept is taken out of one map and what it gave up stays in it:
\* these pairs are marked.  The rest of its new items are in both maps after it.
LEMMA ItemsUpdated ==
  ASSUME NEW c \in Observer, NEW items \in SUBSET DataItem,
         ItemsInv, S!updateSubscription(c, items)
  PROVE  ItemsInv'
  <1> PICK common \in SUBSET (mClientToDataItems[c] \cap items) :
        /\ mClientToDataItems' = [mClientToDataItems EXCEPT ![c] = items]
        /\ mDataItemToClients' =
             S!add(S!trimOrRemove(mDataItemToClients, common, {c}), items \ common, {c})
        /\ knows' = knows \cup ({c} \X ((items \ common) \cap mDataItemCache))
        /\ framework' =
             IF mSubscriptionObj
             THEN (framework \cup S!newKeys(S!trimOrRemove(mDataItemToClients, common, {c}), items \ common))
                    \ S!goneKeys(mDataItemToClients, common, {c})
             ELSE framework
        /\ requested' = requested \ S!goneKeys(mDataItemToClients, common, {c})
        /\ updated' = (updated \cup ({c} \X mClientToDataItems[c])) \ ({c} \X (items \ common))
        /\ UNCHANGED <<mSubscriptionObj, mDataItemCache>>
    BY Zenon DEF S!updateSubscription, S!sendCachedDataItems, S!forward
  <1> DEFINE trimmed == S!trimOrRemove(mDataItemToClients, common, {c})
             goneItems == S!goneKeys(mDataItemToClients, common, {c})
  <1>1. ItemTypes  BY DEF ItemsInv
  <1>2. mDataItemToClients \in [DataItem -> SUBSET Observer] /\ common \in SUBSET DataItem
    BY <1>1 DEF ItemTypes
  <1>3. /\ trimmed \in [DataItem -> SUBSET Observer]
        /\ S!getKeys(trimmed) = S!getKeys(mDataItemToClients) \ goneItems
        /\ goneItems \subseteq common
    BY Zenon, <1>2, KeysOfTrim
  <1>4. \A i \in DataItem, d \in Observer :
          d # c => (d \in trimmed[i] <=> d \in mDataItemToClients[i])
    BY <1>2 DEF S!trimOrRemove
  <1>5. /\ S!add(trimmed, items \ common, {c}) \in [DataItem -> SUBSET Observer]
        /\ S!getKeys(S!add(trimmed, items \ common, {c})) = S!getKeys(trimmed) \cup (items \ common)
    <2>1. items \ common \in SUBSET DataItem /\ c \in Observer  OBVIOUS
    <2> HIDE DEF trimmed
    <2> QED  BY Zenon, <1>3, <2>1, KeysOfAdd
  <1>6. \A i \in DataItem, d \in Observer :
          d # c => (d \in S!add(trimmed, items \ common, {c})[i] <=> d \in trimmed[i])
    <2> HIDE DEF trimmed
    <2> QED  BY <1>3 DEF S!add
  <1>7. S!newKeys(trimmed, items \ common) = (items \ common) \ S!getKeys(trimmed)
    BY DEF S!newKeys
  <1> DEFINE m2 == S!add(trimmed, items \ common, {c})
  <1>8. mDataItemToClients' = m2  OBVIOUS
  <1>9. S!getKeys(mDataItemToClients') = (S!getKeys(mDataItemToClients) \ goneItems) \cup (items \ common)
    <2> HIDE DEF trimmed, goneItems, m2
    <2>1. S!getKeys(m2) = S!getKeys(trimmed) \cup (items \ common)  BY Zenon, <1>5 DEF m2
    <2> QED  BY <1>3, <1>8, <2>1
  <1>10. mDataItemToClients' \in [DataItem -> SUBSET Observer]
    BY Zenon, <1>5
  <1>11. \A i \in DataItem, d \in Observer :
           d # c => (d \in mDataItemToClients'[i] <=> d \in mDataItemToClients[i])
    <2> HIDE DEF trimmed
    <2> QED  BY Zenon, <1>4, <1>6, <1>8 DEF m2
  <1>12. \A d \in Observer : d # c => mClientToDataItems'[d] = mClientToDataItems[d]
    BY <1>1 DEF ItemTypes
  <1>13. \A d \in Observer, i \in DataItem :
           <<d, i>> \notin updated' =>
             \/ d = c /\ i \in items \ common
             \/ <<d, i>> \notin updated /\ (d = c => i \notin mClientToDataItems[c] \cup items)
    BY <1>1 DEF ItemTypes
  <1>14. \A i \in DataItem :
           i \notin mClientToDataItems[c] \cup items =>
             (c \in mDataItemToClients'[i] <=> c \in mDataItemToClients[i])
    <2>1. \A i \in DataItem : i \notin items => i \notin common /\ trimmed[i] = mDataItemToClients[i]
      BY <1>2 DEF S!trimOrRemove
    <2>2. \A i \in DataItem : i \notin items => S!add(trimmed, items \ common, {c})[i] = trimmed[i]
      <3> HIDE DEF trimmed
      <3> QED  BY <1>3 DEF S!add
    <2> QED
      <3> HIDE DEF trimmed
      <3> QED  BY Zenon, <1>8, <2>1, <2>2 DEF m2
  <1>141. \A i \in items \ common : c \in mDataItemToClients'[i]
    <2>1. \A i \in items \ common : c \in S!add(trimmed, items \ common, {c})[i]
      <3> HIDE DEF trimmed
      <3> QED  BY <1>3 DEF S!add
    <2> HIDE DEF trimmed
    <2> QED  BY Zenon, <1>8, <2>1 DEF m2
  <1>142. \A i \in items \ common : i \in mClientToDataItems'[c]  BY <1>1 DEF ItemTypes
  <1>15. ItemTypes'
    <2>1. mClientToDataItems' \in [Observer -> SUBSET DataItem]  BY <1>1 DEF ItemTypes
    <2>2. S!newKeys(trimmed, items \ common) \subseteq DataItem  BY DEF S!newKeys
    <2>3. updated' \subseteq Observer \X DataItem  BY <1>1 DEF ItemTypes
    <2>4. knows' \subseteq Observer \X DataItem  BY <1>1 DEF ItemTypes
    <2> HIDE DEF trimmed, goneItems, m2
    <2>5. framework' \subseteq DataItem /\ requested' \subseteq DataItem
      BY Zenon, <1>1, <2>2 DEF ItemTypes, trimmed
    <2> QED  BY Zenon, <1>1, <1>10, <2>1, <2>3, <2>4, <2>5 DEF ItemTypes
  <1>16. S!MapsAreInverse'
    <2> SUFFICES ASSUME NEW d \in Observer, NEW i \in DataItem, <<d, i>> \notin updated'
                 PROVE  i \in mClientToDataItems'[d] <=> d \in mDataItemToClients'[i]
      BY Zenon DEF S!MapsAreInverse
    <2> HIDE DEF trimmed, goneItems, m2
    <2>1. CASE d = c /\ i \in items \ common  BY Zenon, <1>141, <1>142, <2>1
    <2>2. CASE ~(d = c /\ i \in items \ common)
      <3>1. <<d, i>> \notin updated /\ (d = c => i \notin mClientToDataItems[c] \cup items)
        BY Zenon, <1>13, <2>2
      <3>2. i \in mClientToDataItems[d] <=> d \in mDataItemToClients[i]
        BY Zenon, <3>1 DEF ItemsInv, S!MapsAreInverse
      <3>3. CASE d # c  BY Zenon, <1>11, <1>12, <3>2, <3>3
      <3>4. CASE d = c
        <4>1. i \notin mClientToDataItems[c] \cup items /\ mClientToDataItems'[c] = items
          BY <1>1, <3>1, <3>4 DEF ItemTypes
        <4> QED  BY Zenon, <1>14, <3>2, <3>4, <4>1
      <3> QED  BY Zenon, <3>3, <3>4
    <2> QED  BY Zenon, <2>1, <2>2
  <1>17. S!ClientsKnow'
    <2> SUFFICES ASSUME NEW d \in Observer, NEW i \in DataItem, <<d, i>> \notin updated',
                        i \in mClientToDataItems'[d] \cap mDataItemCache'
                 PROVE  <<d, i>> \in knows'
      BY DEF S!ClientsKnow
    <2> HIDE DEF trimmed, goneItems, m2
    <2>1. CASE d = c /\ i \in items \ common
      <3>1. i \in mDataItemCache  BY <1>1
      <3> QED  BY <1>1, <2>1, <3>1
    <2>2. CASE ~(d = c /\ i \in items \ common)
      <3>1. <<d, i>> \notin updated /\ (d = c => i \notin mClientToDataItems[c] \cup items)
        BY Zenon, <1>13, <2>2
      <3>2. CASE d # c
        <4>1. i \in mClientToDataItems[d] \cap mDataItemCache  BY <1>1, <1>12, <3>2
        <4>2. <<d, i>> \in knows  BY Zenon, <3>1, <4>1 DEF ItemsInv, S!ClientsKnow
        <4> QED  BY <1>1, <4>2
      <3>3. CASE d = c
        <4>1. mClientToDataItems'[c] = items  BY <1>1 DEF ItemTypes
        <4> QED  BY <3>1, <3>3, <4>1
      <3> QED  BY Zenon, <3>2, <3>3
    <2> QED  BY Zenon, <2>1, <2>2
  <1>18. FrameworkHasKeys' /\ RequestedAreWanted' /\ NothingBefore'
    <2> HIDE DEF trimmed, goneItems, m2
    <2>0. requested' = requested \ goneItems
      BY DEF goneItems
    <2>1. CASE mSubscriptionObj = TRUE
      <3>1. framework' = (framework \cup ((items \ common) \ S!getKeys(trimmed))) \ goneItems
        BY Zenon, <1>7, <2>1 DEF trimmed, goneItems
      <3>2. framework = S!getKeys(mDataItemToClients) \ requested /\ requested \subseteq S!getKeys(mDataItemToClients)
        BY <2>1 DEF ItemsInv, FrameworkHasKeys, RequestedAreWanted
      <3>3. framework' = S!getKeys(mDataItemToClients') \ requested'
        BY Zenon, <1>3, <1>9, <2>0, <3>1, <3>2
      <3> QED  BY Zenon, <1>9, <2>0, <2>1, <3>2, <3>3 DEF FrameworkHasKeys, RequestedAreWanted, NothingBefore
    <2>2. CASE mSubscriptionObj = FALSE
      BY <1>9, <2>0, <2>2 DEF ItemsInv, FrameworkHasKeys, RequestedAreWanted, NothingBefore
    <2> QED  BY Zenon, <1>1, <2>1, <2>2 DEF ItemTypes
  <1> QED  BY <1>15, <1>16, <1>17, <1>18 DEF ItemsInv

\* Only the pairs of the client and the items it has are taken out of both maps.
LEMMA ItemsUnsubscribed ==
  ASSUME NEW c \in Observer, NEW items \in SUBSET DataItem, ItemsInv, S!unsubscribe(c, items)
  PROVE  ItemsInv'
  <1> DEFINE unused == mClientToDataItems[c] \cap items
             goneItems == S!goneKeys(mDataItemToClients, unused, {c})
  <1>1. /\ mClientToDataItems' = S!trimOrRemove(mClientToDataItems, {c}, items)
        /\ mDataItemToClients' = S!trimOrRemove(mDataItemToClients, unused, {c})
        /\ framework' = IF mSubscriptionObj THEN framework \ goneItems ELSE framework
        /\ requested' = requested \ goneItems
        /\ updated' = updated \ ({c} \X unused)
        /\ UNCHANGED <<mSubscriptionObj, mDataItemCache, knows>>
    <2>1. S!goneVals(mClientToDataItems, {c}, items) = unused  BY LostValues
    <2> QED  BY Zenon, <2>1 DEF S!unsubscribe, S!forward
  <1>2. ItemTypes  BY DEF ItemsInv
  <1>3. unused \in SUBSET DataItem  OBVIOUS
  <1>4. /\ mDataItemToClients' \in [DataItem -> SUBSET Observer]
        /\ S!getKeys(mDataItemToClients') = S!getKeys(mDataItemToClients) \ goneItems
    <2>1. mDataItemToClients \in [DataItem -> SUBSET Observer]  BY <1>2 DEF ItemTypes
    <2>2. /\ S!trimOrRemove(mDataItemToClients, unused, {c}) \in [DataItem -> SUBSET Observer]
          /\ S!getKeys(S!trimOrRemove(mDataItemToClients, unused, {c}))
               = S!getKeys(mDataItemToClients) \ goneItems
      <3> HIDE DEF unused
      <3> QED  BY Zenon, <1>3, <2>1, KeysOfTrim
    <2> QED  BY Zenon, <1>1, <2>2
  <1>5. \A d \in Observer, i \in DataItem :
          /\ i \in mClientToDataItems'[d] <=> i \in mClientToDataItems[d] /\ ~(d = c /\ i \in items)
          /\ d \in mDataItemToClients'[i] <=> d \in mDataItemToClients[i] /\ ~(d = c /\ i \in unused)
    BY <1>1, <1>2 DEF ItemTypes, S!trimOrRemove
  <1>6. ItemTypes'
    <2>1. mClientToDataItems' \in [Observer -> SUBSET DataItem]
      BY <1>1, <1>2 DEF S!trimOrRemove, ItemTypes
    <2> HIDE DEF goneItems, unused
    <2> QED  BY Zenon, <1>1, <1>2, <1>4, <2>1 DEF ItemTypes
  <1>70. \A d \in Observer, i \in DataItem :
           <<d, i>> \notin updated' => <<d, i>> \notin updated \/ (d = c /\ i \in unused)
    BY <1>1
  <1>7. S!MapsAreInverse'  BY <1>5, <1>70 DEF ItemsInv, S!MapsAreInverse
  <1>8. S!ClientsKnow'  BY <1>1, <1>5, <1>70 DEF ItemsInv, S!ClientsKnow
  <1>9. FrameworkHasKeys' /\ RequestedAreWanted' /\ NothingBefore'
    <2> HIDE DEF goneItems, unused
    <2>1. CASE mSubscriptionObj = TRUE
      BY Zenon, <1>1, <1>4, <2>1 DEF ItemsInv, FrameworkHasKeys, RequestedAreWanted, NothingBefore
    <2>2. CASE mSubscriptionObj = FALSE
      BY <1>1, <1>4, <2>2 DEF ItemsInv, FrameworkHasKeys, RequestedAreWanted, NothingBefore
    <2> QED  BY Zenon, <1>2, <2>1, <2>2 DEF ItemTypes
  <1> QED  BY <1>6, <1>7, <1>8, <1>9 DEF ItemsInv

\* A client that has an item of the report has it in the other map too, so it is told.
LEMMA ItemsNotified ==
  ASSUME NEW changed \in SUBSET DataItem, ItemsInv, S!notify(changed)
  PROVE  ItemsInv'
  <1> USE DEF S!notify
  <1>1. ItemTypes /\ ItemTypes'  BY DEF ItemsInv, ItemTypes
  <1>2. S!MapsAreInverse'  BY DEF ItemsInv, S!MapsAreInverse
  <1>3. S!ClientsKnow'
    <2> SUFFICES ASSUME NEW d \in Observer, NEW i \in DataItem, <<d, i>> \notin updated,
                        i \in mClientToDataItems[d], i \in mDataItemCache \cup changed
                 PROVE  <<d, i>> \in knows'
      BY DEF S!ClientsKnow
    <2>1. d \in mDataItemToClients[i]  BY DEF ItemsInv, S!MapsAreInverse
    <2>2. CASE i \in changed  BY <2>1, <2>2
    <2>3. CASE i \notin changed
      <3>1. <<d, i>> \in knows  BY <2>3 DEF ItemsInv, S!ClientsKnow
      <3> QED  BY <2>3, <3>1
    <2> QED  BY <2>2, <2>3
  <1>4. FrameworkHasKeys' /\ RequestedAreWanted' /\ NothingBefore'
    BY DEF ItemsInv, FrameworkHasKeys, RequestedAreWanted, NothingBefore, S!getKeys
  <1> QED  BY <1>1, <1>2, <1>3, <1>4 DEF ItemsInv

LEMMA ItemsNext == ItemsInv /\ [S!Next]_(S!vars) => ItemsInv'
  <1> SUFFICES ASSUME ItemsInv, [S!Next]_(S!vars)  PROVE ItemsInv'
    OBVIOUS
  <1>1. CASE S!setSubscriptionObj  BY <1>1, ItemsSet
  <1>2. ASSUME NEW c \in Observer, NEW items \in S!Some, NEW toRequestData \in BOOLEAN,
               S!subscribe(c, items, toRequestData)
        PROVE  ItemsInv'
    BY <1>2, ItemsSubscribed DEF S!Some
  <1>3. ASSUME NEW c \in Observer, NEW items \in S!Some, S!updateSubscription(c, items)
        PROVE  ItemsInv'
    BY <1>3, ItemsUpdated DEF S!Some
  <1>4. ASSUME NEW c \in Observer, NEW items \in S!Some, S!unsubscribe(c, items)
        PROVE  ItemsInv'
    BY <1>4, ItemsUnsubscribed DEF S!Some
  <1>5. ASSUME NEW c \in Observer, S!unsubscribeAll(c)  PROVE ItemsInv'
    <2>1. mClientToDataItems[c] \in SUBSET DataItem  BY DEF ItemsInv, ItemTypes
    <2> QED  BY <1>5, <2>1, ItemsUnsubscribed DEF S!unsubscribeAll
  <1>6. ASSUME NEW changed \in S!Some, S!notify(changed)  PROVE ItemsInv'
    BY <1>6, ItemsNotified DEF S!Some
  <1>7. CASE UNCHANGED S!vars
    BY <1>7 DEF S!vars, ItemsInv, ItemTypes, S!MapsAreInverse, S!ClientsKnow, FrameworkHasKeys,
                RequestedAreWanted, NothingBefore, S!getKeys
  <1> QED  BY <1>1, <1>2, <1>3, <1>4, <1>5, <1>6, <1>7 DEF S!Next

\* An item without a marked pair is a key of the one map exactly if some client
\* has it by the other.
LEMMA ItemsHold == ItemsInv => S!SubscriptionsHold
  <1> SUFFICES ASSUME ItemsInv  PROVE S!SubscriptionsHold
    OBVIOUS
  <1>1. ASSUME mSubscriptionObj, NEW i \in DataItem \ requested,
               \A c \in Observer : <<c, i>> \notin updated
        PROVE  i \in framework <=> \E c \in Observer : i \in mClientToDataItems[c]
    <2>1. i \in framework <=> mDataItemToClients[i] # {}
      BY <1>1 DEF ItemsInv, ItemTypes, FrameworkHasKeys, S!getKeys
    <2>2. mDataItemToClients[i] \subseteq Observer  BY DEF ItemsInv, ItemTypes
    <2>3. \A c \in Observer : i \in mClientToDataItems[c] <=> c \in mDataItemToClients[i]
      BY Zenon, <1>1 DEF ItemsInv, S!MapsAreInverse
    <2> QED  BY <2>1, <2>2, <2>3
  <1> QED  BY Zenon, <1>1 DEF ItemsInv, S!SubscriptionsHold, S!FrameworkFollows

\* For any clients and data items (SystemStatusOsObserver.cpp,
\* LocUnorderedSetMap.h): for a client and an item that no update left in one map,
\* the maps are inverse and the client knows the last report of its item; and the
\* framework is subscribed to such items just if a client has them, unless the
\* first to ask used requestData().
THEOREM SubscriptionsFollow == Spec => []SubscriptionsHold
<1>. DEFINE Inv == part = "observer" => ItemsInv
<1>1. Init => Inv
  BY ItemsInit DEF Init
<1>2. Inv /\ [Next]_<<part, ni, observer, display, xtra, gnss, batch, reports>> => Inv'
  <2> SUFFICES ASSUME Inv, part' = "observer",
                      [Next]_<<part, ni, observer, display, xtra, gnss, batch, reports>>
               PROVE  ItemsInv'
    OBVIOUS
  <2>1. part = "observer" /\ (S!Next \/ UNCHANGED observer)
    BY DEF Next, Ni, Items, Display, Xtra, Gnss, Batch, Reports
  <2>2. UNCHANGED observer => UNCHANGED S!vars
    BY DEF observer, S!vars
  <2>. QED
    BY <2>1, <2>2, ItemsNext
<1>3. Inv => SubscriptionsHold
  BY ItemsHold DEF SubscriptionsHold
<1>. QED
  BY <1>1, <1>2, <1>3, PTL DEF Spec
------------------------------------------------------------------------------
(* The requests of the network.  The invariant follows each request        *)
(* through the places that hold it (Apart: no two at a time, Present:      *)
(* never none once it was shown) and each answer from the user to the      *)
(* modem (Stored, OnItsWay).                                               *)

Resp == {"accept", "deny", "ignore", "noResponse"}
RequestMessage ==
  [fn : {"request"}, r : Request, type : N!Types, emergency : BOOLEAN]
  \cup [fn : {"response"}, r : {None}, id : Nat, resp : {"accept", "deny"}]
  \cup [fn : {"inform"}, r : Request, resp : Resp]

RequestTypes ==
  /\ tasks \in Seq(RequestMessage)
  /\ sessionOf \in [N!Session -> [rawRequest : Request \cup {None}, reqID : Nat,
                                resp : Resp \cup {None}, respRecvd : BOOLEAN]]
  /\ reqIDCounter \in Nat
  /\ threads \subseteq [session : N!Session, id : Nat, step : {"start", "wait", "clear"},
                        r : Request \cup {None}, resp : Resp \cup {None}]
  /\ shown \subseteq [id : Nat, r : Request]
  /\ told \in [Request -> Seq(Resp)] /\ freed \subseteq Request
  /\ said \in [Request -> {None, "accept", "deny"}]
  /\ raced \subseteq N!Session

\* the places that hold a request: a message, a session, a thread, its end
holds(i, r)  == tasks[i].fn \in {"request", "inform"} /\ tasks[i].r = r
InTasks(r)   == \E i \in 1..Len(tasks) : holds(i, r)
InSession(r) == \E s \in N!Session : sessionOf[s].rawRequest = r
InThread(r)  == \E t \in threads : t.r = r
Over(r)      == Len(told[r]) # 0 \/ r \in freed

\* No two places hold a request.
HeldOnce(r) == \A i, j \in 1..Len(tasks) : holds(i, r) /\ holds(j, r) => i = j
Apart == \A r \in Request :
  /\ HeldOnce(r)
  /\ InTasks(r) => ~InSession(r) /\ ~InThread(r) /\ ~Over(r)
  /\ InSession(r) => ~InThread(r) /\ ~Over(r)
  /\ InThread(r) => ~Over(r)
  /\ ~(sessionOf["es"].rawRequest = r /\ sessionOf["other"].rawRequest = r)
  /\ \A t, u \in threads : t.r = r /\ u.r = r => t = u
  /\ Len(told[r]) = 0 \/ (Len(told[r]) = 1 /\ r \notin freed)

\* A thread takes a request out of its session in the end, not before, and has
\* an answer to it then.
Threads ==
  /\ \A t \in threads : /\ t.step # "clear" => t.r = None
                        /\ t.r # None => t.resp # None
  /\ \A s \in N!Session : sessionOf[s].respRecvd => sessionOf[s].resp # None

\* What was shown is still somewhere, was shown once and not yet answered; what
\* is still to be shown was not answered either.
Present(r) == InTasks(r) \/ InSession(r) \/ InThread(r) \/ Over(r)
Shown ==
  /\ \A d \in shown : /\ said[d.r] = None /\ Present(d.r)
                      /\ d.id \in 1..reqIDCounter
  /\ \A d, e \in shown : d.r = e.r => d = e
  /\ \A i \in 1..Len(tasks) : tasks[i].fn = "request" =>
       said[tasks[i].r] = None /\ \A d \in shown : d.r # tasks[i].r

\* An id leads from the user's answer to the request the user saw.
Linked == \A s \in N!Session : sessionOf[s].rawRequest # None =>
  /\ \A d \in shown : d.id = sessionOf[s].reqID => d.r = sessionOf[s].rawRequest
  /\ \A i \in 1..Len(tasks) :
       tasks[i].fn = "response" /\ tasks[i].id = sessionOf[s].reqID =>
         said[sessionOf[s].rawRequest] = tasks[i].resp
Ids ==
  /\ \A s \in N!Session : sessionOf[s].reqID <= reqIDCounter
  /\ \A i \in 1..Len(tasks) : tasks[i].fn = "response" => tasks[i].id \in 1..reqIDCounter

\* resp is an answer to request r that the user gave
given(r, resp) == resp # None /\ said[r] = resp
Handled ==
  \/ proc = N!idle
  \/ /\ proc \in [step : {"ignore"}, session : {None}, resp : {None}, r : {None}]
  \/ /\ proc \in [step : {"ignore", "store"}, session : N!Session,
                   resp : {"accept", "deny"}, r : Request]
     /\ given(proc.r, proc.resp)
Stored ==
  raced = {} => \A s \in N!Session : sessionOf[s].respRecvd =>
    /\ sessionOf[s].rawRequest # None
    /\ \/ sessionOf[s].resp = "ignore"
       \/ given(sessionOf[s].rawRequest, sessionOf[s].resp)
OnItsWay ==
  raced = {} =>
    /\ \A t \in threads : t.r # None => t.resp = "noResponse" \/ given(t.r, t.resp)
    /\ \A i \in 1..Len(tasks) : tasks[i].fn = "inform" =>
         tasks[i].resp = "noResponse" \/ given(tasks[i].r, tasks[i].resp)
    /\ \A d \in shown : \A i \in 1..Len(told[d.r]) : told[d.r][i] = "noResponse"
    /\ \A r \in Request : \A i \in 1..Len(told[r]) :
         said[r] # None => told[r][i] \in {said[r], "noResponse"}

\* None is no request, no answer and no session.
NoneIsNone == None \notin Request \cup Resp \cup N!Session

RequestInv == /\ RequestTypes /\ Apart /\ Threads /\ Shown /\ Linked /\ Ids /\ Handled /\ Stored /\ OnItsWay
------------------------------------------------------------------------------
(* The queue of the adapter's task.                                        *)

LEMMA Receive ==
  ASSUME RequestTypes, NEW fn, N!receive(fn)
  PROVE  /\ tasks' \in Seq(RequestMessage)
         /\ Len(tasks) \in Nat \ {0} /\ Len(tasks') \in Nat
         /\ \A i \in 1..Len(tasks') : i + 1 \in 1..Len(tasks) /\ tasks'[i] = tasks[i + 1]
         /\ \A i \in 1..Len(tasks) : i # 1 =>
              i - 1 \in 1..Len(tasks') /\ tasks'[i - 1] = tasks[i]
         /\ N!here \in RequestMessage /\ N!here = tasks[1] /\ N!here.fn = fn /\ 1 \in 1..Len(tasks)
<1>. HIDE DEF RequestMessage
<1>1. /\ tasks' \in Seq(RequestMessage)
      /\ Len(tasks) \in Nat \ {0} /\ Len(tasks') = Len(tasks) - 1
      /\ \A i \in 1..Len(tasks') : tasks'[i] = tasks[i + 1]
      /\ N!here = tasks[1] /\ N!here.fn = fn
  BY DEF N!receive, RequestTypes, N!here
<1>2. tasks[1] \in RequestMessage
  BY <1>1 DEF RequestTypes
<1>. QED
  BY <1>1, <1>2

LEMMA Post ==
  ASSUME RequestTypes, NEW m \in RequestMessage, tasks' = Append(tasks, m)
  PROVE  /\ tasks' \in Seq(RequestMessage)
         /\ Len(tasks) \in Nat /\ Len(tasks') = Len(tasks) + 1
         /\ \A i \in 1..Len(tasks) : i \in 1..Len(tasks') /\ tasks'[i] = tasks[i]
         /\ Len(tasks') \in 1..Len(tasks') /\ tasks'[Len(tasks')] = m
         /\ \A i \in 1..Len(tasks') : i = Len(tasks') \/ i \in 1..Len(tasks)
<1>. HIDE DEF RequestMessage
<1>1. /\ tasks' \in Seq(RequestMessage)
      /\ Len(tasks) \in Nat /\ Len(tasks') = Len(tasks) + 1
      /\ \A i \in 1..Len(tasks) : tasks'[i] = tasks[i]
      /\ tasks'[Len(tasks')] = m
  BY DEF RequestTypes
<1>. QED
  BY <1>1

\* A received message held its request, and only it lets go of it.
LEMMA Received ==
  ASSUME RequestTypes, NEW fn, N!receive(fn)
  PROVE  /\ \A r : HeldOnce(r) => HeldOnce(r)'
         /\ \A r : InTasks(r)' => InTasks(r)
         /\ \A r : InTasks(r) => \/ InTasks(r)'
                                 \/ fn \in {"request", "inform"} /\ r = N!here.r
         /\ fn \in {"request", "inform"} => InTasks(N!here.r)
         /\ \A r : r = N!here.r /\ fn \in {"request", "inform"} /\ HeldOnce(r) =>
              ~InTasks(r)'
<1>1. /\ Len(tasks) \in Nat \ {0} /\ Len(tasks') \in Nat
      /\ \A i \in 1..Len(tasks') : i + 1 \in 1..Len(tasks) /\ tasks'[i] = tasks[i + 1]
      /\ \A i \in 1..Len(tasks) : i # 1 =>
           i - 1 \in 1..Len(tasks') /\ tasks'[i - 1] = tasks[i]
      /\ N!here = tasks[1] /\ N!here.fn = fn /\ 1 \in 1..Len(tasks)
  BY Receive
<1>2. ASSUME NEW r, HeldOnce(r)  PROVE HeldOnce(r)'
  <2> SUFFICES ASSUME NEW i \in 1..Len(tasks'), NEW j \in 1..Len(tasks'),
                      holds(i, r)', holds(j, r)'
               PROVE  i = j
    BY DEF HeldOnce
  <2>1. holds(i + 1, r) /\ holds(j + 1, r)
    BY Zenon, <1>1 DEF holds
  <2>2. i + 1 = j + 1
    BY <1>1, <1>2, <2>1 DEF HeldOnce
  <2>. QED
    BY <2>2
<1>3. ASSUME NEW r, InTasks(r)'  PROVE InTasks(r)
  <2>1. PICK i \in 1..Len(tasks') : holds(i, r)'
    BY <1>3 DEF InTasks
  <2>2. i + 1 \in 1..Len(tasks) /\ holds(i + 1, r)
    BY <1>1, <2>1 DEF holds
  <2>. QED
    BY <2>2 DEF InTasks
<1>4. ASSUME NEW r, InTasks(r), ~InTasks(r)'
      PROVE  fn \in {"request", "inform"} /\ r = N!here.r
  <2>1. PICK i \in 1..Len(tasks) : holds(i, r)
    BY <1>4 DEF InTasks
  <2>2. CASE i # 1
    <3>1. i - 1 \in 1..Len(tasks') /\ holds(i - 1, r)'
      BY <1>1, <2>1, <2>2 DEF holds
    <3>. QED
      BY <1>4, <3>1 DEF InTasks
  <2>3. CASE i = 1
    BY <1>1, <2>1, <2>3 DEF holds
  <2>. QED
    BY <2>2, <2>3
<1>5. fn \in {"request", "inform"} => holds(1, N!here.r)
  BY <1>1 DEF holds
<1>6. fn \in {"request", "inform"} => InTasks(N!here.r)
  BY <1>1, <1>5 DEF InTasks
<1>7. ASSUME NEW r, r = N!here.r, fn \in {"request", "inform"}, HeldOnce(r), InTasks(r)'
      PROVE  FALSE
  <2>1. PICK i \in 1..Len(tasks') : holds(i, r)'
    BY <1>7 DEF InTasks
  <2>2. i + 1 \in 1..Len(tasks) /\ holds(i + 1, r) /\ holds(1, r)
    BY <1>1, <1>5, <1>7, <2>1 DEF holds
  <2>3. i + 1 = 1
    BY Zenon, <1>1, <1>7, <2>2 DEF HeldOnce
  <2>. QED
    BY <2>3
<1>. QED
  BY <1>2, <1>3, <1>4, <1>6, <1>7

\* A posted message holds its request.
LEMMA Posted ==
  ASSUME RequestTypes, NEW m \in RequestMessage, tasks' = Append(tasks, m)
  PROVE  /\ \A r : InTasks(r) => InTasks(r)'
         /\ \A r : InTasks(r)' => \/ InTasks(r)
                                  \/ m.fn \in {"request", "inform"} /\ m.r = r
         /\ m.fn \in {"request", "inform"} => InTasks(m.r)'
         /\ \A r : HeldOnce(r) /\ (~InTasks(r) \/ m.fn = "response" \/ m.r # r) => HeldOnce(r)'
<1>. HIDE DEF RequestMessage
<1>1. /\ Len(tasks) \in Nat /\ Len(tasks') = Len(tasks) + 1
      /\ \A i \in 1..Len(tasks) : i \in 1..Len(tasks') /\ tasks'[i] = tasks[i]
      /\ Len(tasks') \in 1..Len(tasks') /\ tasks'[Len(tasks')] = m
      /\ \A i \in 1..Len(tasks') : i = Len(tasks') \/ i \in 1..Len(tasks)
  BY Post
<1>2. ASSUME NEW r, InTasks(r)  PROVE InTasks(r)'
  BY <1>1, <1>2 DEF InTasks, holds
<1>3. ASSUME NEW r, InTasks(r)'
      PROVE  InTasks(r) \/ (m.fn \in {"request", "inform"} /\ m.r = r)
  <2>1. PICK i \in 1..Len(tasks') : holds(i, r)'
    BY <1>3 DEF InTasks
  <2>2. CASE i = Len(tasks')
    BY <1>1, <2>1, <2>2 DEF holds
  <2>3. CASE i \in 1..Len(tasks)
    BY <1>1, <2>1, <2>3 DEF InTasks, holds
  <2>. QED
    BY <1>1, <2>2, <2>3
<1>4. m.fn \in {"request", "inform"} => InTasks(m.r)'
  BY <1>1 DEF InTasks, holds
<1>5. ASSUME NEW r, HeldOnce(r), ~InTasks(r) \/ m.fn = "response" \/ m.r # r  PROVE HeldOnce(r)'
  <2> SUFFICES ASSUME NEW i \in 1..Len(tasks'), NEW j \in 1..Len(tasks'),
                      holds(i, r)', holds(j, r)'
               PROVE  i = j
    BY DEF HeldOnce
  <2>1. CASE ~InTasks(r)
    BY <1>1, <2>1 DEF InTasks, holds
  <2>2. CASE m.fn = "response" \/ m.r # r
    <3>1. i \in 1..Len(tasks) /\ j \in 1..Len(tasks)
      BY <1>1, <2>2 DEF holds
    <3>. QED
      BY <1>1, <1>5, <3>1 DEF HeldOnce, holds
  <2>. QED
    BY <1>5, <2>1, <2>2
<1>. QED
  BY <1>2, <1>3, <1>4, <1>5
------------------------------------------------------------------------------
(* One lemma per action.                                                   *)

LEMMA RequestReceived ==
  ASSUME RequestInv, NoneIsNone, NEW r \in Request, NEW type \in N!Types, NEW emergency \in BOOLEAN,
         N!requestNiNotifyEvent(r, type, emergency)
  PROVE  RequestInv'
<1>. DEFINE m == [fn |-> "request", r |-> r, type |-> type, emergency |-> emergency]
<1>1. /\ m \in RequestMessage /\ m.fn = "request" /\ m.r = r
      /\ tasks' = Append(tasks, m)
      /\ said[r] = None /\ told[r] = <<>> /\ r \notin freed
      /\ \A i \in DOMAIN tasks : tasks[i].r # r
      /\ \A s \in N!Session : sessionOf[s].rawRequest # r
      /\ \A t \in threads : t.r # r
      /\ UNCHANGED <<conf, hasCb, proc, sessionOf, reqIDCounter, threads, shown, told,
                     freed, said, raced>>
  BY DEF N!requestNiNotifyEvent, RequestMessage
<1>. HIDE DEF m
<1>2. /\ tasks' \in Seq(RequestMessage)
      /\ Len(tasks) \in Nat /\ Len(tasks') = Len(tasks) + 1
      /\ \A i \in 1..Len(tasks) : i \in 1..Len(tasks') /\ tasks'[i] = tasks[i]
      /\ Len(tasks') \in 1..Len(tasks') /\ tasks'[Len(tasks')] = m
      /\ \A i \in 1..Len(tasks') : i = Len(tasks') \/ i \in 1..Len(tasks)
  BY <1>1, Post DEF RequestInv
<1>3. /\ \A q : InTasks(q) => InTasks(q)'
      /\ \A q : InTasks(q)' => InTasks(q) \/ q = r
      /\ \A q : HeldOnce(q) /\ (~InTasks(q) \/ q # r) => HeldOnce(q)'
  BY <1>1, Posted DEF RequestInv
<1>4. ~InTasks(r) /\ ~InSession(r) /\ ~InThread(r) /\ ~Over(r)
  <2>1. DOMAIN tasks = 1..Len(tasks)
    BY DEF RequestInv, RequestTypes
  <2>2. Len(told[r]) = 0
    BY <1>1
  <2>. QED
    BY <1>1, <2>1, <2>2 DEF InTasks, holds, InSession, InThread, Over
<1>5. RequestTypes'
  BY Zenon, <1>1, <1>2 DEF RequestInv, RequestTypes
<1>6. Apart'
  BY <1>1, <1>3, <1>4 DEF RequestInv, Apart, InSession, InThread, Over
<1>7. Threads'
  BY <1>1 DEF RequestInv, Threads
<1>8. Shown'
  <2>1. \A d \in shown : d.r # r
    BY <1>4 DEF RequestInv, Shown, Present
  <2>2. \A d \in shown : Present(d.r)'
    BY <1>1, <1>3 DEF RequestInv, Shown, Present, InSession, InThread, Over
  <2>. QED
    BY <1>1, <1>2, <2>1, <2>2 DEF RequestInv, Shown
<1>9. Linked' /\ Ids'
  BY <1>1, <1>2 DEF RequestInv, Linked, Ids
<1>10. Handled' /\ Stored' /\ OnItsWay'
  BY <1>1, <1>2 DEF RequestInv, Handled, Stored, OnItsWay, given
<1>. QED
  BY <1>5, <1>6, <1>7, <1>8, <1>9, <1>10 DEF RequestInv

LEMMA UserAnswers ==
  ASSUME RequestInv, NoneIsNone, NEW d \in shown, NEW resp \in {"accept", "deny"},
         N!gnssNiResponse(d, resp)
  PROVE  RequestInv'
<1>. DEFINE m == [fn |-> "response", r |-> None, id |-> d.id, resp |-> resp]
<1>1. /\ d.id \in Nat /\ d.r \in Request /\ said[d.r] = None /\ d.id \in 1..reqIDCounter
      /\ \A e \in shown : e.r = d.r => e = d
  BY DEF RequestInv, RequestTypes, Shown
<1>2. /\ m \in RequestMessage /\ m.fn = "response" /\ m.id = d.id /\ m.resp = resp
      /\ tasks' = Append(tasks, m)
      /\ shown' = shown \ {d} /\ said' = [said EXCEPT ![d.r] = resp]
      /\ UNCHANGED <<conf, hasCb, proc, sessionOf, reqIDCounter, threads, told, freed, raced>>
  BY <1>1 DEF N!gnssNiResponse, RequestMessage
<1>. HIDE DEF m
<1>3. /\ tasks' \in Seq(RequestMessage)
      /\ Len(tasks) \in Nat /\ Len(tasks') = Len(tasks) + 1
      /\ \A i \in 1..Len(tasks) : i \in 1..Len(tasks') /\ tasks'[i] = tasks[i]
      /\ Len(tasks') \in 1..Len(tasks') /\ tasks'[Len(tasks')] = m
      /\ \A i \in 1..Len(tasks') : i = Len(tasks') \/ i \in 1..Len(tasks)
  BY <1>2, Post DEF RequestInv
<1>4. \A q : (InTasks(q)' <=> InTasks(q)) /\ (HeldOnce(q) => HeldOnce(q)')
  BY <1>2, Posted DEF RequestInv
<1>5. /\ said'[d.r] = resp
      /\ \A q \in Request : q # d.r => said'[q] = said[q]
      /\ said' \in [Request -> {None, "accept", "deny"}]
  BY <1>1, <1>2 DEF RequestInv, RequestTypes
<1>6. RequestTypes'
  BY Zenon, <1>2, <1>3, <1>5 DEF RequestInv, RequestTypes
<1>7. Apart'
  BY <1>2, <1>4 DEF RequestInv, Apart, InSession, InThread, Over
<1>8. Threads'
  BY <1>2 DEF RequestInv, Threads
<1>9. Shown'
  <2>1. \A e \in shown' : e \in shown /\ e.r # d.r /\ e.r \in Request
    BY <1>1, <1>2 DEF RequestInv, RequestTypes
  <2>2. \A e \in shown' : Present(e.r)'
    BY <1>2, <1>4, <2>1 DEF RequestInv, Shown, Present, InSession, InThread, Over
  <2>3. ASSUME NEW i \in 1..Len(tasks'), tasks'[i].fn = "request"
        PROVE  said'[tasks'[i].r] = None /\ \A e \in shown' : e.r # tasks'[i].r
    <3>1. i \in 1..Len(tasks) /\ tasks'[i] = tasks[i] /\ tasks[i].fn = "request"
      BY <1>2, <1>3, <2>3
    <3>2. said[tasks[i].r] = None /\ \A e \in shown : e.r # tasks[i].r
      BY <3>1 DEF RequestInv, Shown
    <3>3. tasks[i].r \in Request
      <4>1. tasks[i] \in RequestMessage
        BY <3>1 DEF RequestInv, RequestTypes
      <4>. QED
        BY <3>1, <4>1 DEF RequestMessage
    <3>. QED
      BY <1>2, <1>5, <3>1, <3>2, <3>3
  <2>. QED
    BY <1>2, <1>5, <2>1, <2>2, <2>3 DEF RequestInv, Shown
<1>10. Linked'
  <2> SUFFICES ASSUME NEW s \in N!Session, sessionOf[s].rawRequest # None
               PROVE  /\ \A e \in shown' : e.id = sessionOf[s].reqID => e.r = sessionOf[s].rawRequest
                      /\ \A i \in 1..Len(tasks') :
                           tasks'[i].fn = "response" /\ tasks'[i].id = sessionOf[s].reqID =>
                             said'[sessionOf[s].rawRequest] = tasks'[i].resp
    BY <1>2 DEF Linked
  <2>1. sessionOf[s].rawRequest \in Request
    BY DEF RequestInv, RequestTypes
  <2>2. \A e \in shown : e.id = sessionOf[s].reqID => e.r = sessionOf[s].rawRequest
    BY DEF RequestInv, Linked
  <2>3. ASSUME NEW i \in 1..Len(tasks), tasks[i].fn = "response", tasks[i].id = sessionOf[s].reqID
        PROVE  said'[sessionOf[s].rawRequest] = tasks[i].resp
    <3>1. said[sessionOf[s].rawRequest] = tasks[i].resp
      BY <2>3 DEF RequestInv, Linked
    <3>2. tasks[i].resp # None
      <4>1. tasks[i] \in RequestMessage
        BY DEF RequestInv, RequestTypes
      <4>. QED
        BY <2>3, <4>1 DEF RequestMessage, NoneIsNone, Resp
    <3>. QED
      BY <1>1, <1>5, <2>1, <3>1, <3>2
  <2>4. d.id = sessionOf[s].reqID => said'[sessionOf[s].rawRequest] = resp
    BY <1>5, <2>2
  <2>. QED
    BY <1>2, <1>3, <2>2, <2>3, <2>4
<1>11. Ids'
  BY <1>1, <1>2, <1>3 DEF RequestInv, Ids
<1>12. \A q \in Request : \A a : given(q, a) => given(q, a)'
  BY <1>1, <1>5 DEF given
<1>13. Handled' /\ Stored'
  BY <1>2, <1>12 DEF RequestInv, Handled, Stored, RequestTypes
<1>14. OnItsWay'
  <2> SUFFICES ASSUME raced = {} PROVE OnItsWay'
    BY <1>2 DEF OnItsWay
  <2>1. \A t \in threads : t.r # None => t.r \in Request
    BY DEF RequestInv, RequestTypes
  <2>2. \A i \in 1..Len(tasks) : tasks[i].fn = "inform" => tasks[i].r \in Request
    BY DEF RequestInv, RequestTypes, RequestMessage
  <2>3. ASSUME NEW i \in 1..Len(tasks'), tasks'[i].fn = "inform"
        PROVE  tasks'[i].resp = "noResponse"
               \/ (tasks'[i].resp # None /\ said'[tasks'[i].r] = tasks'[i].resp)
    <3>1. i \in 1..Len(tasks) /\ tasks'[i] = tasks[i] /\ tasks[i].fn = "inform"
      BY <1>2, <1>3, <2>3
    <3>2. tasks[i].resp = "noResponse" \/ given(tasks[i].r, tasks[i].resp)
      BY <3>1 DEF RequestInv, OnItsWay
    <3>. QED
      BY <1>12, <2>2, <3>1, <3>2 DEF given
  <2>4. \A t \in threads : t.r # None => t.resp = "noResponse" \/ given(t.r, t.resp)'
    BY <1>12, <2>1 DEF RequestInv, OnItsWay
  <2>5. \A e \in shown' : \A i \in 1..Len(told[e.r]) : told[e.r][i] = "noResponse"
    BY <1>2 DEF RequestInv, OnItsWay
  <2>6. \A r \in Request : \A i \in 1..Len(told[r]) :
          said'[r] # None => told[r][i] \in {said'[r], "noResponse"}
    BY <1>5 DEF RequestInv, OnItsWay
  <2>. QED
    BY <1>2, <2>3, <2>4, <2>5, <2>6 DEF OnItsWay, given
<1>. QED
  BY <1>6, <1>7, <1>8, <1>9, <1>10, <1>11, <1>13, <1>14 DEF RequestInv

LEMMA OtherMessages ==
  ASSUME RequestInv, UNCHANGED <<tasks, proc, sessionOf, reqIDCounter, threads, shown, told,
                           freed, said, raced>>
  PROVE  RequestInv'
<1>1. \A q : (InTasks(q)' <=> InTasks(q)) /\ (HeldOnce(q)' <=> HeldOnce(q))
  BY DEF InTasks, HeldOnce, holds
<1>2. \A q : /\ InSession(q)' <=> InSession(q)
             /\ InThread(q)' <=> InThread(q)
             /\ Over(q)' <=> Over(q)
  BY DEF InSession, InThread, Over
<1>3. RequestTypes' /\ Threads' /\ Linked' /\ Ids'
  BY DEF RequestInv, RequestTypes, Threads, Linked, Ids
<1>4. Apart'
  BY <1>1, <1>2 DEF RequestInv, Apart
<1>5. Shown'
  BY <1>1, <1>2 DEF RequestInv, Shown, Present
<1>6. Handled' /\ Stored' /\ OnItsWay'
  BY DEF RequestInv, Handled, Stored, OnItsWay, given
<1>. QED
  BY <1>3, <1>4, <1>5, <1>6 DEF RequestInv

\* A message that asks or informs is received, and the modem told or not.
LEMMA Consumed ==
  ASSUME RequestInv, NoneIsNone, NEW fn \in {"request", "inform"}, N!receive(fn),
         \/ told' = told /\ fn = "request"
         \/ \E resp \in Resp : /\ told' = [told EXCEPT ![N!here.r] = Append(@, resp)]
                               /\ fn = "inform" => resp = N!here.resp,
         UNCHANGED <<sessionOf, reqIDCounter, threads, shown, freed, said, raced>>
  PROVE  /\ RequestTypes' /\ Apart' /\ Threads' /\ Shown' /\ Linked' /\ Ids' /\ Stored' /\ OnItsWay'
         /\ Handled /\ proc' = proc => Handled'
<1>1. /\ tasks' \in Seq(RequestMessage)
      /\ Len(tasks) \in Nat \ {0} /\ Len(tasks') \in Nat
      /\ \A i \in 1..Len(tasks') : i + 1 \in 1..Len(tasks) /\ tasks'[i] = tasks[i + 1]
      /\ N!here \in RequestMessage /\ N!here = tasks[1] /\ N!here.fn = fn /\ 1 \in 1..Len(tasks)
  BY Receive DEF RequestInv
<1>2. N!here.r \in Request /\ (fn = "inform" => N!here.resp \in Resp)
  BY <1>1 DEF RequestMessage
<1>. PICK q \in Request : q = N!here.r
  BY <1>2
<1>3. q = N!here.r
  OBVIOUS
<1>4. /\ \A p \in Request : HeldOnce(p)
      /\ \A p : HeldOnce(p) => HeldOnce(p)'
      /\ \A p : InTasks(p)' => InTasks(p)
      /\ \A p : InTasks(p) => InTasks(p)' \/ p = q
      /\ InTasks(q) /\ ~InTasks(q)'
  BY <1>3, Received DEF RequestInv, Apart
<1>5. ~InSession(q) /\ ~InThread(q) /\ ~Over(q) /\ Len(told[q]) = 0 /\ told[q] \in Seq(Resp)
  BY <1>4 DEF RequestInv, Apart, Over, RequestTypes
<1>6. /\ told' \in [Request -> Seq(Resp)]
      /\ \A p \in Request : p # q => told'[p] = told[p]
      /\ (told' = told /\ fn = "request") \/ (Len(told'[q]) = 1 /\ (fn = "inform" => told'[q][1] = N!here.resp))
  <2>1. CASE told' = told /\ fn = "request"
    BY <2>1 DEF RequestInv, RequestTypes
  <2>2. ASSUME NEW resp \in Resp, told' = [told EXCEPT ![N!here.r] = Append(@, resp)],
               fn = "inform" => resp = N!here.resp
        PROVE  /\ told' \in [Request -> Seq(Resp)]
               /\ \A p \in Request : p # q => told'[p] = told[p]
               /\ Len(told'[q]) = 1 /\ (fn = "inform" => told'[q][1] = N!here.resp)
    <3>. HIDE DEF Resp
    <3>1. told'[q] = Append(told[q], resp) /\ \A p \in Request : p # q => told'[p] = told[p]
      BY <1>3, <2>2 DEF RequestInv, RequestTypes
    <3>2. Len(told'[q]) = 1 /\ told'[q][1] = resp /\ told'[q] \in Seq(Resp)
      BY <1>5, <3>1
    <3>3. told' \in [Request -> Seq(Resp)]
      BY <1>3, <2>2, <3>1, <3>2 DEF RequestInv, RequestTypes
    <3>. QED
      BY <2>2, <3>1, <3>2, <3>3
  <2>. QED
    BY <2>1, <2>2
<1>7. RequestTypes'
  BY <1>1, <1>6 DEF RequestInv, RequestTypes
<1>8. /\ \A p \in Request : p # q => (Over(p)' <=> Over(p))
      /\ \A p : (InSession(p)' <=> InSession(p)) /\ (InThread(p)' <=> InThread(p))
  BY <1>6 DEF Over, InSession, InThread
<1>9. Apart'
  <2> SUFFICES ASSUME NEW p \in Request
      PROVE (/\ HeldOnce(p)
             /\ InTasks(p) => ~InSession(p) /\ ~InThread(p) /\ ~Over(p)
             /\ InSession(p) => ~InThread(p) /\ ~Over(p)
             /\ InThread(p) => ~Over(p)
             /\ ~(sessionOf["es"].rawRequest = p /\ sessionOf["other"].rawRequest = p)
             /\ \A t, u \in threads : t.r = p /\ u.r = p => t = u
             /\ Len(told[p]) = 0 \/ (Len(told[p]) = 1 /\ p \notin freed))'
    BY DEF Apart
  <2>1. CASE p = q
    BY <1>4, <1>5, <1>6, <1>8, <2>1 DEF RequestInv, Apart, Over
  <2>2. CASE p # q
    BY <1>4, <1>6, <1>8, <2>2 DEF RequestInv, Apart
  <2>. QED
    BY <2>1, <2>2
<1>10. Threads'
  BY DEF RequestInv, Threads
<1>11. Shown'
  <2>1. \A d \in shown : Present(d.r)'
    <3>1. \A d \in shown : d.r \in Request /\ Present(d.r)
      BY DEF RequestInv, Shown, RequestTypes
    <3>2. fn = "request" => \A d \in shown : d.r # q
      BY <1>1, <1>3 DEF RequestInv, Shown
    <3>3. fn = "inform" => Len(told'[q]) = 1
      BY <1>6
    <3>. QED
      BY <1>4, <1>8, <3>1, <3>2, <3>3 DEF Present, Over
  <2>2. \A i \in 1..Len(tasks') : tasks'[i].fn = "request" =>
          said[tasks'[i].r] = None /\ \A d \in shown : d.r # tasks'[i].r
    BY <1>1 DEF RequestInv, Shown
  <2>. QED
    BY <2>1, <2>2 DEF RequestInv, Shown
<1>12. Linked' /\ Ids'
  <2>1. Ids'
    BY <1>1 DEF RequestInv, Ids
  <2>2. ASSUME NEW s \in N!Session, sessionOf[s].rawRequest # None
        PROVE  /\ \A d \in shown : d.id = sessionOf[s].reqID => d.r = sessionOf[s].rawRequest
               /\ \A i \in 1..Len(tasks') :
                    tasks'[i].fn = "response" /\ tasks'[i].id = sessionOf[s].reqID =>
                            said[sessionOf[s].rawRequest] = tasks'[i].resp
    BY <1>1, <2>2 DEF RequestInv, Linked
  <2>. QED
    BY <2>1, <2>2 DEF Linked
<1>13. Stored' /\ (Handled /\ proc' = proc => Handled')
  BY DEF RequestInv, Stored, Handled, given
<1>14. OnItsWay'
  <2> SUFFICES ASSUME raced = {} PROVE OnItsWay'
    BY DEF OnItsWay
  <2>1. \A i \in 1..Len(tasks') : tasks'[i].fn = "inform" =>
          \/ tasks'[i].resp = "noResponse"
          \/ tasks'[i].resp # None /\ said[tasks'[i].r] = tasks'[i].resp
    BY <1>1 DEF RequestInv, OnItsWay, given
  <2>2. fn = "inform" => N!here.resp = "noResponse" \/ (N!here.resp # None /\ said[q] = N!here.resp)
    BY <1>1, <1>3 DEF RequestInv, OnItsWay, given
  <2>3. fn = "request" => said[q] = None /\ \A d \in shown : d.r # q
    BY <1>1, <1>3 DEF RequestInv, Shown
  <2>4. \A d \in shown : said[d.r] = None /\ d.r \in Request
    BY DEF RequestInv, Shown, RequestTypes
  <2>5. \A i \in 1..Len(told'[q]) :
          /\ said[q] # None => told'[q][i] \in {said[q], "noResponse"}
          /\ \A d \in shown : d.r = q => told'[q][i] = "noResponse"
    BY <1>5, <1>6, <2>2, <2>3, <2>4
  <2>6. \A t \in threads : t.r # None => t.resp = "noResponse" \/ given(t.r, t.resp)
    BY DEF RequestInv, OnItsWay
  <2>7. \A d \in shown : \A i \in 1..Len(told'[d.r]) : told'[d.r][i] = "noResponse"
    BY <1>6, <2>4, <2>5 DEF RequestInv, OnItsWay
  <2>8. \A p \in Request : \A i \in 1..Len(told'[p]) :
          said[p] # None => told'[p][i] \in {said[p], "noResponse"}
    BY <1>6, <2>5 DEF RequestInv, OnItsWay
  <2>. QED
    BY <2>1, <2>6, <2>7, <2>8 DEF OnItsWay, given
<1>. QED
  BY <1>7, <1>9, <1>10, <1>11, <1>12, <1>13, <1>14 DEF RequestInv

LEMMA Informs ==
  ASSUME RequestInv, NoneIsNone, N!informAtOnce \/ N!notifyNobody \/ N!inform
  PROVE  RequestInv'
<1>1. CASE N!informAtOnce
  <2>1. N!receive("request") /\ UNCHANGED proc
    BY <1>1 DEF N!informAtOnce
  <2>2. \E resp \in Resp : told' = [told EXCEPT ![N!here.r] = Append(@, resp)]
    BY Zenon, <1>1 DEF N!informAtOnce, N!informed, Resp
  <2>. QED
    BY Zenon, <1>1, <2>1, <2>2, Consumed DEF N!informAtOnce, RequestInv
<1>2. CASE N!notifyNobody
  <2>1. N!receive("request")
    BY <1>2 DEF N!notifyNobody
  <2>2. told' = told \/ told' = [told EXCEPT ![N!here.r] = Append(@, "accept")]
    BY <1>2 DEF N!notifyNobody
  <2>3. Handled'
    BY <1>2, <2>1 DEF N!notifyNobody, RequestInv, Handled, N!idle, N!receive
  <2>. QED
    BY <1>2, <2>1, <2>2, <2>3, Consumed DEF N!notifyNobody, RequestInv, Resp
<1>3. CASE N!inform
  <2>1. N!receive("inform") /\ UNCHANGED proc
    BY <1>3 DEF N!inform
  <2>2. N!here.resp \in Resp
    BY <2>1, Receive DEF RequestInv, RequestMessage
  <2>. QED
    BY Zenon, <1>3, <2>1, <2>2, Consumed DEF N!inform, RequestInv
<1>. QED
  BY <1>1, <1>2, <1>3

\* A request is shown, or freed because another one is pending.
LEMMA Notifies ==
  ASSUME RequestInv, NoneIsNone, N!notify
  PROVE  RequestInv'
<1>1. /\ tasks' \in Seq(RequestMessage)
      /\ Len(tasks) \in Nat \ {0} /\ Len(tasks') \in Nat
      /\ \A i \in 1..Len(tasks') : i + 1 \in 1..Len(tasks) /\ tasks'[i] = tasks[i + 1]
      /\ N!here \in RequestMessage /\ N!here = tasks[1] /\ N!here.fn = "request" /\ 1 \in 1..Len(tasks)
  BY Receive DEF RequestInv, N!notify
<1>2. PICK q \in Request : q = N!here.r
  BY <1>1 DEF RequestMessage
<1>3. PICK s \in N!Session : s = (IF N!here.type = "es" THEN "es" ELSE "other")
  BY DEF N!Session
<1>4. UNCHANGED <<conf, hasCb, proc, told, said, raced>>
  BY DEF N!notify
<1>5. /\ \A p \in Request : HeldOnce(p)
      /\ \A p : HeldOnce(p) => HeldOnce(p)'
      /\ \A p : InTasks(p)' => InTasks(p)
      /\ \A p : InTasks(p) => InTasks(p)' \/ p = q
      /\ InTasks(q) /\ ~InTasks(q)'
  BY <1>2, Received DEF RequestInv, Apart, N!notify
<1>6. ~InSession(q) /\ ~InThread(q) /\ ~Over(q) /\ Len(told[q]) = 0
  BY <1>5 DEF RequestInv, Apart, Over
<1>7. said[q] = None /\ \A d \in shown : d.r # q
  BY <1>1, <1>2 DEF RequestInv, Shown
<1>8. \A i \in 1..Len(tasks') : tasks'[i].fn = "request" => tasks'[i].r # q
  BY <1>5 DEF InTasks, holds
<1>9. Handled'
  BY <1>4 DEF RequestInv, Handled, given
<1>9a. ASSUME raced = {}, NEW i \in 1..Len(tasks'), tasks'[i].fn = "inform"
       PROVE  tasks'[i].resp = "noResponse" \/ given(tasks'[i].r, tasks'[i].resp)
  <2>1. i + 1 \in 1..Len(tasks) /\ tasks'[i] = tasks[i + 1]
    BY <1>1
  <2>. QED
    BY <1>9a, <2>1 DEF RequestInv, OnItsWay
<1>10. CASE N!busy(s)
  <2>1. freed' = freed \cup {q} /\ UNCHANGED <<sessionOf, reqIDCounter, threads, shown>>
    BY <1>2, <1>3, <1>10 DEF N!notify
  <2>2. RequestTypes' /\ Threads'
    BY Zenon, <1>1, <1>4, <2>1 DEF RequestInv, RequestTypes, Threads
  <2>3. /\ \A p \in Request : p # q => (Over(p)' <=> Over(p))
        /\ Over(q)'
        /\ \A p : (InSession(p)' <=> InSession(p)) /\ (InThread(p)' <=> InThread(p))
    BY <1>4, <2>1 DEF Over, InSession, InThread
  <2>4. Apart'
    BY <1>4, <1>5, <1>6, <2>1, <2>3 DEF RequestInv, Apart
  <2>5. Shown'
    <3>1. \A d \in shown : d.r \in Request /\ d.r # q /\ Present(d.r)
      BY <1>7 DEF RequestInv, Shown, RequestTypes
    <3>2. \A d \in shown : Present(d.r)'
      BY <1>5, <2>3, <3>1 DEF Present
    <3>3. \A i \in 1..Len(tasks') : tasks'[i].fn = "request" =>
            said[tasks'[i].r] = None /\ \A d \in shown : d.r # tasks'[i].r
      BY <1>1 DEF RequestInv, Shown
    <3>4. /\ \A d \in shown : said[d.r] = None /\ d.id \in 1..reqIDCounter
          /\ \A d, e \in shown : d.r = e.r => d = e
      BY DEF RequestInv, Shown
    <3>. QED
      BY <1>4, <2>1, <3>2, <3>3, <3>4 DEF Shown
  <2>6. Linked'
    BY <1>1, <1>4, <2>1 DEF RequestInv, Linked
  <2>7. Ids'
    BY Zenon, <1>1, <1>4, <2>1 DEF RequestInv, Ids
  <2>8. Stored'
    BY <1>4, <2>1 DEF RequestInv, Stored, given
  <2>9. OnItsWay'
    BY <1>4, <1>9a, <2>1 DEF RequestInv, OnItsWay, given
  <2>. QED
    BY <1>9, <2>2, <2>4, <2>5, <2>6, <2>7, <2>8, <2>9 DEF RequestInv
<1>11. CASE ~N!busy(s)
  <2>. DEFINE id == reqIDCounter + 1
              new == [session |-> s, id |-> id, step |-> "start", r |-> None, resp |-> None]
              ask == [id |-> id, r |-> q]
  <2>1. /\ sessionOf' = [sessionOf EXCEPT ![s].rawRequest = q, ![s].reqID = id]
        /\ reqIDCounter' = id /\ threads' = threads \cup {new}
        /\ shown' = shown \cup {ask} /\ freed' = freed
    BY <1>2, <1>3, <1>11 DEF N!notify
  <2>2. /\ new.step = "start" /\ new.r = None /\ ask.id = id /\ ask.r = q
        /\ new \in [session : N!Session, id : Nat, step : {"start", "wait", "clear"},
                    r : Request \cup {None}, resp : Resp \cup {None}]
        /\ ask \in [id : Nat, r : Request]
        /\ id \in Nat /\ reqIDCounter \in Nat /\ id = reqIDCounter + 1
    BY DEF RequestInv, RequestTypes
  <2>. HIDE DEF new, ask, id
  <2>3. /\ sessionOf'[s].rawRequest = q /\ sessionOf'[s].reqID = id
        /\ sessionOf'[s].resp = sessionOf[s].resp
        /\ sessionOf'[s].respRecvd = sessionOf[s].respRecvd
        /\ \A z \in N!Session : z # s => sessionOf'[z] = sessionOf[z]
        /\ sessionOf' \in [N!Session -> [rawRequest : Request \cup {None}, reqID : Nat,
                                         resp : Resp \cup {None}, respRecvd : BOOLEAN]]
        /\ sessionOf[s].rawRequest = None
    <3>1. sessionOf[s].rawRequest = None
      BY <1>3, <1>11 DEF N!busy, N!Session
    <3>2. /\ sessionOf'[s] = [sessionOf[s] EXCEPT !.rawRequest = q, !.reqID = id]
          /\ \A z \in N!Session : z # s => sessionOf'[z] = sessionOf[z]
          /\ DOMAIN sessionOf' = N!Session /\ sessionOf' = [z \in N!Session |-> sessionOf'[z]]
      BY Zenon, <2>1 DEF RequestInv, RequestTypes
    <3>3. /\ sessionOf[s] \in [rawRequest : Request \cup {None}, reqID : Nat,
                                  resp : Resp \cup {None}, respRecvd : BOOLEAN]
          /\ sessionOf \in [N!Session -> [rawRequest : Request \cup {None}, reqID : Nat,
                                         resp : Resp \cup {None}, respRecvd : BOOLEAN]]
      BY DEF RequestInv, RequestTypes
    <3>4. /\ sessionOf'[s].rawRequest = q /\ sessionOf'[s].reqID = id
          /\ sessionOf'[s].resp = sessionOf[s].resp
          /\ sessionOf'[s].respRecvd = sessionOf[s].respRecvd
          /\ sessionOf'[s] \in [rawRequest : Request \cup {None}, reqID : Nat,
                                 resp : Resp \cup {None}, respRecvd : BOOLEAN]
      BY Zenon, <2>2, <3>2, <3>3
    <3>. QED
      BY Zenon, <3>1, <3>2, <3>3, <3>4
  <2>4. RequestTypes' /\ Threads'
    <3>1. RequestTypes'
      BY Zenon, <1>1, <1>4, <2>1, <2>2, <2>3 DEF RequestInv, RequestTypes
    <3>2. \A z \in N!Session : sessionOf'[z].respRecvd => sessionOf'[z].resp # None
      BY <2>3 DEF RequestInv, Threads
    <3>3. \A t \in threads' : /\ t.step # "clear" => t.r = None
                              /\ t.r # None => t.resp # None
      BY <2>1, <2>2 DEF RequestInv, Threads
    <3>. QED
      BY <3>1, <3>2, <3>3 DEF Threads
  <2>5. /\ \A p : Over(p)' <=> Over(p)
        /\ \A p \in Request : InThread(p)' <=> InThread(p)
        /\ \A p \in Request : InSession(p)' <=> InSession(p) \/ p = q
    <3>1. \A p \in Request : p # None
      BY DEF NoneIsNone
    <3>. QED
      BY <1>4, <2>1, <2>2, <2>3, <3>1 DEF Over, InSession, InThread
  <2>6. Apart'
    <3>1. \A p \in Request : ~(sessionOf'["es"].rawRequest = p /\ sessionOf'["other"].rawRequest = p)
      BY <1>3, <1>6, <2>3 DEF RequestInv, Apart, InSession, N!Session
    <3>2. \A p \in Request : \A t, u \in threads' : t.r = p /\ u.r = p => t = u
      BY <2>1, <2>2 DEF RequestInv, Apart, NoneIsNone
    <3>. QED
      BY Zenon, <1>4, <1>5, <1>6, <2>1, <2>5, <3>1, <3>2 DEF RequestInv, Apart
  <2>7. Shown'
    <3>1. \A d \in shown : d.r \in Request /\ d.r # q /\ Present(d.r) /\ d.id \in 1..reqIDCounter
                           /\ said[d.r] = None
      BY <1>7 DEF RequestInv, Shown, RequestTypes
    <3>2. \A d \in shown' : Present(d.r)'
      BY <1>5, <2>1, <2>2, <2>5, <3>1 DEF Present
    <3>3. \A d \in shown' : said[d.r] = None /\ d.id \in 1..id
      BY <1>7, <2>1, <2>2, <3>1
    <3>4. \A d, e \in shown' : d.r = e.r => d = e
      BY <1>7, <2>1, <2>2 DEF RequestInv, Shown
    <3>5. \A i \in 1..Len(tasks') : tasks'[i].fn = "request" =>
            said[tasks'[i].r] = None /\ \A d \in shown' : d.r # tasks'[i].r
      BY <1>1, <1>8, <2>1, <2>2 DEF RequestInv, Shown
    <3>. QED
      BY <1>4, <2>1, <3>2, <3>3, <3>4, <3>5 DEF Shown
  <2>8. Ids'
    <3>1. \A z \in N!Session : sessionOf'[z].reqID <= id
      <4>1. \A z \in N!Session : sessionOf[z].reqID \in Nat /\ sessionOf[z].reqID <= reqIDCounter
        BY DEF RequestInv, Ids, RequestTypes
      <4>. QED
        BY <2>2, <2>3, <4>1
    <3>2. \A i \in 1..Len(tasks) : tasks[i].fn = "response" => tasks[i].id \in 1..id
      BY <2>2 DEF RequestInv, Ids
    <3>. QED
      BY Zenon, <1>1, <2>1, <3>1, <3>2 DEF Ids
  <2>9. Linked'
    <3> SUFFICES ASSUME NEW z \in N!Session, sessionOf'[z].rawRequest # None
                 PROVE  /\ \A d \in shown' :
                               d.id = sessionOf'[z].reqID => d.r = sessionOf'[z].rawRequest
                        /\ \A i \in 1..Len(tasks') :
                               tasks'[i].fn = "response" /\ tasks'[i].id = sessionOf'[z].reqID =>
                                 said[sessionOf'[z].rawRequest] = tasks'[i].resp
      BY <1>4 DEF Linked
    <3>1. /\ \A d \in shown : d.id # id
          /\ \A i \in 1..Len(tasks') : tasks'[i].fn = "response" => tasks'[i].id # id
      <4>1. /\ \A d \in shown : d.id \in 1..reqIDCounter
            /\ \A i \in 1..Len(tasks) : tasks[i].fn = "response" => tasks[i].id \in 1..reqIDCounter
        BY DEF RequestInv, Shown, Ids
      <4>2. id \notin 1..reqIDCounter
        BY <2>2
      <4>. QED
        BY <1>1, <4>1, <4>2
    <3>2. CASE z = s
      BY <2>1, <2>2, <2>3, <3>1, <3>2
    <3>3. CASE z # s
      <4>1. sessionOf'[z] = sessionOf[z] /\ sessionOf[z].reqID # id
        BY <2>2, <2>3, <3>3 DEF RequestInv, Ids, RequestTypes
      <4>. QED
        <5>1. /\ \A d \in shown : d.id = sessionOf[z].reqID => d.r = sessionOf[z].rawRequest
              /\ \A i \in 1..Len(tasks) :
                   tasks[i].fn = "response" /\ tasks[i].id = sessionOf[z].reqID =>
                     said[sessionOf[z].rawRequest] = tasks[i].resp
          BY <4>1 DEF RequestInv, Linked
        <5>2. \A d \in shown' :
                d.id = sessionOf'[z].reqID => d.r = sessionOf'[z].rawRequest
          BY Zenon, <2>1, <2>2, <4>1, <5>1
        <5>3. \A i \in 1..Len(tasks') :
                tasks'[i].fn = "response" /\ tasks'[i].id = sessionOf'[z].reqID =>
                  said[sessionOf'[z].rawRequest] = tasks'[i].resp
          BY <1>1, <4>1, <5>1
        <5>. QED
          BY <5>2, <5>3
    <3>. QED
      BY <3>2, <3>3
  <2>10. Stored'
    BY <1>4, <2>3 DEF RequestInv, Stored, given
  <2>11. OnItsWay'
    <3> SUFFICES ASSUME raced = {} PROVE OnItsWay'
      BY <1>4 DEF OnItsWay
    <3>1. \A t \in threads' : t.r # None => t.resp = "noResponse" \/ given(t.r, t.resp)
      BY <2>1, <2>2 DEF RequestInv, OnItsWay
    <3>2. \A i \in 1..Len(tasks') : tasks'[i].fn = "inform" =>
            tasks'[i].resp = "noResponse"
            \/ (tasks'[i].resp # None /\ said[tasks'[i].r] = tasks'[i].resp)
      BY <1>1 DEF RequestInv, OnItsWay, given
    <3>3. \A d \in shown' : \A i \in 1..Len(told[d.r]) : told[d.r][i] = "noResponse"
      BY <1>6, <2>1, <2>2 DEF RequestInv, OnItsWay
    <3>4. \A r \in Request : \A i \in 1..Len(told[r]) :
            said[r] # None => told[r][i] \in {said[r], "noResponse"}
      BY DEF RequestInv, OnItsWay
    <3>. QED
      BY <1>4, <3>1, <3>2, <3>3, <3>4 DEF OnItsWay, given
  <2>. QED
    BY <1>9, <2>4, <2>6, <2>7, <2>8, <2>9, <2>10, <2>11 DEF RequestInv
<1>. QED
  BY <1>10, <1>11

\* The user's answer is received, and its request looked up by the id.
LEMMA Responds ==
  ASSUME RequestInv, NoneIsNone, N!MsgGnssNiResponse
  PROVE  RequestInv'
<1>1. /\ tasks' \in Seq(RequestMessage)
      /\ Len(tasks) \in Nat \ {0} /\ Len(tasks') \in Nat
      /\ \A i \in 1..Len(tasks') : i + 1 \in 1..Len(tasks) /\ tasks'[i] = tasks[i + 1]
      /\ N!here \in RequestMessage /\ N!here = tasks[1] /\ N!here.fn = "response" /\ 1 \in 1..Len(tasks)
  BY Receive DEF RequestInv, N!MsgGnssNiResponse
<1>2. N!here.resp \in {"accept", "deny"}
  BY <1>1 DEF RequestMessage
<1>3. UNCHANGED <<sessionOf, reqIDCounter, threads, shown, told, freed, said, raced>>
  BY DEF N!MsgGnssNiResponse
<1>4. \A q : (InTasks(q)' <=> InTasks(q)) /\ (HeldOnce(q) => HeldOnce(q)')
  BY Received DEF RequestInv, N!MsgGnssNiResponse
<1>5. \A q : /\ InSession(q)' <=> InSession(q)
             /\ InThread(q)' <=> InThread(q)
             /\ Over(q)' <=> Over(q)
  BY <1>3 DEF InSession, InThread, Over
<1>6. RequestTypes' /\ Threads' /\ Ids'
  BY <1>1, <1>3 DEF RequestInv, RequestTypes, Threads, Ids
<1>7. Apart'
  BY <1>3, <1>4, <1>5 DEF RequestInv, Apart
<1>8. Shown'
  <2>1. \A d \in shown : Present(d.r)'
    BY <1>4, <1>5 DEF RequestInv, Shown, Present
  <2>2. \A i \in 1..Len(tasks') : tasks'[i].fn = "request" =>
          said[tasks'[i].r] = None /\ \A d \in shown : d.r # tasks'[i].r
    BY <1>1 DEF RequestInv, Shown
  <2>. QED
    BY <1>3, <2>1, <2>2 DEF RequestInv, Shown
<1>9. Linked'
  <2>1. ASSUME NEW s \in N!Session, sessionOf[s].rawRequest # None
        PROVE  /\ \A d \in shown : d.id = sessionOf[s].reqID => d.r = sessionOf[s].rawRequest
               /\ \A i \in 1..Len(tasks') :
                    tasks'[i].fn = "response" /\ tasks'[i].id = sessionOf[s].reqID =>
                            said[sessionOf[s].rawRequest] = tasks'[i].resp
    BY <1>1, <2>1 DEF RequestInv, Linked
  <2>. QED
    BY <1>3, <2>1 DEF Linked
<1>10. Handled'
  <2>. DEFINE active(z) == sessionOf[z].reqID = N!here.id /\ sessionOf[z].rawRequest # None
  <2>1. CASE proc' = N!idle
    BY <2>1 DEF Handled
  <2>2. CASE proc' # N!idle
    <3>1. PICK s \in N!Session : /\ s = (IF active("es") THEN "es" ELSE "other") /\ active(s)
      BY <2>2 DEF N!MsgGnssNiResponse, N!Session
    <3>2. /\ proc' = [step |-> IF /\ s = "es" /\ N!here.resp = "accept"
                                  /\ sessionOf["other"].rawRequest # None
                               THEN "ignore" ELSE "store",
                      session |-> s, resp |-> N!here.resp, r |-> sessionOf[s].rawRequest]
      BY <2>2, <3>1 DEF N!MsgGnssNiResponse
    <3>3. sessionOf[s].rawRequest \in Request
      BY <3>1 DEF RequestInv, RequestTypes
    <3>4. said[sessionOf[s].rawRequest] = N!here.resp
      BY <1>1, <3>1 DEF RequestInv, Linked
    <3>5. N!here.resp # None
      BY <1>2 DEF NoneIsNone, Resp
    <3>. QED
      BY <1>2, <1>3, <3>2, <3>3, <3>4, <3>5 DEF Handled, given
  <2>. QED
    BY <2>1, <2>2
<1>11. Stored'
  BY <1>3 DEF RequestInv, Stored, given
<1>12. OnItsWay'
  <2> SUFFICES ASSUME raced = {} PROVE OnItsWay'
    BY <1>3 DEF OnItsWay
  <2>1. \A i \in 1..Len(tasks') : tasks'[i].fn = "inform" =>
          tasks'[i].resp = "noResponse"
          \/ (tasks'[i].resp # None /\ said[tasks'[i].r] = tasks'[i].resp)
    BY <1>1 DEF RequestInv, OnItsWay, given
  <2>. QED
    BY <1>3, <2>1 DEF RequestInv, OnItsWay, given
<1>. QED
  BY <1>6, <1>7, <1>8, <1>9, <1>10, <1>11, <1>12 DEF RequestInv

\* An answer is stored in a session, or the session ignored.
LEMMA Stores ==
  ASSUME RequestInv, NoneIsNone, N!ignoreOther \/ N!store
  PROVE  RequestInv'
<1>1. UNCHANGED <<tasks, reqIDCounter, threads, shown, told, freed, said>>
  BY DEF N!ignoreOther, N!store
<1>2. PICK z \in N!Session, a \in Resp :
        /\ sessionOf' = [sessionOf EXCEPT ![z].resp = a, ![z].respRecvd = TRUE]
        /\ raced' = {} => /\ raced = {} /\ sessionOf[z].rawRequest # None
                          /\ a = "ignore" \/ given(sessionOf[z].rawRequest, a)
        /\ raced' \subseteq N!Session
  <2>1. CASE N!ignoreOther
    <3>1. "other" \in N!Session /\ "ignore" \in Resp
      BY DEF N!Session, Resp
    <3>2. /\ sessionOf' = [sessionOf EXCEPT !["other"].resp = "ignore", !["other"].respRecvd = TRUE]
          /\ raced' = IF sessionOf["other"].rawRequest = None THEN raced \cup {"other"} ELSE raced
      BY <2>1 DEF N!ignoreOther
    <3>. QED
      BY Zenon, <3>1, <3>2 DEF RequestInv, RequestTypes
  <2>2. CASE N!store
    <3>1. proc.step = "store"
      BY <2>2 DEF N!store
    <3>2. proc.session \in N!Session /\ proc.resp \in Resp /\ proc.r \in Request
          /\ given(proc.r, proc.resp)
      BY <3>1 DEF RequestInv, Handled, N!idle, Resp
    <3>3. /\ sessionOf' = [sessionOf EXCEPT ![proc.session].resp = proc.resp,
                                            ![proc.session].respRecvd = TRUE]
          /\ raced' = IF sessionOf[proc.session].rawRequest # proc.r
                      THEN raced \cup {proc.session} ELSE raced
      BY <2>2 DEF N!store
    <3>4. proc.r # None
      BY <3>2 DEF NoneIsNone
    <3>. QED
      BY Zenon, <3>2, <3>3, <3>4 DEF RequestInv, RequestTypes
  <2>. QED
    BY Zenon, <2>1, <2>2
<1>3. /\ \A s \in N!Session : /\ sessionOf'[s].rawRequest = sessionOf[s].rawRequest
                              /\ sessionOf'[s].reqID = sessionOf[s].reqID
      /\ \A s \in N!Session : s # z => sessionOf'[s] = sessionOf[s]
      /\ sessionOf'[z].resp = a
      /\ sessionOf' \in [N!Session -> [rawRequest : Request \cup {None}, reqID : Nat,
                                       resp : Resp \cup {None}, respRecvd : BOOLEAN]]
  <2>1. /\ sessionOf'[z] = [sessionOf[z] EXCEPT !.resp = a, !.respRecvd = TRUE]
        /\ \A s \in N!Session : s # z => sessionOf'[s] = sessionOf[s]
        /\ DOMAIN sessionOf' = N!Session /\ sessionOf' = [s \in N!Session |-> sessionOf'[s]]
    BY Zenon, <1>2 DEF RequestInv, RequestTypes
  <2>2. \A s \in N!Session : sessionOf[s] \in [rawRequest : Request \cup {None}, reqID : Nat,
                                              resp : Resp \cup {None}, respRecvd : BOOLEAN]
    BY DEF RequestInv, RequestTypes
  <2>3. /\ sessionOf'[z].rawRequest = sessionOf[z].rawRequest
        /\ sessionOf'[z].reqID = sessionOf[z].reqID
        /\ sessionOf'[z].resp = a
        /\ sessionOf'[z] \in [rawRequest : Request \cup {None}, reqID : Nat,
                              resp : Resp \cup {None}, respRecvd : BOOLEAN]
    BY Zenon, <2>1, <2>2
  <2>. DEFINE record == [rawRequest : Request \cup {None}, reqID : Nat,
                        resp : Resp \cup {None}, respRecvd : BOOLEAN]
  <2>4. \A s \in N!Session : sessionOf'[s] \in record
    BY Zenon, <2>1, <2>2, <2>3
  <2>5. sessionOf' \in [N!Session -> record]
    <3>. HIDE DEF record
    <3>. QED
      BY <2>1, <2>4
  <2>. QED
    BY Zenon, <2>1, <2>3, <2>5
<1>4. \A q : (InTasks(q)' <=> InTasks(q)) /\ (HeldOnce(q)' <=> HeldOnce(q))
  BY <1>1 DEF InTasks, HeldOnce, holds
<1>5. \A q : /\ InSession(q)' <=> InSession(q)
             /\ InThread(q)' <=> InThread(q)
             /\ Over(q)' <=> Over(q)
  BY <1>1, <1>3 DEF InSession, InThread, Over
<1>6. RequestTypes' /\ Threads'
  <2>1. RequestTypes'
    BY Zenon, <1>1, <1>2, <1>3 DEF RequestInv, RequestTypes
  <2>2. \A s \in N!Session : sessionOf'[s].respRecvd => sessionOf'[s].resp # None
    BY <1>2, <1>3 DEF RequestInv, Threads, NoneIsNone
  <2>. QED
    BY <1>1, <2>1, <2>2 DEF RequestInv, Threads
<1>7. Apart'
  BY <1>1, <1>3, <1>4, <1>5 DEF RequestInv, Apart, N!Session
<1>8. Shown'
  BY <1>1, <1>4, <1>5 DEF RequestInv, Shown, Present
<1>9. Linked'
  BY <1>1, <1>3 DEF RequestInv, Linked
<1>10. Ids'
  BY <1>1, <1>3 DEF RequestInv, Ids
<1>11. Handled'
  <2>1. CASE proc' = N!idle
    BY <2>1 DEF Handled
  <2>2. CASE proc' # N!idle
    <3>1. proc.step = "ignore" /\ proc.session # None /\ proc' = [proc EXCEPT !.step = "store"]
      BY <2>2 DEF N!ignoreOther, N!store
    <3>2. /\ proc \in [step : {"ignore", "store"}, session : N!Session,
                       resp : {"accept", "deny"}, r : Request]
          /\ given(proc.r, proc.resp)
      BY <3>1 DEF RequestInv, Handled, N!idle
    <3>. QED
      BY <1>1, <3>1, <3>2 DEF Handled, given
  <2>. QED
    BY <2>1, <2>2
<1>12. Stored'
  <2> SUFFICES ASSUME raced' = {}, NEW s \in N!Session, sessionOf'[s].respRecvd
               PROVE  /\ sessionOf[s].rawRequest # None
                      /\ \/ sessionOf'[s].resp = "ignore"
                         \/ given(sessionOf[s].rawRequest, sessionOf'[s].resp)
    BY <1>1, <1>3 DEF Stored, given
  <2>. QED
    BY <1>2, <1>3 DEF RequestInv, Stored
<1>13. OnItsWay'
  BY <1>1, <1>2 DEF RequestInv, OnItsWay, given
<1>. QED
  BY <1>6, <1>7, <1>8, <1>9, <1>10, <1>11, <1>12, <1>13 DEF RequestInv

------------------------------------------------------------------------------
(* The threads.                                                            *)

LEMMA ThreadWaits ==
  ASSUME RequestInv, NoneIsNone, NEW t \in threads, N!waits(t)
  PROVE  RequestInv'
<1>. DEFINE w == [t EXCEPT !.step = "wait"]
<1>1. /\ t \in [session : N!Session, id : Nat, step : {"start", "wait", "clear"},
                r : Request \cup {None}, resp : Resp \cup {None}]
      /\ t.step = "start"
  BY DEF N!waits, RequestInv, RequestTypes
<1>2. /\ t.r = None /\ w.r = None /\ w.step = "wait"
      /\ w \in [session : N!Session, id : Nat, step : {"start", "wait", "clear"},
                  r : Request \cup {None}, resp : Resp \cup {None}]
  BY <1>1 DEF RequestInv, Threads
<1>3. /\ threads' = (threads \ {t}) \cup {w}
      /\ UNCHANGED <<tasks, proc, sessionOf, reqIDCounter, shown, told, freed, said, raced>>
  BY DEF N!waits, N!moves
<1>. HIDE DEF w
<1>4. \A q : (InTasks(q)' <=> InTasks(q)) /\ (HeldOnce(q)' <=> HeldOnce(q))
  BY <1>3 DEF InTasks, HeldOnce, holds
<1>5. \A q \in Request : /\ InSession(q)' <=> InSession(q)
                         /\ InThread(q)' <=> InThread(q)
                         /\ Over(q)' <=> Over(q)
  <2>1. \A q \in Request : q # None
    BY DEF NoneIsNone
  <2>. QED
    BY <1>2, <1>3, <2>1 DEF InSession, InThread, Over
<1>6. RequestTypes' /\ Threads'
  BY Zenon, <1>2, <1>3 DEF RequestInv, RequestTypes, Threads
<1>7. Apart'
  <2>1. \A q \in Request : \A u, v \in threads' : u.r = q /\ v.r = q => u = v
    BY <1>2, <1>3 DEF RequestInv, Apart, NoneIsNone
  <2>. QED
    BY <1>3, <1>4, <1>5, <2>1 DEF RequestInv, Apart
<1>8. Shown'
  <2>1. \A d \in shown : Present(d.r)'
    BY <1>4, <1>5 DEF RequestInv, Shown, Present, RequestTypes
  <2>. QED
    BY <1>3, <2>1 DEF RequestInv, Shown
<1>9. Linked' /\ Ids' /\ Handled' /\ Stored'
  BY <1>3 DEF RequestInv, Linked, Ids, Handled, Stored, given
<1>10. OnItsWay'
  BY <1>2, <1>3 DEF RequestInv, OnItsWay, given
<1>. QED
  BY <1>6, <1>7, <1>8, <1>9, <1>10 DEF RequestInv

\* A thread takes the request out of its session, with the answer or none.
LEMMA Ends ==
  ASSUME RequestInv, NoneIsNone, NEW t \in threads, N!answered(t) \/ N!timedOut(t)
  PROVE  RequestInv'
<1>1. /\ t \in [session : N!Session, id : Nat, step : {"start", "wait", "clear"},
                r : Request \cup {None}, resp : Resp \cup {None}]
      /\ t.step # "clear"
  BY DEF N!answered, N!timedOut, RequestInv, RequestTypes
<1>2. PICK s \in N!Session : s = t.session
  BY <1>1
<1>3. sessionOf[s] \in [rawRequest : Request \cup {None}, reqID : Nat,
                        resp : Resp \cup {None}, respRecvd : BOOLEAN]
  BY DEF RequestInv, RequestTypes
<1>4. PICK a \in Resp :
        /\ N!ends(t, a)
        /\ raced = {} => \/ a = "noResponse" \/ a = "ignore"
                         \/ given(sessionOf[s].rawRequest, a)
  <2>1. CASE N!answered(t)
    BY <1>2, <1>3, <2>1 DEF N!answered, RequestInv, Threads, Stored
  <2>2. CASE N!timedOut(t)
    BY <2>2 DEF N!timedOut, Resp
  <2>. QED
    BY <2>1, <2>2
<1>5. PICK q \in Request \cup {None} : q = sessionOf[s].rawRequest
  BY <1>3
<1>. DEFINE send == q # None /\ a # "ignore"
            e == [t EXCEPT !.step = "clear", !.resp = a, !.r = IF send THEN q ELSE None]
<1>6. /\ sessionOf' = [sessionOf EXCEPT ![s] = N!taken(@, a)]
      /\ freed' = IF a = "ignore" /\ q # None THEN freed \cup {q} ELSE freed
      /\ threads' = (threads \ {t}) \cup {e}
      /\ UNCHANGED <<tasks, proc, reqIDCounter, shown, told, said, raced>>
  BY <1>2, <1>4, <1>5 DEF N!ends
<1>7. /\ e \in [session : N!Session, id : Nat, step : {"start", "wait", "clear"},
                r : Request \cup {None}, resp : Resp \cup {None}]
      /\ e.step = "clear" /\ e.resp = a /\ e.r = IF send THEN q ELSE None
  BY Zenon, <1>1
<1>8. t.r = None
  BY <1>1 DEF RequestInv, Threads
<1>. HIDE DEF e
<1>9. /\ sessionOf'[s].rawRequest = None /\ sessionOf'[s].respRecvd = FALSE
      /\ sessionOf'[s].reqID = sessionOf[s].reqID
      /\ \A z \in N!Session : z # s => sessionOf'[z] = sessionOf[z]
      /\ sessionOf' \in [N!Session -> [rawRequest : Request \cup {None}, reqID : Nat,
                                       resp : Resp \cup {None}, respRecvd : BOOLEAN]]
  <2>1. /\ sessionOf'[s] = N!taken(sessionOf[s], a)
        /\ \A z \in N!Session : z # s => sessionOf'[z] = sessionOf[z]
        /\ DOMAIN sessionOf' = N!Session /\ sessionOf' = [z \in N!Session |-> sessionOf'[z]]
    BY Zenon, <1>6 DEF RequestInv, RequestTypes
  <2>2. /\ sessionOf'[s].rawRequest = None /\ sessionOf'[s].respRecvd = FALSE
        /\ sessionOf'[s].reqID = sessionOf[s].reqID
        /\ sessionOf'[s] \in [rawRequest : Request \cup {None}, reqID : Nat,
                                resp : Resp \cup {None}, respRecvd : BOOLEAN]
    BY Zenon, <1>3, <2>1 DEF N!taken
  <2>. QED
    BY Zenon, <2>1, <2>2 DEF RequestInv, RequestTypes
<1>10. \A p : (InTasks(p)' <=> InTasks(p)) /\ (HeldOnce(p)' <=> HeldOnce(p))
  BY <1>6 DEF InTasks, HeldOnce, holds
<1>11. \A p \in Request : p # None
  BY DEF NoneIsNone
<1>12. q # None => InSession(q) /\ q \in Request
  BY <1>5 DEF InSession
<1>13. \A p \in Request :
         /\ p # q => /\ InSession(p)' <=> InSession(p)
                     /\ InThread(p)' <=> InThread(p)
                     /\ Over(p)' <=> Over(p)
         /\ p = q => /\ ~InSession(p)'
                     /\ send => InThread(p)' /\ (Over(p)' <=> Over(p))
                     /\ ~send => Over(p)' /\ (InThread(p)' <=> InThread(p))
  <2>1. \A p \in Request : p # q => (InSession(p)' <=> InSession(p))
    BY <1>5, <1>9, <1>11 DEF InSession
  <2>2. \A p \in Request : p = q => ~InSession(p)'
    BY <1>2, <1>5, <1>9, <1>11 DEF InSession, RequestInv, Apart, N!Session
  <2>3. \A p \in Request : (p # q \/ ~send) => (InThread(p)' <=> InThread(p))
    BY <1>6, <1>7, <1>8, <1>11 DEF InThread
  <2>4. \A p \in Request : p = q /\ send => InThread(p)'
    BY <1>6, <1>7 DEF InThread
  <2>5. \A p \in Request : (p # q \/ send) => (Over(p)' <=> Over(p))
    BY <1>6, <1>11 DEF Over
  <2>6. \A p \in Request : p = q /\ ~send => Over(p)'
    BY <1>6, <1>11 DEF Over
  <2>. QED
    BY <2>1, <2>2, <2>3, <2>4, <2>5, <2>6
<1>14. RequestTypes' /\ Threads'
  <2>1. RequestTypes'
    BY <1>5, <1>6, <1>7, <1>9 DEF RequestInv, RequestTypes
  <2>2. \A z \in N!Session : sessionOf'[z].respRecvd => sessionOf'[z].resp # None
    BY <1>9 DEF RequestInv, Threads
  <2>3. \A u \in threads' : /\ u.step # "clear" => u.r = None
                            /\ u.r # None => u.resp # None
    BY <1>6, <1>7 DEF RequestInv, Threads, NoneIsNone
  <2>. QED
    BY <2>1, <2>2, <2>3 DEF Threads
<1>15. Apart'
  <2>1. \A p \in Request : ~(sessionOf'["es"].rawRequest = p /\ sessionOf'["other"].rawRequest = p)
    BY <1>9, <1>11 DEF RequestInv, Apart, N!Session
  <2>2. \A p \in Request : \A u, v \in threads' : u.r = p /\ v.r = p => u = v
    BY <1>6, <1>7, <1>11, <1>12 DEF RequestInv, Apart, InThread
  <2>3. \A p \in Request : p = q => ~InTasks(p) /\ ~InThread(p) /\ ~Over(p) /\ Len(told[p]) = 0
    BY <1>11, <1>12 DEF RequestInv, Apart, Over
  <2>4. \A p \in Request : Len(told[p]) = 0 \/ (Len(told[p]) = 1 /\ p \notin freed')
    BY <1>6, <2>3 DEF RequestInv, Apart
  <2>5. \A p \in Request : p # q =>
          /\ HeldOnce(p)'
          /\ InTasks(p)' => ~InSession(p)' /\ ~InThread(p)' /\ ~Over(p)'
          /\ InSession(p)' => ~InThread(p)' /\ ~Over(p)'
          /\ InThread(p)' => ~Over(p)'
    BY <1>10, <1>13 DEF RequestInv, Apart
  <2>6. \A p \in Request : p = q =>
          /\ HeldOnce(p)'
          /\ InTasks(p)' => ~InSession(p)' /\ ~InThread(p)' /\ ~Over(p)'
          /\ InSession(p)' => ~InThread(p)' /\ ~Over(p)'
          /\ InThread(p)' => ~Over(p)'
    BY <1>10, <1>13, <2>3 DEF RequestInv, Apart
  <2>. QED
    BY <1>6, <2>1, <2>2, <2>4, <2>5, <2>6 DEF Apart
<1>16. Shown'
  <2>1. \A d \in shown : Present(d.r)'
    BY <1>10, <1>13 DEF RequestInv, Shown, Present, RequestTypes
  <2>. QED
    BY <1>6, <2>1 DEF RequestInv, Shown
<1>17. Linked'
  <2> SUFFICES ASSUME NEW z \in N!Session, sessionOf'[z].rawRequest # None
               PROVE  /\ \A d \in shown :
                           d.id = sessionOf'[z].reqID => d.r = sessionOf'[z].rawRequest
                      /\ \A i \in 1..Len(tasks) :
                           tasks[i].fn = "response" /\ tasks[i].id = sessionOf'[z].reqID =>
                             said[sessionOf'[z].rawRequest] = tasks[i].resp
    BY <1>6 DEF Linked
  <2>1. sessionOf'[z] = sessionOf[z]
    BY <1>9
  <2>. QED
    BY <2>1 DEF RequestInv, Linked
<1>18. Ids'
  BY <1>6, <1>9 DEF RequestInv, Ids
<1>19. Handled'
  BY <1>6 DEF RequestInv, Handled, given
<1>20. Stored'
  <2> SUFFICES ASSUME raced = {}, NEW z \in N!Session, sessionOf'[z].respRecvd
               PROVE  /\ sessionOf'[z].rawRequest # None
                      /\ \/ sessionOf'[z].resp = "ignore"
                         \/ given(sessionOf'[z].rawRequest, sessionOf'[z].resp)
    BY <1>6 DEF Stored, given
  <2>1. sessionOf'[z] = sessionOf[z]
    BY <1>9
  <2>. QED
    BY <2>1 DEF RequestInv, Stored
<1>21. OnItsWay'
  <2> SUFFICES ASSUME raced = {} PROVE OnItsWay'
    BY <1>6 DEF OnItsWay
  <2>1. e.r # None => e.resp = "noResponse" \/ given(e.r, e.resp)
    BY <1>4, <1>5, <1>7
  <2>2. \A u \in threads' : u.r # None => u.resp = "noResponse" \/ given(u.r, u.resp)
    BY <1>6, <2>1 DEF RequestInv, OnItsWay
  <2>. QED
    BY <1>6, <2>2 DEF RequestInv, OnItsWay, given
<1>. QED
  BY <1>14, <1>15, <1>16, <1>17, <1>18, <1>19, <1>20, <1>21 DEF RequestInv

\* A thread ends: the id is cleared, and the answer posted.
LEMMA Clears ==
  ASSUME RequestInv, NoneIsNone, NEW t \in threads, N!clears(t)
  PROVE  RequestInv'
<1>1. /\ t \in [session : N!Session, id : Nat, step : {"start", "wait", "clear"},
                r : Request \cup {None}, resp : Resp \cup {None}]
  BY DEF RequestInv, RequestTypes
<1>2. /\ threads' = threads \ {t}
      /\ sessionOf' = [sessionOf EXCEPT ![t.session].reqID = 0]
      /\ UNCHANGED <<proc, reqIDCounter, shown, told, freed, said, raced>>
  BY DEF N!clears
<1>3. /\ \A z \in N!Session : /\ sessionOf'[z].rawRequest = sessionOf[z].rawRequest
                              /\ sessionOf'[z].resp = sessionOf[z].resp
                              /\ sessionOf'[z].respRecvd = sessionOf[z].respRecvd
                              /\ sessionOf'[z].reqID \in {sessionOf[z].reqID, 0}
      /\ sessionOf' \in [N!Session -> [rawRequest : Request \cup {None}, reqID : Nat,
                                           resp : Resp \cup {None}, respRecvd : BOOLEAN]]
  <2>1. PICK s \in N!Session : s = t.session
    BY <1>1
  <2>2. /\ sessionOf'[s] = [sessionOf[s] EXCEPT !.reqID = 0]
        /\ \A z \in N!Session : z # s => sessionOf'[z] = sessionOf[z]
        /\ DOMAIN sessionOf' = N!Session /\ sessionOf' = [z \in N!Session |-> sessionOf'[z]]
    BY Zenon, <1>2, <2>1 DEF RequestInv, RequestTypes
  <2>3. sessionOf[s] \in [rawRequest : Request \cup {None}, reqID : Nat,
                            resp : Resp \cup {None}, respRecvd : BOOLEAN]
    BY DEF RequestInv, RequestTypes
  <2>4. /\ sessionOf'[s].rawRequest = sessionOf[s].rawRequest
        /\ sessionOf'[s].resp = sessionOf[s].resp
        /\ sessionOf'[s].respRecvd = sessionOf[s].respRecvd
        /\ sessionOf'[s].reqID = 0
        /\ sessionOf'[s] \in [rawRequest : Request \cup {None}, reqID : Nat,
                              resp : Resp \cup {None}, respRecvd : BOOLEAN]
    BY <2>2, <2>3
  <2>5. \A z \in N!Session : sessionOf[z] \in [rawRequest : Request \cup {None}, reqID : Nat,
                                              resp : Resp \cup {None}, respRecvd : BOOLEAN]
    BY DEF RequestInv, RequestTypes
  <2>6. sessionOf' \in [N!Session -> [rawRequest : Request \cup {None}, reqID : Nat,
                                    resp : Resp \cup {None}, respRecvd : BOOLEAN]]
    BY <2>2, <2>4, <2>5
  <2>. QED
    BY <2>2, <2>4, <2>6
<1>4. \A p \in Request : p # None
  BY DEF NoneIsNone
<1>5. \A p : (InSession(p)' <=> InSession(p)) /\ (Over(p)' <=> Over(p))
  BY <1>2, <1>3 DEF InSession, Over
<1>6. \A p \in Request : /\ p # t.r => (InThread(p)' <=> InThread(p))
                         /\ p = t.r => ~InThread(p)' /\ InThread(p)
  BY <1>2 DEF InThread, RequestInv, Apart
<1>7. /\ tasks' \in Seq(RequestMessage)
      /\ \A i \in 1..Len(tasks') : tasks'[i].fn \in {"request", "response"} =>
           i \in 1..Len(tasks) /\ tasks'[i] = tasks[i]
      /\ \A i \in 1..Len(tasks') : tasks'[i].fn = "inform" =>
           \/ i \in 1..Len(tasks) /\ tasks'[i] = tasks[i]
           \/ tasks'[i].r = t.r /\ t.r # None /\ tasks'[i].resp = t.resp
      /\ \A p \in Request : InTasks(p)' <=> InTasks(p) \/ p = t.r
      /\ \A p \in Request : HeldOnce(p)'
  <2>1. CASE t.r = None
    <3>1. tasks' = tasks
      BY <2>1 DEF N!clears
    <3>2. \A p \in Request : (InTasks(p)' <=> InTasks(p)) /\ HeldOnce(p)'
      BY <3>1 DEF InTasks, HeldOnce, holds, RequestInv, Apart
    <3>. QED
      BY <1>4, <2>1, <3>1, <3>2 DEF RequestInv, RequestTypes
  <2>2. CASE t.r # None
    <3>. DEFINE m == [fn |-> "inform", r |-> t.r, resp |-> t.resp]
    <3>1. tasks' = Append(tasks, m)
      BY <2>2 DEF N!clears
    <3>2. t.resp \in Resp
      BY <1>1, <2>2 DEF RequestInv, Threads
    <3>3. m \in RequestMessage /\ m.fn = "inform" /\ m.r = t.r /\ m.resp = t.resp
      BY <1>1, <2>2, <3>2 DEF RequestMessage
    <3>. HIDE DEF m
    <3>4. /\ tasks' \in Seq(RequestMessage)
          /\ \A i \in 1..Len(tasks) : i \in 1..Len(tasks') /\ tasks'[i] = tasks[i]
          /\ Len(tasks') \in 1..Len(tasks') /\ tasks'[Len(tasks')] = m
          /\ \A i \in 1..Len(tasks') : i = Len(tasks') \/ i \in 1..Len(tasks)
      BY <3>1, <3>3, Post DEF RequestInv
    <3>5. /\ \A p : InTasks(p) => InTasks(p)'
          /\ \A p : InTasks(p)' => InTasks(p) \/ p = t.r
          /\ InTasks(m.r)'
          /\ \A p : HeldOnce(p) /\ (~InTasks(p) \/ p # t.r) => HeldOnce(p)'
      BY <3>1, <3>3, Posted DEF RequestInv
    <3>6. \A p \in Request : p = t.r => ~InTasks(p)
      BY <1>6 DEF RequestInv, Apart
    <3>7. \A p \in Request : p = t.r => InTasks(p)'
      BY <3>3, <3>4 DEF InTasks, holds
    <3>. QED
      BY <2>2, <3>3, <3>4, <3>5, <3>6, <3>7 DEF RequestInv, Apart
  <2>. QED
    BY <2>1, <2>2
<1>8. RequestTypes' /\ Threads'
  BY <1>2, <1>3, <1>7 DEF RequestInv, RequestTypes, Threads
<1>9. Apart'
  <2>1. \A p \in Request : /\ p = t.r => ~InSession(p) /\ ~Over(p) /\ ~InTasks(p)
    BY <1>6 DEF RequestInv, Apart
  <2>. QED
    BY <1>2, <1>3, <1>5, <1>6, <1>7, <2>1 DEF RequestInv, Apart, N!Session
<1>10. Shown'
  <2>1. \A d \in shown : Present(d.r)'
    BY <1>5, <1>6, <1>7 DEF RequestInv, Shown, Present, RequestTypes
  <2>2. \A i \in 1..Len(tasks') : tasks'[i].fn = "request" =>
          said[tasks'[i].r] = None /\ \A d \in shown : d.r # tasks'[i].r
    BY <1>7 DEF RequestInv, Shown
  <2>. QED
    BY <1>2, <2>1, <2>2 DEF RequestInv, Shown
<1>11. Linked'
  <2> SUFFICES ASSUME NEW z \in N!Session, sessionOf[z].rawRequest # None
               PROVE  /\ \A d \in shown :
                           d.id = sessionOf'[z].reqID => d.r = sessionOf[z].rawRequest
                      /\ \A i \in 1..Len(tasks') :
                           tasks'[i].fn = "response" /\ tasks'[i].id = sessionOf'[z].reqID =>
                             said[sessionOf[z].rawRequest] = tasks'[i].resp
    BY <1>2, <1>3 DEF Linked
  <2>1. CASE sessionOf'[z].reqID = 0
    <3>1. \A d \in shown : d.id # 0
      BY DEF RequestInv, Shown
    <3>2. \A i \in 1..Len(tasks) : tasks[i].fn = "response" => tasks[i].id # 0
      BY DEF RequestInv, Ids
    <3>. QED
      BY <1>7, <2>1, <3>1, <3>2
  <2>2. CASE sessionOf'[z].reqID = sessionOf[z].reqID
    BY <1>7, <2>2 DEF RequestInv, Linked
  <2>. QED
    BY <1>3, <2>1, <2>2
<1>12. Ids'
  <2>1. \A z \in N!Session : sessionOf'[z].reqID <= reqIDCounter
    <3>1. reqIDCounter \in Nat /\ 0 <= reqIDCounter
      BY DEF RequestInv, RequestTypes
    <3>. QED
      BY <1>3, <3>1 DEF RequestInv, Ids
  <2>. QED
    BY <1>2, <1>7, <2>1 DEF RequestInv, Ids
<1>13. Handled'
  BY <1>2 DEF RequestInv, Handled, given
<1>14. Stored'
  BY <1>2, <1>3 DEF RequestInv, Stored, given
<1>15. OnItsWay'
  <2> SUFFICES ASSUME raced = {} PROVE OnItsWay'
    BY <1>2 DEF OnItsWay
  <2>1. \A i \in 1..Len(tasks') : tasks'[i].fn = "inform" =>
          tasks'[i].resp = "noResponse"
          \/ (tasks'[i].resp # None /\ said[tasks'[i].r] = tasks'[i].resp)
    BY <1>7 DEF RequestInv, OnItsWay, given
  <2>2. \A u \in threads' : u.r # None => u.resp = "noResponse" \/ given(u.r, u.resp)
    BY <1>2 DEF RequestInv, OnItsWay
  <2>. QED
    BY <1>2, <2>1, <2>2 DEF RequestInv, OnItsWay, given
<1>. QED
  BY <1>8, <1>9, <1>10, <1>11, <1>12, <1>13, <1>14, <1>15 DEF RequestInv

------------------------------------------------------------------------------
(* Every state. *)

LEMMA RequestInit == NoneIsNone /\ N!Init => RequestInv
<1> SUFFICES ASSUME NoneIsNone, N!Init PROVE RequestInv
  OBVIOUS
<1>1. /\ tasks = <<>> /\ Len(tasks) = 0 /\ proc = N!idle /\ threads = {} /\ shown = {}
      /\ reqIDCounter = 0 /\ freed = {} /\ raced = {}
      /\ told = [r \in Request |-> <<>>] /\ said = [r \in Request |-> None]
  BY DEF N!Init
<1>2. \A s \in N!Session : /\ sessionOf[s].rawRequest = None /\ sessionOf[s].reqID = 0
                           /\ sessionOf[s].respRecvd = FALSE
  BY DEF N!Init
<1>3. \A r \in Request : Len(told[r]) = 0 /\ r # None
  BY <1>1 DEF NoneIsNone
<1>4. RequestTypes
  <2>1. tasks \in Seq(RequestMessage)
    BY <1>1
  <2>2. told \in [Request -> Seq(Resp)]
    BY <1>1
  <2>3. sessionOf \in [N!Session -> [rawRequest : Request \cup {None}, reqID : Nat,
                                   resp : Resp \cup {None}, respRecvd : BOOLEAN]]
    BY DEF N!Init
  <2>. QED
    BY <1>1, <2>1, <2>2, <2>3 DEF RequestTypes
<1>5. Apart
  <2>1. "es" \in N!Session /\ "other" \in N!Session
    BY DEF N!Session
  <2>2. \A r \in Request : ~InTasks(r) /\ HeldOnce(r)
    <3>1. \A i \in 1..Len(tasks) : FALSE
      BY <1>1
    <3>. QED
      BY <3>1 DEF InTasks, HeldOnce
  <2>3. \A r \in Request : ~InSession(r) /\ ~InThread(r) /\ Len(told[r]) = 0
                           /\ \A s \in N!Session : sessionOf[s].rawRequest # r
    BY <1>1, <1>2, <1>3 DEF InSession, InThread
  <2>. QED
    BY <1>1, <2>1, <2>2, <2>3 DEF Apart
<1>6. Threads /\ Shown /\ Linked /\ Ids
  BY <1>1, <1>2 DEF Threads, Shown, Linked, Ids
<1>7. Handled /\ Stored
  BY <1>1, <1>2 DEF Handled, Stored
<1>8. OnItsWay
  BY <1>1, <1>3 DEF OnItsWay
<1>. QED
  BY <1>4, <1>5, <1>6, <1>7, <1>8 DEF RequestInv

LEMMA RequestNext == NoneIsNone /\ RequestInv /\ [N!Next]_(N!vars) => RequestInv'
<1> SUFFICES ASSUME NoneIsNone, RequestInv, [N!Next]_(N!vars) PROVE RequestInv'
  OBVIOUS
<1>1. ASSUME NEW r \in Request, NEW type \in N!Types, NEW emergency \in BOOLEAN,
             N!requestNiNotifyEvent(r, type, emergency)
      PROVE  RequestInv'
  BY <1>1, RequestReceived
<1>2. ASSUME NEW d \in shown, NEW resp \in {"accept", "deny"}, N!gnssNiResponse(d, resp)
      PROVE  RequestInv'
  BY <1>2, UserAnswers
<1>3. CASE N!clientGone
  BY <1>3, OtherMessages DEF N!clientGone
<1>4. CASE N!informAtOnce \/ N!notifyNobody \/ N!inform
  BY <1>4, Informs
<1>5. CASE N!notify
  BY <1>5, Notifies
<1>6. CASE N!MsgGnssNiResponse
  BY <1>6, Responds
<1>7. CASE N!ignoreOther \/ N!store
  BY <1>7, Stores
<1>8. ASSUME NEW t \in threads, N!waits(t)
      PROVE  RequestInv'
  BY <1>8, ThreadWaits
<1>9. ASSUME NEW t \in threads, N!answered(t) \/ N!timedOut(t)
      PROVE  RequestInv'
  BY <1>9, Ends
<1>10. ASSUME NEW t \in threads, N!clears(t)
       PROVE  RequestInv'
  BY <1>10, Clears
<1>11. CASE UNCHANGED N!vars
  BY <1>11, OtherMessages DEF N!vars
<1>. QED
  BY <1>1, <1>2, <1>3, <1>4, <1>5, <1>6, <1>7, <1>8, <1>9, <1>10, <1>11 DEF N!Next

LEMMA RequestsEndInv == NoneIsNone /\ RequestInv => N!RequestsEnd
<1> SUFFICES ASSUME NoneIsNone, RequestInv PROVE N!RequestsEnd
  OBVIOUS
<1>1. N!EndsOnce
  <2>1. \A r \in Request : Len(told[r]) = 0 \/ (Len(told[r]) = 1 /\ r \notin freed)
    BY DEF RequestInv, Apart
  <2> SUFFICES ASSUME NEW r \in Request
               PROVE  Len(told[r]) + (IF r \in freed THEN 1 ELSE 0) <= 1
    BY Zenon DEF N!EndsOnce
  <2>2. CASE Len(told[r]) = 0
    BY <2>2
  <2>3. CASE Len(told[r]) = 1 /\ r \notin freed
    BY <2>3
  <2>. QED
    BY Zenon, <2>1, <2>2, <2>3
<1>2. N!UserDecides
  <2>1. \A r \in Request : DOMAIN told[r] = 1..Len(told[r])
    BY DEF RequestInv, RequestTypes
  <2>. QED
    BY <2>1 DEF RequestInv, OnItsWay, N!UserDecides
<1>. QED
  BY <1>1, <1>2 DEF N!RequestsEnd

\* Whatever the user, the timeouts, a client that goes and an emergency request
\* do in whichever order, the data of each request end once, told to the modem
\* or freed; and unless an answer was stored just as its request timed out, the
\* modem is told what the user said of that request, or that nothing was said.
\* The hypothesis: None stands for no request, answer or session.
THEOREM RequestsEndOnce ==
  ASSUME NoneIsNone  PROVE Spec => []RequestsEnd
<1>. DEFINE Inv == part = "ni" => RequestInv
<1>1. Init => Inv
  BY RequestInit DEF Init
<1>2. Inv /\ [Next]_<<part, ni, observer, display, xtra, gnss, batch, reports>> => Inv'
  <2> SUFFICES ASSUME Inv, part' = "ni",
                      [Next]_<<part, ni, observer, display, xtra, gnss, batch, reports>>
               PROVE  RequestInv'
    OBVIOUS
  <2>1. part = "ni" /\ (N!Next \/ UNCHANGED ni)
    BY DEF Next, Ni, Items, Display, Xtra, Gnss, Batch, Reports
  <2>2. UNCHANGED ni => UNCHANGED N!vars
    BY DEF ni, N!vars
  <2>. QED
    BY <2>1, <2>2, RequestNext
<1>3. Inv => RequestsEnd
  BY RequestsEndInv DEF RequestsEnd
<1>. QED
  BY <1>1, <1>2, <1>3, PTL DEF Spec
------------------------------------------------------------------------------
(* The display.  The mode is that of the panel unless a job is between the *)
(* two (Mode); while it is on in a light that turned low, something is     *)
(* still to turn it off: a reading, the main thread, or a job that no      *)
(* cancellation took back (Noticed); with the screen off or the service    *)
(* destroyed that is the deactivation, queued last (Dark, Destroyed).      *)

JobFn == {"activate", "deactivate", "enable", "disable"}
Level == {"low", "mid", "high"}
LightTypes ==
  /\ light \in Level /\ mLastLux \in Level
  /\ {reading, listening, screenOn, created, quick, mTransitionInProgress, mAutoHBMActive, hbm,
           missed, late, died} \subseteq BOOLEAN
  /\ jobs \in Seq(JobFn)
  /\ sensor \in {"idle", "read", "act"}
  /\ job \in {B!idle} \cup [fn : JobFn, step : {"sleep", "look", "ramp", "end"}, cancelled : BOOLEAN]
  /\ mStoredBrightness \in {None, "user", "raised"} /\ brightness \in {"user", "raised"}

\* The sensor is to be given up: a job that waits or runs will.
Deactivates == "deactivate" \in B!ToSet(jobs) \/ job.fn = "deactivate"
\* A transition is what the ramp of a job is in.
Transition == mTransitionInProgress <=> job.fn \in B!Waits /\ job.step = "ramp"

\* The service takes the mode to be what it is, but where a job is between the
\* setting of the panel and of its own variable, or a low reading was lost in a
\* transition (missed).
Mode ==
  /\ mAutoHBMActive => hbm \/ (job.fn = "disable" /\ job.step = "end")
  /\ hbm => mAutoHBMActive \/ missed \/ B!raising
  /\ B!raising => ~mAutoHBMActive
  /\ job.fn = "enable" /\ job.step = "ramp" => hbm
  /\ job.fn = "disable" /\ job.step = "end" => ~hbm

\* The brightness to return to is kept exactly while the mode is on.
Setting == ~died =>
  /\ ~hbm => mStoredBrightness = None /\ brightness = "user"
  /\ hbm => mStoredBrightness = "user"

\* Once the service is destroyed the last job gives up the sensor, and no other
\* turns the mode on.
Destroyed == ~created =>
  /\ IF jobs # <<>> THEN jobs[Len(jobs)] = "deactivate"
     ELSE job.fn = "deactivate" \/ (job.fn # "activate" /\ ~listening)
  /\ "enable" \notin B!ToSet(jobs)
  /\ ~died /\ (hbm \/ job.fn = "enable") => Deactivates

\* With the screen off, too.
Dark == ~(screenOn /\ created) /\ ~late =>
  /\ "enable" \notin B!ToSet(jobs)
  /\ mAutoHBMActive \/ job.fn = "enable" => Deactivates
  /\ hbm => Deactivates \/ missed

\* A sensor that listens has the last level, or is about to be told.
Reads == listening => reading \/ mLastLux = light

\* A mode that is on in low light is noticed: the sensor is still to be told, or
\* to act, or a job that turns the mode off waits or runs.
Noticed ==
  \/ reading \/ Deactivates
  \/ sensor # "idle" /\ mLastLux = "low"
  \/ "disable" \in B!ToSet(jobs)
  \/ job.fn = "disable" /\ (IF job.step = "sleep" THEN ~job.cancelled ELSE job.step # "end")
Follows == hbm /\ light = "low" /\ listening /\ ~missed => Noticed
LightInv == LightTypes /\ Transition /\ Mode /\ Setting /\ Destroyed /\ Dark /\ Reads /\ Follows
------------------------------------------------------------------------------
(* The queue of the executor, as cancellations leave it.                   *)

\* A set of numbers that is not empty has a least one.
LEMMA Least ==
  ASSUME NEW Z \in SUBSET Nat, Z # {}
  PROVE  \E m \in Z : \A n \in Z : m <= n
<1>. DEFINE W == OpToRel(<, Nat)
<1>1. \A x, y \in Nat : <<y, x>> \in W <=> y < x
  BY DEF OpToRel
<1>. HIDE DEF W
<1>2. IsWellFoundedOn(W, Nat)
  BY Zenon, NatLessThanWellFounded DEF W
<1>3. PICK x \in Z : \A y \in Z : ~(<<y, x>> \in W)
  BY Zenon, <1>2, WFMin
<1>4. \A y \in Z : x \in Nat /\ y \in Nat /\ ~(y < x)
  BY Zenon, <1>1, <1>3
<1>. QED
  BY <1>4

\* What is left when the functions fns are taken out of the queue: the others,
\* and the last one is still last.
LEMMA Filtered ==
  ASSUME NEW T, NEW q \in Seq(T), NEW fns
  PROVE  /\ B!without(q, fns) \in Seq(T)
         /\ \A x : x \in B!ToSet(B!without(q, fns)) <=> x \in B!ToSet(q) /\ x \notin fns
         /\ q # <<>> /\ q[Len(q)] \notin fns =>
              /\ B!without(q, fns) # <<>>
              /\ B!without(q, fns)[Len(B!without(q, fns))] = q[Len(q)]
<1>. DEFINE L == Len(q)
            next(v, n) == IF q[n] \in fns THEN v ELSE Append(v, q[n])
            Is(f, m) == f = [n \in 0..m |-> IF n = 0 THEN <<>> ELSE next(f[n - 1], n)]
            Bad == {m \in 0..L : ~\E f : Is(f, m)}
<1>1. L \in Nat /\ \A n \in 1..L : q[n] \in T
  OBVIOUS
<1>2. ASSUME NEW m \in 0..L  PROVE \E f : Is(f, m)
  <2>. SUFFICES ASSUME Bad # {}  PROVE FALSE
    BY Zenon
  <2>1. PICK k \in Bad : \A n \in Bad : k <= n
    <3>1. Bad \in SUBSET Nat
      BY <1>1
    <3>. HIDE DEF Bad
    <3>. QED
      BY <3>1, Least
  <2>2. k # 0
    <3>1. Is([n \in 0..0 |-> <<>>], 0)
      OBVIOUS
    <3>. QED
      BY Zenon, <3>1
  <2>3. k \in 1..L /\ k - 1 \in 0..L /\ k - 1 \notin Bad
    <3>1. k \in 0..L
      OBVIOUS
    <3>. HIDE DEF Bad
    <3>. QED
      BY <1>1, <2>1, <2>2, <3>1
  <2>4. PICK f : Is(f, k - 1)
    BY <2>3
  <2>. DEFINE g == [n \in 0..k |-> IF n = k THEN next(f[k - 1], k) ELSE f[n]]
  <2>5. Is(g, k)
    <3>. HIDE DEF next
    <3>1. \A n \in 0..k : g[n] = IF n = 0 THEN <<>> ELSE next(g[n - 1], n)
      BY <2>2, <2>3, <2>4
    <3>. QED
      BY <3>1
  <2>. QED
    BY Zenon, <2>1, <2>5
<1>. DEFINE kept[n \in 0..L] == IF n = 0 THEN <<>> ELSE next(kept[n - 1], n)
<1>3. Is(kept, L)
  <2>1. \E f : Is(f, L)
    BY <1>1, <1>2
  <2>. QED
    BY Zenon, <2>1
<1>4. B!without(q, fns) = kept[L]
  BY DEF B!without
<1>. HIDE DEF kept
<1>5. kept[0] = <<>> /\ \A n \in 1..L : kept[n] = next(kept[n - 1], n)
  <2>. HIDE DEF next
  <2>1. \A n \in 0..L : kept[n] = IF n = 0 THEN <<>> ELSE next(kept[n - 1], n)
    BY <1>3
  <2>. QED
    BY <1>1, <2>1
<1>. DEFINE Good(n) ==
       /\ kept[n] \in Seq(T)
       /\ \A x : x \in B!ToSet(kept[n]) <=> x \notin fns /\ \E i \in 1..n : q[i] = x
       /\ n # 0 /\ q[n] \notin fns => kept[n] # <<>> /\ kept[n][Len(kept[n])] = q[n]
     Wrong == {n \in 0..L : ~Good(n)}
<1>6. Good(0)
  BY <1>5 DEF B!ToSet
<1>7. ASSUME NEW n \in 1..L, Good(n - 1)  PROVE Good(n)
  <2>1. CASE q[n] \in fns
    <3>1. kept[n] = kept[n - 1]
      BY <1>5, <2>1
    <3>2. \A x : x \notin fns /\ (\E i \in 1..n : q[i] = x) <=> x \notin fns /\ (\E i \in 1..(n - 1) : q[i] = x)
      BY <2>1
    <3>. QED
      BY <1>7, <2>1, <3>1, <3>2
  <2>2. CASE q[n] \notin fns
    <3>. DEFINE p == kept[n - 1]
    <3>1. kept[n] = Append(p, q[n]) /\ q[n] \in T
      BY Zenon, <1>1, <1>5, <2>2
    <3>2. p \in Seq(T) /\ \A x : x \in B!ToSet(p) <=> x \notin fns /\ \E i \in 1..(n - 1) : q[i] = x
      BY <1>7
    <3>. HIDE DEF p
    <3>3. /\ kept[n] \in Seq(T) /\ kept[n] # <<>> /\ kept[n][Len(kept[n])] = q[n]
          /\ \A x : x \in B!ToSet(kept[n]) <=> x \in B!ToSet(p) \/ x = q[n]
      <4>1. /\ Len(p) \in Nat /\ kept[n] \in Seq(T) /\ Len(kept[n]) = Len(p) + 1
            /\ \A i \in 1..Len(p) : kept[n][i] = p[i]
            /\ kept[n][Len(p) + 1] = q[n]
        BY <3>1, <3>2
      <4>2. DOMAIN p = 1..Len(p) /\ DOMAIN kept[n] = 1..(Len(p) + 1)
        BY <3>2, <4>1
      <4>. QED
        BY <4>1, <4>2 DEF B!ToSet
    <3>4. \A x : (\E i \in 1..n : q[i] = x) <=> (\E i \in 1..(n - 1) : q[i] = x) \/ x = q[n]
      OBVIOUS
    <3>. QED
      BY <2>2, <3>2, <3>3, <3>4
  <2>. QED
    BY <2>1, <2>2
<1>8. \A n \in 0..L : Good(n)
  <2>. SUFFICES ASSUME Wrong # {}  PROVE FALSE
    BY Zenon
  <2>. HIDE DEF Good
  <2>1. PICK k \in Wrong : \A n \in Wrong : k <= n
    <3>1. Wrong \in SUBSET Nat
      BY <1>1
    <3>. HIDE DEF Wrong
    <3>. QED
      BY <3>1, Least
  <2>2. k \in 1..L /\ k - 1 \in 0..L /\ k - 1 \notin Wrong
    BY <1>1, <1>6, <2>1
  <2>. QED
    BY <1>7, <2>1, <2>2
<1>9. Good(L)
  <2>1. L \in 0..L
    BY <1>1
  <2>. HIDE DEF Good
  <2>. QED
    BY <1>8, <2>1
<1>10. B!ToSet(q) = {q[i] : i \in 1..L} /\ (q # <<>> => L # 0)
  BY DEF B!ToSet
<1>. QED
  BY <1>4, <1>9, <1>10

\* None is no job and no brightness.
NoSetting == None \notin JobFn \cup {"user", "raised"}

\* A queue with a job more, or without its first.
LEMMA Queues ==
  ASSUME NEW q \in Seq(JobFn)
  PROVE  /\ \A x \in JobFn : /\ Append(q, x) \in Seq(JobFn) /\ Append(q, x) # <<>>
                             /\ Append(q, x)[Len(Append(q, x))] = x
                             /\ \A y : y \in B!ToSet(Append(q, x)) <=> y \in B!ToSet(q) \/ y = x
         /\ q # <<>> => /\ Head(q) \in JobFn /\ Head(q) \in B!ToSet(q) /\ Tail(q) \in Seq(JobFn)
                        /\ \A y : y \in B!ToSet(q) <=> y \in B!ToSet(Tail(q)) \/ y = Head(q)
                        /\ Tail(q) # <<>> => Tail(q)[Len(Tail(q))] = q[Len(q)]
                        /\ Tail(q) = <<>> => Head(q) = q[Len(q)]
         /\ q = <<>> => \A y : y \notin B!ToSet(q)
<1>1. Len(q) \in Nat /\ DOMAIN q = 1..Len(q)
  OBVIOUS
<1>2. ASSUME NEW x \in JobFn
      PROVE  /\ Append(q, x) \in Seq(JobFn) /\ Append(q, x) # <<>>
             /\ Append(q, x)[Len(Append(q, x))] = x
             /\ \A y : y \in B!ToSet(Append(q, x)) <=> y \in B!ToSet(q) \/ y = x
  <2>1. /\ Append(q, x) \in Seq(JobFn) /\ Len(Append(q, x)) = Len(q) + 1
        /\ \A i \in 1..Len(q) : Append(q, x)[i] = q[i]
        /\ Append(q, x)[Len(q) + 1] = x
    OBVIOUS
  <2>2. DOMAIN Append(q, x) = 1..(Len(q) + 1)
    BY <2>1
  <2>. QED
    BY <1>1, <2>1, <2>2 DEF B!ToSet
<1>3. ASSUME q # <<>>
      PROVE  /\ Head(q) \in JobFn /\ Head(q) \in B!ToSet(q) /\ Tail(q) \in Seq(JobFn)
             /\ \A y : y \in B!ToSet(q) <=> y \in B!ToSet(Tail(q)) \/ y = Head(q)
             /\ Tail(q) # <<>> => Tail(q)[Len(Tail(q))] = q[Len(q)]
             /\ Tail(q) = <<>> => Head(q) = q[Len(q)]
  <2>1. /\ Tail(q) \in Seq(JobFn) /\ Len(Tail(q)) = Len(q) - 1 /\ Len(q) >= 1
        /\ \A i \in 1..(Len(q) - 1) : Tail(q)[i] = q[i + 1]
        /\ Head(q) = q[1] /\ q[1] \in JobFn
    BY <1>3
  <2>2. DOMAIN Tail(q) = 1..(Len(q) - 1)
    BY <2>1
  <2>3. B!ToSet(q) = {q[i] : i \in 1..Len(q)} /\ B!ToSet(Tail(q)) = {Tail(q)[i] : i \in 1..(Len(q) - 1)}
    BY Zenon, <1>1, <2>2 DEF B!ToSet
  <2>4. \A y : y \in B!ToSet(q) <=> y \in B!ToSet(Tail(q)) \/ y = Head(q)
    <3>1. ASSUME NEW y \in B!ToSet(q)  PROVE y \in B!ToSet(Tail(q)) \/ y = Head(q)
      <4>1. PICK i \in 1..Len(q) : y = q[i]
        BY <2>3
      <4>2. CASE i # 1
        <5>1. i - 1 \in 1..(Len(q) - 1) /\ Tail(q)[i - 1] = y
          BY <2>1, <4>1, <4>2
        <5>. QED
          BY <2>3, <5>1
      <4>. QED
        BY <2>1, <4>1, <4>2
    <3>2. ASSUME NEW y \in B!ToSet(Tail(q))  PROVE y \in B!ToSet(q)
      <4>1. PICK i \in 1..(Len(q) - 1) : y = Tail(q)[i]
        BY <2>3
      <4>2. i + 1 \in 1..Len(q) /\ y = q[i + 1]
        BY <2>1, <4>1
      <4>. QED
        BY <2>3, <4>2
    <3>3. Head(q) \in B!ToSet(q)
      BY <2>1, <2>3
    <3>. QED
      BY <3>1, <3>2, <3>3
  <2>5. Tail(q) # <<>> => Len(q) - 1 \in 1..(Len(q) - 1)
    BY <2>1
  <2>6. Tail(q) = <<>> => Len(q) = 1
    <3>1. Len(<<>>) = 0
      BY EmptySeq
    <3>2. Tail(q) = <<>> => Len(q) - 1 = 0
      BY Zenon, <2>1, <3>1
    <3>. QED
      BY <1>1, <3>2
  <2>. QED
    BY <2>1, <2>4, <2>5, <2>6
<1>4. q = <<>> => \A y : y \notin B!ToSet(q)
  BY DEF B!ToSet
<1>. QED
  BY <1>2, <1>3, <1>4

\* What cancel() leaves in the queue.
LEMMA Cancels ==
  ASSUME jobs \in Seq(JobFn), NEW fns
  PROVE  /\ B!without(jobs, fns) \in Seq(JobFn)
         /\ \A x : x \in B!ToSet(B!without(jobs, fns)) <=> x \in B!ToSet(jobs) /\ x \notin fns
         /\ jobs # <<>> /\ jobs[Len(jobs)] \notin fns =>
              /\ B!without(jobs, fns) # <<>>
              /\ B!without(jobs, fns)[Len(B!without(jobs, fns))] = jobs[Len(jobs)]
         /\ jobs = <<>> => B!without(jobs, fns) = <<>>
         /\ \A fn \in JobFn : LET q == Append(B!without(jobs, fns), fn)
                              IN /\ q \in Seq(JobFn) /\ q # <<>> /\ q[Len(q)] = fn
                                 /\ \A y : y \in B!ToSet(q) <=> (y \in B!ToSet(jobs) /\ y \notin fns) \/ y = fn
<1>1. B!without(jobs, fns) \in Seq(JobFn)
  BY Filtered
<1>2. \A x : x \in B!ToSet(B!without(jobs, fns)) <=> x \in B!ToSet(jobs) /\ x \notin fns
  BY Filtered
<1>3. jobs # <<>> /\ jobs[Len(jobs)] \notin fns =>
        /\ B!without(jobs, fns) # <<>>
        /\ B!without(jobs, fns)[Len(B!without(jobs, fns))] = jobs[Len(jobs)]
  BY Zenon, Filtered
<1>4. jobs = <<>> => B!without(jobs, fns) = <<>>
  <2>. SUFFICES ASSUME jobs = <<>>, B!without(jobs, fns) # <<>>  PROVE FALSE
    OBVIOUS
  <2>1. Head(B!without(jobs, fns)) \in B!ToSet(B!without(jobs, fns))
    BY <1>1, Queues
  <2>. QED
    BY <1>2, <2>1 DEF B!ToSet
<1>5. ASSUME NEW fn \in JobFn
      PROVE  LET q == Append(B!without(jobs, fns), fn)
             IN /\ q \in Seq(JobFn) /\ q # <<>> /\ q[Len(q)] = fn
                /\ \A y : y \in B!ToSet(q) <=> (y \in B!ToSet(jobs) /\ y \notin fns) \/ y = fn
  BY <1>1, <1>2, Queues
<1>. QED
  BY <1>1, <1>2, <1>3, <1>4, <1>5

JobRecord == [fn : JobFn, step : {"sleep", "look", "ramp", "end"}, cancelled : BOOLEAN]

\* A job, when there is one, and what a change of one of its fields leaves.
LEMMA Job ==
  ASSUME NoSetting, LightTypes
  PROVE  /\ job = B!idle => job.fn = None /\ job.fn \notin JobFn
         /\ job # B!idle => job \in JobRecord /\ job.fn \in JobFn
         /\ job.fn \in JobFn => job \in JobRecord /\ job # B!idle
         /\ job \in JobRecord => /\ job.step \in {"sleep", "look", "ramp", "end"}
                                 /\ job.cancelled \in BOOLEAN
         /\ job \in JobRecord => LET c == [job EXCEPT !.cancelled = TRUE]
                                 IN /\ c \in JobRecord /\ c.fn = job.fn /\ c.step = job.step
                                    /\ c.cancelled = TRUE
         /\ \A s \in {"sleep", "look", "ramp", "end"} : job \in JobRecord =>
              LET c == [job EXCEPT !.step = s]
              IN /\ c \in JobRecord /\ c.fn = job.fn /\ c.step = s /\ c.cancelled = job.cancelled
<1>1. job \in {B!idle} \cup JobRecord
  BY DEF LightTypes, JobRecord
<1>2. job = B!idle => job.fn = None /\ job.fn \notin JobFn
  BY DEF B!idle, NoSetting
<1>3. job \in JobRecord => job.fn \in JobFn
  BY DEF JobRecord
<1>4. job \in JobRecord => /\ job.step \in {"sleep", "look", "ramp", "end"}
                           /\ job.cancelled \in BOOLEAN
  BY DEF JobRecord
<1>5. job \in JobRecord => LET c == [job EXCEPT !.cancelled = TRUE]
                           IN /\ c \in JobRecord /\ c.fn = job.fn /\ c.step = job.step
                              /\ c.cancelled = TRUE
  BY Zenon DEF JobRecord
<1>6. \A s \in {"sleep", "look", "ramp", "end"} : job \in JobRecord =>
              LET c == [job EXCEPT !.step = s]
              IN /\ c \in JobRecord /\ c.fn = job.fn /\ c.step = s /\ c.cancelled = job.cancelled
  BY DEF JobRecord
<1>. QED
  BY <1>1, <1>2, <1>3, <1>4, <1>5, <1>6

\* Cancelling leaves the job what it was, but interrupted.
LEMMA Interrupted ==
  ASSUME NoSetting, LightTypes, NEW fns \in SUBSET JobFn,
         job' = IF job.fn \in fns THEN [job EXCEPT !.cancelled = TRUE] ELSE job
  PROVE  /\ job' \in {B!idle} \cup JobRecord /\ job'.fn = job.fn
         /\ job.fn \in JobFn => /\ job'.step = job.step
                                /\ job.fn \in fns => job'.cancelled
                                /\ job.fn \notin fns => job'.cancelled = job.cancelled
<1>. QED
  BY Zenon, Job

------------------------------------------------------------------------------
(* The main thread.                                                        *)

LEMMA LightInit == ASSUME NoSetting  PROVE B!Init => LightInv
<1>. SUFFICES ASSUME B!Init  PROVE LightInv
  OBVIOUS
<1>1. jobs = <<"activate">> /\ jobs \in Seq(JobFn)
  BY DEF B!Init, JobFn
<1>2. LightTypes
  BY Zenon, <1>1 DEF B!Init, LightTypes, Level
<1>3. job.fn \notin JobFn /\ B!ToSet(jobs) = {"activate"} /\ jobs # <<>>
  BY <1>1, <1>2, Job DEF B!Init, B!ToSet
<1>. QED
  BY <1>2, <1>3 DEF B!Init, LightInv, Transition, Mode, Setting, Destroyed, Dark, Reads, Follows,
     B!Waits,
     B!raising, JobFn

LEMMA LightChanges ==
  ASSUME NoSetting, LightInv, NEW level \in Level, B!lightChanges(level)
  PROVE  LightInv'
<1>. USE DEF B!lightChanges, B!service, B!panel, B!history
<1>1. LightTypes'
  BY DEF LightInv, LightTypes
<1>2. Transition' /\ Mode' /\ Setting' /\ Destroyed' /\ Dark'
  BY DEF LightInv, Transition, Mode, Setting, Destroyed, Dark, B!raising, Deactivates
<1>3. Reads' /\ Follows'
  BY DEF LightInv, LightTypes, Reads, Follows, Noticed, Deactivates
<1>. QED
  BY <1>1, <1>2, <1>3 DEF LightInv

\* What cancelling the waits and submitting a deactivation leaves.
LEMMA Submitted ==
  ASSUME NoSetting, LightTypes, NEW fns \in SUBSET JobFn, NEW fn \in JobFn, B!cancelAndSubmit(fns, fn)
  PROVE  /\ jobs' \in Seq(JobFn) /\ jobs' # <<>> /\ jobs'[Len(jobs')] = fn
         /\ \A y : y \in B!ToSet(jobs') <=> (y \in B!ToSet(jobs) /\ y \notin fns) \/ y = fn
         /\ job' \in {B!idle} \cup JobRecord /\ job'.fn = job.fn
         /\ job.fn \in JobFn => /\ job'.step = job.step
                                /\ job.fn \in fns => job'.cancelled
                                /\ job.fn \notin fns => job'.cancelled = job.cancelled
<1>1. jobs \in Seq(JobFn)
  BY DEF LightTypes
<1>2. /\ jobs' \in Seq(JobFn) /\ jobs' # <<>> /\ jobs'[Len(jobs')] = fn
      /\ \A y : y \in B!ToSet(jobs') <=> (y \in B!ToSet(jobs) /\ y \notin fns) \/ y = fn
  BY Zenon, <1>1, Cancels DEF B!cancelAndSubmit
<1>. QED
  BY Zenon, <1>2, Interrupted DEF B!cancelAndSubmit

\* What cancelling some waits leaves.
LEMMA Cancelled ==
  ASSUME NoSetting, LightTypes, NEW fns \in SUBSET JobFn, B!cancel(fns)
  PROVE  /\ jobs' \in Seq(JobFn)
         /\ \A x : x \in B!ToSet(jobs') <=> x \in B!ToSet(jobs) /\ x \notin fns
         /\ jobs # <<>> /\ jobs[Len(jobs)] \notin fns =>
              jobs' # <<>> /\ jobs'[Len(jobs')] = jobs[Len(jobs)]
         /\ jobs = <<>> => jobs' = <<>>
         /\ job' \in {B!idle} \cup JobRecord /\ job'.fn = job.fn
         /\ job.fn \in JobFn => /\ job'.step = job.step
                                /\ job.fn \in fns => job'.cancelled
                                /\ job.fn \notin fns => job'.cancelled = job.cancelled
<1>1. jobs \in Seq(JobFn)
  BY DEF LightTypes
<1>2. /\ jobs' \in Seq(JobFn)
      /\ \A x : x \in B!ToSet(jobs') <=> x \in B!ToSet(jobs) /\ x \notin fns
      /\ jobs # <<>> /\ jobs[Len(jobs)] \notin fns =>
           jobs' # <<>> /\ jobs'[Len(jobs')] = jobs[Len(jobs)]
      /\ jobs = <<>> => jobs' = <<>>
  BY Zenon, <1>1, Cancels DEF B!cancel
<1>. QED
  BY Zenon, <1>2, Interrupted DEF B!cancel

\* The screen goes off, or the service is destroyed: the modes wait no more and
\* a deactivation is last in the queue.
LEMMA Deactivated ==
  ASSUME NoSetting, LightInv, B!cancelAndSubmit(B!Waits, "deactivate"),
         screenOn' \in BOOLEAN, created' \in BOOLEAN,
         UNCHANGED <<light, reading, listening, quick, sensor, mLastLux, B!panel, B!history>>
  PROVE  LightInv'
<1>. USE DEF B!panel, B!history
<1>1. B!Waits \in SUBSET JobFn /\ "deactivate" \in JobFn /\ "deactivate" \notin B!Waits /\ "enable" \in B!Waits
  BY DEF JobFn, B!Waits
<1>2. /\ jobs' \in Seq(JobFn) /\ jobs' # <<>> /\ jobs'[Len(jobs')] = "deactivate"
      /\ \A y : y \in B!ToSet(jobs') <=> (y \in B!ToSet(jobs) /\ y \notin B!Waits) \/ y = "deactivate"
      /\ job' \in {B!idle} \cup JobRecord /\ job'.fn = job.fn
      /\ job.fn \in JobFn => job'.step = job.step
  BY <1>1, Submitted DEF LightInv
<1>3. Deactivates' /\ "enable" \notin B!ToSet(jobs')
  BY <1>1, <1>2 DEF Deactivates
<1>4. LightTypes'
  BY <1>2 DEF LightInv, LightTypes, JobRecord, B!idle
<1>5. Transition' /\ Mode'
  BY <1>1, <1>2 DEF LightInv, Transition, Mode, B!raising, JobFn, B!Waits
<1>6. Setting' /\ Reads'
  BY DEF LightInv, Setting, Reads
<1>7. Destroyed' /\ Dark'
  BY <1>2, <1>3 DEF Destroyed, Dark
<1>8. Follows'
  BY <1>3 DEF Follows, Noticed
<1>. QED
  BY <1>4, <1>5, <1>6, <1>7, <1>8 DEF LightInv

LEMMA OnDestroy == ASSUME NoSetting, LightInv, B!onDestroy  PROVE LightInv'
<1>. QED
  BY Zenon, Deactivated DEF B!onDestroy, LightInv, LightTypes

LEMMA ScreenTurns == ASSUME NoSetting, LightInv, B!screenTurns  PROVE LightInv'
<1>1. CASE ~created
  <2>. USE DEF B!screenTurns, B!panel, B!history
  <2>1. LightTypes' /\ Transition' /\ Mode' /\ Setting' /\ Reads' /\ Follows'
    BY <1>1 DEF LightInv, LightTypes, Transition, Mode, Setting, Reads, Follows, B!raising,
       Noticed, Deactivates
  <2>2. Destroyed' /\ Dark'
    BY <1>1 DEF LightInv, LightTypes, Destroyed, Dark, Deactivates
  <2>. QED
    BY <2>1, <2>2 DEF LightInv
<1>2. CASE created /\ screenOn
  BY <1>2, Deactivated DEF B!screenTurns, LightInv, LightTypes
<1>3. CASE created /\ ~screenOn
  <2>. USE DEF B!panel, B!history
  <2>1. /\ jobs' \in Seq(JobFn)
        /\ \A y : y \in B!ToSet(jobs') <=> y \in B!ToSet(jobs) \/ y = "activate"
        /\ job' = job
    <3>1. B!cancelAndSubmit({}, "activate")
      BY <1>3 DEF B!screenTurns
    <3>. QED
      BY <3>1, Submitted DEF LightInv, JobFn, B!cancelAndSubmit
  <2>2. screenOn' /\ created' /\ UNCHANGED <<light, reading, listening, created, quick, sensor,
                                             mLastLux, B!panel, B!history>>
    BY Zenon, <1>3 DEF B!screenTurns
  <2>3. LightTypes'
    BY <2>1, <2>2 DEF LightInv, LightTypes
  <2>4. Transition' /\ Mode' /\ Setting' /\ Reads' /\ Destroyed' /\ Dark'
    BY <1>3, <2>1, <2>2 DEF LightInv, Transition, Mode, Setting, Reads, Destroyed, Dark, B!raising
  <2>5. Follows'
    BY <2>1, <2>2 DEF LightInv, Follows, Noticed, Deactivates
  <2>. QED
    BY <2>3, <2>4, <2>5 DEF LightInv
<1>. QED
  BY <1>1, <1>2, <1>3 DEF LightInv, LightTypes

LEMMA OnCreate == ASSUME NoSetting, LightInv, B!onCreate  PROVE LightInv'
<1>. USE DEF B!onCreate, B!history
<1>1. jobs \in Seq(JobFn) /\ job = B!idle /\ \A y : y \notin B!ToSet(jobs)
  BY Zenon, Queues DEF LightInv, LightTypes
<1>2. jobs' \in Seq(JobFn) /\ \A y : y \in B!ToSet(jobs') => y = "activate"
  <2>1. CASE jobs' = <<>>
    BY <2>1 DEF B!ToSet
  <2>2. CASE jobs' = <<"activate">>
    <3>1. <<"activate">> \in Seq(JobFn)
      BY DEF JobFn
    <3>2. B!ToSet(<<"activate">>) = {"activate"}
      BY DEF B!ToSet
    <3>. QED
      BY <2>2, <3>1, <3>2
  <2>. QED
    BY <2>1, <2>2
<1>3. job.fn \notin JobFn /\ job' = job
  BY <1>1, Job DEF LightInv
<1>4. LightTypes'
  BY <1>2 DEF LightInv, LightTypes, Level
<1>5. ~listening /\ (~died => ~hbm) /\ (~late => ~mAutoHBMActive /\ (hbm => missed))
  BY <1>1, <1>3 DEF LightInv, Destroyed, Dark, Deactivates, JobFn
<1>6. Transition' /\ Mode' /\ Setting'
  BY <1>3, <1>5 DEF LightInv, Transition, Mode, Setting, B!raising
<1>7. Destroyed' /\ Dark' /\ Reads' /\ Follows'
  BY <1>2, <1>3, <1>5 DEF Destroyed, Dark, Reads, Follows, JobFn
<1>. QED
  BY <1>4, <1>6, <1>7 DEF LightInv

LEMMA ProcessDies == ASSUME NoSetting, LightInv, B!processDies  PROVE LightInv'
<1>. USE DEF B!processDies
<1>1. jobs' = <<>> /\ jobs' \in Seq(JobFn) /\ job'.fn \notin JobFn /\ \A y : y \notin B!ToSet(jobs')
  BY DEF B!ToSet, B!idle, NoSetting
<1>2. LightTypes'
  BY Zenon, <1>1 DEF LightInv, LightTypes
<1>. QED
  BY <1>1, <1>2 DEF LightInv, Transition, Mode, Setting, Destroyed, Dark, Reads, Follows, JobFn,
     B!Waits

LEMMA SensorChanges == ASSUME NoSetting, LightInv, B!onSensorChanged  PROVE LightInv'
<1>. USE DEF B!onSensorChanged, B!service, B!panel, B!history
<1>1. LightTypes'
  BY Zenon DEF LightInv, LightTypes
<1>2. Transition' /\ Mode' /\ Setting' /\ Destroyed' /\ Dark' /\ Reads'
  BY DEF LightInv, Transition, Mode, Setting, Destroyed, Dark, B!raising, Deactivates, Reads
<1>3. Follows'
  BY DEF LightInv, LightTypes, Follows, Noticed, Deactivates
<1>. QED
  BY <1>1, <1>2, <1>3 DEF LightInv

LEMMA ReadTransition == ASSUME NoSetting, LightInv, B!readTransition  PROVE LightInv'
<1>. USE DEF B!readTransition, B!service, B!panel
<1>1. LightTypes'
  BY DEF LightInv, LightTypes
<1>2. Transition' /\ Mode' /\ Setting' /\ Destroyed' /\ Dark' /\ Reads'
  BY Zenon DEF LightInv, Transition, Mode, Setting, Destroyed, Dark, B!raising, Deactivates, Reads
<1>3. Follows'
  BY DEF LightInv, LightTypes, Transition, Mode, Follows, Noticed, Deactivates, B!raising, B!Waits
<1>. QED
  BY <1>1, <1>2, <1>3 DEF LightInv

LEMMA ReadMid == ASSUME NoSetting, LightInv, B!readMid  PROVE LightInv'
<1>. USE DEF B!readMid, B!service, B!panel, B!history
<1>1. B!Waits \in SUBSET JobFn /\ "deactivate" \in JobFn /\ "deactivate" \notin B!Waits
  BY DEF JobFn, B!Waits
<1>2. /\ jobs' \in Seq(JobFn)
      /\ \A x : x \in B!ToSet(jobs') <=> x \in B!ToSet(jobs) /\ x \notin B!Waits
      /\ jobs # <<>> /\ jobs[Len(jobs)] \notin B!Waits =>
           jobs' # <<>> /\ jobs'[Len(jobs')] = jobs[Len(jobs)]
      /\ jobs = <<>> => jobs' = <<>>
      /\ job' \in {B!idle} \cup JobRecord /\ job'.fn = job.fn
      /\ job.fn \in JobFn => job'.step = job.step
  BY <1>1, Cancelled DEF LightInv
<1>3. LightTypes'
  BY <1>2 DEF LightInv, LightTypes, JobRecord
<1>4. Transition' /\ Mode' /\ Setting' /\ Reads'
  BY <1>1, <1>2 DEF LightInv, Transition, Mode, Setting, Reads, B!raising, B!Waits, JobFn
<1>5. Destroyed' /\ Dark'
  BY <1>1, <1>2 DEF LightInv, Destroyed, Dark, Deactivates
<1>6. Follows'
  BY DEF LightInv, Reads, Follows, Noticed
<1>. QED
  BY <1>3, <1>4, <1>5, <1>6 DEF LightInv

\* A high reading.
LEMMA ReadHigh == ASSUME NoSetting, LightInv, NEW r \in BOOLEAN, B!readHigh(r)  PROVE LightInv'
<1>. USE DEF B!service, B!panel
<1>1. {"disable"} \in SUBSET JobFn /\ "enable" \in JobFn /\ "deactivate" \in JobFn
  BY DEF JobFn
<1>2. /\ mLastLux = "high" /\ sensor = "act" /\ sensor' = "idle" 
      /\ UNCHANGED <<light, reading, listening, B!service, mLastLux, B!panel, missed, died>>
  BY DEF B!readHigh
<1>3. CASE B!cancel({"disable"}) /\ UNCHANGED late
  <2>1. /\ jobs' \in Seq(JobFn)
        /\ \A x : x \in B!ToSet(jobs') <=> x \in B!ToSet(jobs) /\ x # "disable"
        /\ jobs # <<>> /\ jobs[Len(jobs)] # "disable" =>
             jobs' # <<>> /\ jobs'[Len(jobs')] = jobs[Len(jobs)]
        /\ jobs = <<>> => jobs' = <<>>
        /\ job' \in {B!idle} \cup JobRecord /\ job'.fn = job.fn
        /\ job.fn \in JobFn => job'.step = job.step
    BY <1>1, <1>3, Cancelled DEF LightInv
  <2>2. LightTypes'
    BY <1>2, <1>3, <2>1 DEF LightInv, LightTypes, JobRecord
  <2>3. Transition' /\ Mode' /\ Setting' /\ Reads'
    BY <1>1, <1>2, <2>1 DEF LightInv, Transition, Mode, Setting, Reads, B!raising, B!Waits, JobFn
  <2>4. Destroyed' /\ Dark'
    BY <1>2, <1>3, <2>1 DEF LightInv, Destroyed, Dark, Deactivates
  <2>5. Follows'
    BY <1>2 DEF LightInv, Reads, Follows, Noticed
  <2>. QED
    BY <2>2, <2>3, <2>4, <2>5 DEF LightInv
<1>4. CASE /\ B!cancelAndSubmit({"disable"}, "enable") /\ late' = (late \/ ~screenOn)
           /\ created /\ ~(mAutoHBMActive /\ hbm)
  <2>1. /\ jobs' \in Seq(JobFn)
        /\ \A y : y \in B!ToSet(jobs') <=> (y \in B!ToSet(jobs) /\ y # "disable") \/ y = "enable"
        /\ job' \in {B!idle} \cup JobRecord /\ job'.fn = job.fn
        /\ job.fn \in JobFn => job'.step = job.step
    BY Zenon, <1>1, <1>4, Submitted DEF LightInv
  <2>2. LightTypes'
    BY <1>2, <1>4, <2>1 DEF LightInv, LightTypes, JobRecord
  <2>3. Transition' /\ Mode' /\ Setting' /\ Reads'
    BY <1>1, <1>2, <2>1 DEF LightInv, Transition, Mode, Setting, Reads, B!raising, B!Waits, JobFn
  <2>4. Destroyed' /\ Dark'
    BY Zenon, <1>2, <1>4, <2>1 DEF LightInv, LightTypes, Destroyed, Dark, Deactivates
  <2>5. Follows'
    BY <1>2 DEF LightInv, Reads, Follows, Noticed
  <2>. QED
    BY <2>2, <2>3, <2>4, <2>5 DEF LightInv
<1>. QED
  BY <1>3, <1>4 DEF B!readHigh

\* A low reading.
LEMMA ReadLow == ASSUME NoSetting, LightInv, B!readLow  PROVE LightInv'
<1>. USE DEF B!service, B!panel
<1>1. {"enable"} \in SUBSET JobFn /\ "disable" \in JobFn /\ "deactivate" \in JobFn
  BY DEF JobFn
<1>2. /\ mLastLux = "low" /\ sensor = "act" /\ sensor' = "idle"
      /\ missed' = ((missed /\ ~mAutoHBMActive) \/ (B!raising /\ ~mAutoHBMActive))
      /\ UNCHANGED <<light, reading, listening, B!service, mLastLux, B!panel, late, died>>
  BY DEF B!readLow
<1>3. CASE B!cancel({"enable"}) /\ ~(mAutoHBMActive /\ ~B!pending("disable") /\ created)
  <2>1. /\ jobs' \in Seq(JobFn)
        /\ \A x : x \in B!ToSet(jobs') <=> x \in B!ToSet(jobs) /\ x # "enable"
        /\ jobs # <<>> /\ jobs[Len(jobs)] # "enable" =>
             jobs' # <<>> /\ jobs'[Len(jobs')] = jobs[Len(jobs)]
        /\ jobs = <<>> => jobs' = <<>>
        /\ job' \in {B!idle} \cup JobRecord /\ job'.fn = job.fn
        /\ job.fn \in JobFn => /\ job'.step = job.step
                               /\ job.fn # "enable" => job'.cancelled = job.cancelled
    BY <1>1, <1>3, Cancelled DEF LightInv
  <2>2. LightTypes'
    BY <1>2, <2>1 DEF LightInv, LightTypes, JobRecord
  <2>3. Transition' /\ Setting' /\ Reads'
    BY <1>1, <1>2, <2>1 DEF LightInv, Transition, Setting, Reads, B!Waits, JobFn
  <2>6. Mode'
    BY <1>1, <1>2, <2>1 DEF LightInv, LightTypes, Mode, B!raising, JobFn
  <2>4. Destroyed' /\ Dark'
    BY Zenon, <1>2, <2>1 DEF LightInv, Destroyed, Dark, Mode, Deactivates, B!raising
  <2>5. Follows'
    <3>. SUFFICES ASSUME hbm, listening, ~missed'  PROVE Noticed'
      BY <1>2 DEF Follows
    <3>1. mAutoHBMActive
      BY Zenon, <1>2 DEF LightInv, Mode
    <3>2. CASE "disable" \in B!ToSet(jobs) \/ (job.fn = "disable" /\ ~job.cancelled)
      <4>1. CASE "disable" \in B!ToSet(jobs)
        BY <2>1, <4>1 DEF Noticed
      <4>2. CASE job.fn = "disable" /\ ~job.cancelled
        <5>1. job'.fn = "disable" /\ job'.step = job.step /\ job'.cancelled = job.cancelled
          BY <1>1, <2>1, <4>2
        <5>2. job.step # "end"
          BY <4>2 DEF LightInv, Mode
        <5>. QED
          BY <4>2, <5>1, <5>2 DEF Noticed
      <4>. QED
        BY <3>2, <4>1, <4>2
    <3>3. CASE ~created
      <4>1. Deactivates
        <5>1. jobs # <<>> => jobs[Len(jobs)] \in B!ToSet(jobs)
          BY DEF LightInv, LightTypes, B!ToSet
        <5>. QED
          BY <3>3, <5>1 DEF LightInv, Destroyed, Deactivates
      <4>. QED
        BY <2>1, <4>1 DEF Deactivates, Noticed
    <3>. QED
      <4>1. "disable" \in B!ToSet(jobs) \/ (job.fn = "disable" /\ ~job.cancelled) \/ ~created
        <5>1. CASE B!pending("disable")
          BY <5>1 DEF B!pending
        <5>. QED
          BY <1>3, <3>1, <5>1
      <4>. QED
        BY <3>2, <3>3, <4>1
  <2>. QED
    BY <2>2, <2>3, <2>4, <2>5, <2>6 DEF LightInv
<1>4. CASE B!cancelAndSubmit({"enable"}, "disable") /\ created
  <2>1. /\ jobs' \in Seq(JobFn)
        /\ \A y : y \in B!ToSet(jobs') <=> (y \in B!ToSet(jobs) /\ y # "enable") \/ y = "disable"
        /\ job' \in {B!idle} \cup JobRecord /\ job'.fn = job.fn
        /\ job.fn \in JobFn => job'.step = job.step
    BY Zenon, <1>1, <1>4, Submitted DEF LightInv
  <2>2. LightTypes'
    BY <1>2, <2>1 DEF LightInv, LightTypes, JobRecord
  <2>3. Transition' /\ Mode' /\ Setting' /\ Reads'
    BY Zenon, <1>1, <1>2, <2>1 DEF LightInv, Transition, Mode, Setting, Reads, B!raising, B!Waits, JobFn
  <2>4. Destroyed' /\ Dark'
    BY Zenon, <1>2, <1>4, <2>1 DEF LightInv, Destroyed, Dark, Mode, Deactivates, B!raising
  <2>5. Follows'
    BY <2>1 DEF Follows, Noticed
  <2>. QED
    BY <2>2, <2>3, <2>4, <2>5 DEF LightInv
<1>. QED
  BY <1>3, <1>4 DEF B!readLow, B!cancelOnLow

------------------------------------------------------------------------------
(* The worker.                                                             *)

LEMMA Takes == ASSUME NoSetting, LightInv, B!takes  PROVE LightInv'
<1>. USE DEF B!main, B!service, B!panel, B!history
<1>1. /\ jobs \in Seq(JobFn) /\ jobs # <<>> /\ job = B!idle /\ jobs' = Tail(jobs)
      /\ job' = [fn |-> Head(jobs), step |-> "sleep", cancelled |-> FALSE]
      /\ UNCHANGED <<B!main, listening, B!panel, B!history>>
  BY DEF B!takes, LightInv, LightTypes
<1>2. /\ Head(jobs) \in JobFn /\ Head(jobs) \in B!ToSet(jobs) /\ jobs' \in Seq(JobFn)
      /\ \A y : y \in B!ToSet(jobs) <=> y \in B!ToSet(jobs') \/ y = Head(jobs)
      /\ jobs' # <<>> => jobs'[Len(jobs')] = jobs[Len(jobs)]
      /\ jobs' = <<>> => Head(jobs) = jobs[Len(jobs)]
  BY <1>1, Queues
<1>3. job' \in JobRecord /\ job'.fn = Head(jobs) /\ job'.step = "sleep" /\ job'.cancelled = FALSE
  BY <1>1, <1>2 DEF JobRecord
<1>4. job.fn \notin JobFn
  BY <1>1, Job DEF LightInv
<1>5. LightTypes'
  BY <1>1, <1>2, <1>3 DEF LightInv, LightTypes, JobRecord
<1>6. Transition' /\ Mode' /\ Setting' /\ Reads'
  BY <1>1, <1>3, <1>4 DEF LightInv, Transition, Mode, Setting, Reads, B!raising, B!Waits, JobFn
<1>7. Destroyed' /\ Dark'
  BY <1>1, <1>2, <1>3, <1>4 DEF LightInv, Destroyed, Dark, Deactivates, JobFn
<1>8. Follows'
  BY <1>1, <1>2, <1>3, <1>4 DEF LightInv, Follows, Noticed, Deactivates, JobFn
<1>. QED
  BY <1>5, <1>6, <1>7, <1>8 DEF LightInv

LEMMA Activates == ASSUME NoSetting, LightInv, B!activateLightSensorRead  PROVE LightInv'
<1>. USE DEF B!activateLightSensorRead, B!service, B!panel, B!history
<1>1. job.fn = "activate" /\ job' = B!idle /\ job'.fn \notin JobFn /\ jobs' = jobs
  BY DEF B!idle, NoSetting
<1>2. LightTypes'
  BY <1>1 DEF LightInv, LightTypes
<1>3. Transition' /\ Mode' /\ Setting'
  BY <1>1 DEF LightInv, Transition, Mode, Setting, B!raising, JobFn, B!Waits
<1>4. Destroyed' /\ Dark'
  BY <1>1 DEF LightInv, Destroyed, Dark, Deactivates, JobFn
<1>5. Reads' /\ Follows'
  BY Zenon, <1>1 DEF LightInv, LightTypes, Reads, Follows, Noticed, Deactivates, JobFn
<1>. QED
  BY <1>2, <1>3, <1>4, <1>5 DEF LightInv

LEMMA DeactivateEnds == ASSUME NoSetting, LightInv, B!deactivateLightSensorRead  PROVE LightInv'
<1>. USE DEF B!deactivateLightSensorRead, B!restores, B!service
<1>1. job.fn = "deactivate" /\ job' = B!idle /\ job'.fn \notin JobFn /\ jobs' = jobs
  BY DEF B!idle, NoSetting
<1>2. LightTypes'
  <2>1. late' \in BOOLEAN
    OBVIOUS
  <2>2. brightness' \in {"user", "raised"}
    BY DEF LightInv, LightTypes
  <2>. QED
    BY Zenon, <1>1, <2>1, <2>2 DEF LightInv, LightTypes
<1>3. Transition' /\ Mode' /\ Setting'
  BY <1>1 DEF LightInv, LightTypes, Transition, Mode, Setting, B!raising, JobFn, B!Waits, NoSetting
<1>4. Destroyed'
  BY <1>1 DEF LightInv, Destroyed, Deactivates, JobFn
<1>6. Dark'
  BY <1>1 DEF LightInv, LightTypes, Dark, Deactivates, JobFn
<1>5. Reads' /\ Follows'
  BY <1>1 DEF Reads, Follows
<1>. QED
  BY <1>2, <1>3, <1>4, <1>5, <1>6 DEF LightInv

LEMMA Slept == ASSUME NoSetting, LightInv, B!slept  PROVE LightInv'
<1>. USE DEF B!slept, B!main, B!service, B!panel, B!history
<1>1. job.fn \in B!Waits /\ job.fn \in JobFn /\ job.step = "sleep" /\ job.cancelled \in BOOLEAN /\ jobs' = jobs
  BY Job DEF LightInv, JobFn, B!Waits
<1>2. CASE job.cancelled
  <2>1. job' = B!idle /\ job'.fn \notin JobFn
    BY <1>2 DEF B!idle, NoSetting
  <2>2. LightTypes'
    BY <2>1 DEF LightInv, LightTypes
  <2>3. Transition' /\ Mode' /\ Setting' /\ Reads'
    BY <1>1, <2>1 DEF LightInv, Transition, Mode, Setting, Reads, B!raising, JobFn, B!Waits
  <2>4. Destroyed' /\ Dark'
    BY <1>1, <2>1 DEF LightInv, Destroyed, Dark, Deactivates, JobFn, B!Waits
  <2>5. Follows'
    BY <1>1, <1>2, <2>1 DEF LightInv, Follows, Noticed, Deactivates, JobFn, B!Waits
  <2>. QED
    BY <2>2, <2>3, <2>4, <2>5 DEF LightInv
<1>3. CASE ~job.cancelled
  <2>1. job' \in JobRecord /\ job'.fn = job.fn /\ job'.step = "look" /\ job'.cancelled = job.cancelled
    BY <1>1, <1>3, Job DEF LightInv
  <2>2. LightTypes'
    BY <2>1 DEF LightInv, LightTypes, JobRecord
  <2>3. Transition' /\ Mode' /\ Setting' /\ Reads'
    BY <1>1, <2>1 DEF LightInv, Transition, Mode, Setting, Reads, B!raising, JobFn, B!Waits
  <2>4. Destroyed' /\ Dark'
    BY <1>1, <2>1 DEF LightInv, Destroyed, Dark, Deactivates, JobFn, B!Waits
  <2>5. Follows'
    BY <1>1, <2>1 DEF LightInv, Follows, Noticed, Deactivates, JobFn, B!Waits
  <2>. QED
    BY <2>2, <2>3, <2>4, <2>5 DEF LightInv
<1>. QED
  BY <1>1, <1>2, <1>3

LEMMA LookEnable == ASSUME NoSetting, LightInv, NEW r \in BOOLEAN, B!lookEnable(r)  PROVE LightInv'
<1>. USE DEF B!lookEnable, B!main, B!service, B!history
<1>1. job.fn = "enable" /\ job.fn \in JobFn /\ job.step = "look" /\ jobs' = jobs
  BY DEF JobFn
<1>2. CASE job' = B!idle /\ UNCHANGED <<mTransitionInProgress, hbm, mStoredBrightness>>
  <2>1. job'.fn \notin JobFn
    BY <1>2 DEF B!idle, NoSetting
  <2>2. LightTypes'
    BY <1>2, <2>1 DEF LightInv, LightTypes
  <2>3. Transition' /\ Mode' /\ Setting' /\ Reads'
    BY <1>1, <1>2, <2>1 DEF LightInv, Transition, Mode, Setting, Reads, B!raising, JobFn, B!Waits
  <2>4. Destroyed' /\ Dark'
    BY <1>1, <1>2, <2>1 DEF LightInv, Destroyed, Dark, Deactivates, JobFn, B!Waits
  <2>5. Follows'
    BY <1>1, <1>2, <2>1 DEF LightInv, Follows, Noticed, Deactivates, JobFn, B!Waits
  <2>. QED
    BY <2>2, <2>3, <2>4, <2>5 DEF LightInv
<1>3. CASE /\ mLastLux = "high" /\ ~mAutoHBMActive
           /\ mTransitionInProgress' = TRUE /\ hbm' = TRUE
           /\ mStoredBrightness' = IF mStoredBrightness = None THEN brightness
                                   ELSE mStoredBrightness
           /\ job' = [job EXCEPT !.step = "ramp"]
  <2>1. job' \in JobRecord /\ job'.fn = job.fn /\ job'.step = "ramp"
    BY <1>1, <1>3, Job DEF LightInv
  <2>2. LightTypes'
    BY <1>3, <2>1 DEF LightInv, LightTypes, JobRecord
  <2>3. Transition' /\ Mode' /\ Reads'
    BY <1>1, <1>3, <2>1 DEF LightInv, Transition, Mode, Reads, B!raising, JobFn, B!Waits
  <2>4. Setting'
    BY <1>3 DEF LightInv, LightTypes, Setting, NoSetting
  <2>5. Destroyed' /\ Dark'
    BY <1>1, <1>3, <2>1 DEF LightInv, Destroyed, Dark, Deactivates, JobFn, B!Waits
  <2>6. Follows'
    BY <1>3 DEF LightInv, Reads, Follows, Noticed
  <2>. QED
    BY <2>2, <2>3, <2>4, <2>5, <2>6 DEF LightInv
<1>. QED
  BY Zenon, <1>2, <1>3

LEMMA LookDisable ==
  ASSUME NoSetting, LightInv, NEW r \in BOOLEAN, B!lookDisable(r)
  PROVE LightInv'
<1>. USE DEF B!lookDisable, B!main, B!service
<1>1. job.fn = "disable" /\ job.fn \in JobFn /\ job.step = "look" /\ jobs' = jobs
      /\ missed' \in BOOLEAN /\ (missed => missed')
  BY DEF JobFn, LightInv, LightTypes
<1>2. CASE job' = B!idle /\ UNCHANGED mTransitionInProgress
  <2>1. job'.fn \notin JobFn
    BY <1>2 DEF B!idle, NoSetting
  <2>2. LightTypes'
    BY <1>1, <1>2, <2>1 DEF LightInv, LightTypes
  <2>3. Transition' /\ Mode' /\ Setting' /\ Reads'
    BY <1>1, <1>2, <2>1 DEF LightInv, Transition, Mode, Setting, Reads, B!raising, JobFn, B!Waits
  <2>4. Destroyed' /\ Dark'
    BY <1>1, <1>2, <2>1 DEF LightInv, Destroyed, Dark, Deactivates, JobFn, B!Waits
  <2>5. Follows'
    <3>1. missed' \/ mLastLux # "low" \/ ~mAutoHBMActive
      <4>1. job' # [job EXCEPT !.step = "ramp"]
        BY Zenon, <1>1, <2>1, Job DEF LightInv
      <4>. QED
        BY <4>1
    <3>. QED
      BY <1>1, <1>2, <2>1, <3>1 DEF LightInv, Follows, Noticed, Deactivates, Mode, B!raising,
         Reads, JobFn, B!Waits
  <2>. QED
    BY <2>2, <2>3, <2>4, <2>5 DEF LightInv
<1>3. CASE mTransitionInProgress' = TRUE /\ job' = [job EXCEPT !.step = "ramp"]
  <2>1. job' \in JobRecord /\ job'.fn = job.fn /\ job'.step = "ramp"
    BY <1>1, <1>3, Job DEF LightInv
  <2>2. LightTypes'
    BY <1>1, <1>3, <2>1 DEF LightInv, LightTypes, JobRecord
  <2>3. Transition' /\ Mode' /\ Setting' /\ Reads'
    BY <1>1, <1>3, <2>1 DEF LightInv, Transition, Mode, Setting, Reads, B!raising, JobFn, B!Waits
  <2>4. Destroyed' /\ Dark'
    BY <1>1, <1>3, <2>1 DEF LightInv, Destroyed, Dark, Deactivates, JobFn, B!Waits
  <2>5. Follows'
    BY <1>1, <2>1 DEF Follows, Noticed
  <2>. QED
    BY <2>2, <2>3, <2>4, <2>5 DEF LightInv
<1>. QED
  BY Zenon, <1>2, <1>3

LEMMA RampedUp == ASSUME NoSetting, LightInv, NEW u \in BOOLEAN, B!rampedUp(u)  PROVE LightInv'
<1>. USE DEF B!rampedUp, B!main, B!service, B!history
<1>1. /\ job.fn = "enable" /\ job.fn \in JobFn /\ job.step = "ramp" /\ jobs' = jobs
      /\ job' \in JobRecord /\ job'.fn = job.fn /\ job'.step = "end"
  BY Job DEF LightInv, JobFn
<1>2. CASE u
  <2>1. B!restores
    BY <1>2
  <2>2. LightTypes'
    <3>1. brightness' \in {"user", "raised"}
      BY <2>1 DEF LightInv, LightTypes, B!restores
    <3>. QED
      BY Zenon, <1>1, <2>1, <3>1 DEF LightInv, LightTypes, JobRecord, B!restores
  <2>3. Transition' /\ Mode' /\ Setting' /\ Reads'
    BY <1>1, <2>1 DEF LightInv, LightTypes, Transition, Mode, Setting, Reads, B!raising, JobFn,
       B!Waits, NoSetting, B!restores
  <2>4. Destroyed' /\ Dark'
    BY <1>1, <2>1 DEF LightInv, Destroyed, Dark, Deactivates, JobFn, B!Waits, B!restores
  <2>5. Follows'
    BY <2>1 DEF Follows, B!restores
  <2>. QED
    BY <2>2, <2>3, <2>4, <2>5 DEF LightInv
<1>3. CASE ~u
  <2>1. brightness' \in {brightness, "raised"} /\ UNCHANGED <<mStoredBrightness, hbm>>
    BY <1>3
  <2>2. LightTypes'
    BY Zenon, <1>1, <2>1 DEF LightInv, LightTypes, JobRecord
  <2>3. hbm
    BY <1>1 DEF LightInv, Mode
  <2>4. Transition' /\ Mode' /\ Setting' /\ Reads'
    BY <1>1, <2>1, <2>3 DEF LightInv, LightTypes, Transition, Mode, Setting, Reads, B!raising,
       JobFn, B!Waits, NoSetting
  <2>5. Destroyed' /\ Dark'
    BY <1>1, <2>1, <2>3 DEF LightInv, Destroyed, Dark, Deactivates, JobFn, B!Waits
  <2>6. Follows'
    BY <1>1, <2>1 DEF LightInv, Follows, Noticed, Deactivates
  <2>. QED
    BY <2>2, <2>4, <2>5, <2>6 DEF LightInv
<1>. QED
  BY <1>2, <1>3

LEMMA RampedDown == ASSUME NoSetting, LightInv, B!rampedDown  PROVE LightInv'
<1>. USE DEF B!rampedDown, B!main, B!service, B!history, B!restores
<1>1. /\ job.fn = "disable" /\ job.fn \in JobFn /\ job.step = "ramp" /\ jobs' = jobs
      /\ job' \in JobRecord /\ job'.fn = job.fn /\ job'.step = "end"
  BY Job DEF LightInv, JobFn
<1>2. LightTypes'
  <2>1. brightness' \in {"user", "raised"}
    BY DEF LightInv, LightTypes
  <2>. QED
    BY Zenon, <1>1, <2>1 DEF LightInv, LightTypes, JobRecord
<1>3. Transition' /\ Mode' /\ Setting' /\ Reads'
  BY <1>1 DEF LightInv, LightTypes, Transition, Mode, Setting, Reads, B!raising, JobFn, B!Waits,
     NoSetting
<1>4. Destroyed' /\ Dark'
  BY <1>1 DEF LightInv, Destroyed, Dark, Deactivates, JobFn, B!Waits
<1>5. Follows'
  BY DEF Follows
<1>. QED
  BY <1>2, <1>3, <1>4, <1>5 DEF LightInv

LEMMA Ended == ASSUME NoSetting, LightInv, B!ended  PROVE LightInv'
<1>. USE DEF B!ended, B!main, B!service, B!history
<1>1. /\ job.fn \in B!Waits /\ job.fn \in JobFn /\ job.step = "end" /\ jobs' = jobs
      /\ job' = B!idle /\ job'.fn \notin JobFn
  BY DEF JobFn, B!Waits, B!idle, NoSetting
<1>2. mAutoHBMActive' \in BOOLEAN
  BY DEF LightInv, LightTypes
<1>3. LightTypes'
  BY <1>1, <1>2 DEF LightInv, LightTypes
<1>4. Transition' /\ Mode' /\ Setting' /\ Reads'
  BY <1>1 DEF LightInv, LightTypes, Transition, Mode, Setting, Reads, B!raising, JobFn, B!Waits,
     NoSetting
<1>5. Destroyed' /\ Dark'
  BY Zenon, <1>1 DEF LightInv, Mode, Destroyed, Dark, Deactivates, JobFn, B!Waits
<1>6. Follows'
  BY <1>1 DEF LightInv, Mode, Follows, Noticed, Deactivates, JobFn, B!Waits
<1>. QED
  BY <1>3, <1>4, <1>5, <1>6 DEF LightInv

LEMMA LightUnchanged == ASSUME LightInv, UNCHANGED B!vars  PROVE LightInv'
<1>. USE DEF B!vars, B!main, B!service, B!panel, B!history
<1>1. LightTypes' /\ Transition' /\ Mode' /\ Setting'
  BY DEF LightInv, LightTypes, Transition, Mode, Setting, B!raising
<1>2. Destroyed' /\ Dark'
  BY DEF LightInv, Destroyed, Dark, Deactivates
<1>3. Reads' /\ Follows'
  BY DEF LightInv, Reads, Follows, Noticed, Deactivates
<1>. QED
  BY <1>1, <1>2, <1>3 DEF LightInv

LEMMA LightNext == ASSUME NoSetting, LightInv, B!Next  PROVE LightInv'
<1>1. ASSUME B!Worker  PROVE LightInv'
  BY <1>1, Takes, Activates, DeactivateEnds, Slept, LookEnable, LookDisable, RampedUp, RampedDown,
     Ended DEF B!Worker
<1>2. ASSUME B!Sensor  PROVE LightInv'
  BY <1>2, SensorChanges, ReadTransition, ReadLow, ReadMid, ReadHigh DEF B!Sensor
<1>. QED
  BY <1>1, <1>2, LightChanges, ScreenTurns, OnDestroy, OnCreate, ProcessDies DEF B!Next, Level

\* At rest no reading is pending and no job waits.
LEMMA LightIsFollowedInv == ASSUME NoSetting, LightInv  PROVE B!LightFollowed
<1>. SUFFICES ASSUME B!atRest  PROVE B!LightFollowed
  BY DEF B!LightFollowed
<1>1. /\ sensor = "idle" /\ ~reading /\ jobs = <<>> /\ job.fn \notin JobFn
      /\ \A y : y \notin B!ToSet(jobs)
  BY DEF B!atRest, B!ToSet, B!idle, NoSetting
<1>2. ~Deactivates /\ ~B!raising
  BY <1>1 DEF Deactivates, B!raising, JobFn
<1>3. hbm => (light # "low" \/ ~listening \/ missed)
  BY <1>1, <1>2 DEF LightInv, Follows, Noticed, JobFn
<1>4. hbm => ((screenOn /\ created) \/ late \/ missed)
  BY <1>2 DEF LightInv, LightTypes, Dark
<1>5. hbm = mAutoHBMActive \/ missed
  BY <1>1, <1>2 DEF LightInv, LightTypes, Mode, JobFn
<1>6. ~hbm => (mStoredBrightness = None /\ brightness = "user") \/ died
  BY DEF LightInv, Setting
<1>. QED
  BY <1>3, <1>4, <1>5, <1>6 DEF B!LightFollowed

\* However readings, screen broadcasts, the end of the service or of its process
\* and the waits and ramps of its worker interleave, cancelled or not: when all is
\* done the mode is on only in a light not low and with the screen on, is known to
\* be on, and while it is off the user's brightness is set, but for the losses the
\* property names (AutoHBMService.java).  The hypothesis: None is no job and no
\* brightness.
THEOREM LightIsFollowed ==
  ASSUME NoSetting  PROVE Spec => []LightFollowed
<1>. DEFINE Inv == part = "display" => LightInv
<1>1. Init => Inv
  BY LightInit DEF Init
<1>2. Inv /\ [Next]_<<part, ni, observer, display, xtra, gnss, batch, reports>> => Inv'
  <2> SUFFICES ASSUME Inv, part' = "display",
                      [Next]_<<part, ni, observer, display, xtra, gnss, batch, reports>>
               PROVE  LightInv'
    OBVIOUS
  <2>1. part = "display" /\ (B!Next \/ UNCHANGED display)
    BY DEF Next, Ni, Items, Display, Xtra, Gnss, Batch, Reports
  <2>2. UNCHANGED display => UNCHANGED B!vars
    BY DEF display, B!vars, B!main, B!service, B!panel, B!history
  <2>. QED
    BY <2>1, <2>2, LightNext, LightUnchanged
<1>3. Inv => LightFollowed
  BY LightIsFollowedInv DEF LightFollowed
<1>. QED
  BY <1>1, <1>2, <1>3, PTL DEF Spec
------------------------------------------------------------------------------
(* The XTRA daemon.  Once it has asked and is answered, what it knows of an *)
(* item, and then reads of it in its datagrams in their order, is what the *)
(* adapter knows (ItemsTold), and the source it runs, and then is told to, *)
(* is the one to be restarted (SourceTold); before that its request is on  *)
(* the way (Heard).  That source is the one enabled last, of the session,  *)
(* or is left over (SourceKept), and is started as soon as it may be       *)
(* (SourceDue).                                                            *)

\* What is known of the items, the messages for the task and the datagrams for the
\* daemon; of the datagrams, those that write an item, or the source, and what.
ItemValues == [StatusItem -> {None, 0, 1}]
SourceParams == Params \cup {None}
TaskMessage ==
  [fn : {"requestStatus"}, updated : BOOLEAN] \cup [fn : {"enable"}, params : Params]
    \cup [fn : {"disable"}]
Writes(i) == [fn : {"update"}, item : {i}, value : {0, 1}]
               \cup [fn : {"respondStatus"}, values : ItemValues]
Written(i) == [d \in Writes(i) |-> IF d.fn = "update" THEN d.value ELSE d.values[i]]
Switches == [fn : {"startDgnssSource"}, params : SourceParams] \cup [fn : {"stopDgnssSource"}]
Switched == [d \in Switches |-> IF d.fn = "startDgnssSource" THEN d.params ELSE None]
Datagram ==
  [fn : {"halinit", "updateDgnssServerNmea"}] \cup [fn : {"xtrathrottle"}, value : BOOLEAN]
    \cup (UNION {Writes(i) : i \in StatusItem}) \cup [fn : {"respondStatus"}, values : ItemValues]
    \cup Switches

XtraTypes ==
  /\ posted \in Seq(TaskMessage) /\ sent \in Seq(Datagram)
  /\ daemon \in [up : BOOLEAN, asked : BOOLEAN, knows : ItemValues, source : SourceParams]
  /\ values \in ItemValues /\ ntripParams \in SourceParams /\ mNtripParamsString \in SourceParams
  /\ mDgnssState \subseteq {"enabled", "noNmeaPending", "started"}

\* Who has read k, and all datagrams of q but the writing of others, has v.
ReadsAs(q, W, written, k, v) ==
  \/ k = v /\ \A n \in 1..Len(q) : q[n] \notin W
  \/ \E n \in 1..Len(q) :
       q[n] \in W /\ written[q[n]] = v /\ \A j \in 1..Len(q) : j > n => q[j] \notin W

\* The daemon asked for the state; or will, when it reads that the program is ready.
StatusAsked == \E n \in 1..Len(posted) : posted[n].fn = "requestStatus" /\ ~posted[n].updated
Halted == \E n \in 1..Len(sent) : sent[n].fn = "halinit"

\* Nobody sends to a daemon that is not there.
Unheard == ~daemon.up => sent = <<>>
\* A daemon that is there was answered, or will be;
Heard == daemon.up /\ ~mReqStatusReceived => StatusAsked
\* with all it was sent it knows the items,
ItemsTold == daemon.up /\ ~StatusAsked /\ ~Halted =>
  \A i \in StatusItem : ReadsAs(sent, Writes(i), Written(i), daemon.knows[i], values[i])
\* and runs the source that was started last.
SourceTold == daemon.up =>
  \/ ReadsAs(sent, Switches, Switched, daemon.source, mNtripParamsString)
  \/ StatusAsked /\ ReadsAs(sent, Switches, Switched, daemon.source, None)

\* A source that was started and not stopped is that of a session, or is left over;
SourceKept ==
  /\ "started" \in mDgnssState => "enabled" \in mDgnssState /\ mNtripParamsString = ntripParams
                                  /\ (inSession \/ leftover)
  /\ mNtripParamsString # None /\ ~leftover => "started" \in mDgnssState
\* and in a session it is started, unless it waits for a position.
SourceDue == "enabled" \in mDgnssState =>
  /\ "noNmeaPending" \in mDgnssState /\ inSession /\ ~startPending => "started" \in mDgnssState
  /\ "noNmeaPending" \notin mDgnssState =>
       ntripParams.requiresNmeaLocation /\ (mSendNmeaConsent \/ muted) /\ ~gga

XtraInv ==
  /\ XtraTypes /\ Unheard /\ Heard /\ ItemsTold /\ SourceTold /\ SourceKept /\ SourceDue

\* A datagram after others is read last, and the first is read first.
LEMMA Pushed ==
  ASSUME NEW T, NEW q \in Seq(T), NEW x \in T
  PROVE  LET p == Append(q, x)
         IN /\ p \in Seq(T) /\ Len(q) \in Nat /\ Len(p) = Len(q) + 1
            /\ \A i \in 1..Len(q) : p[i] = q[i]
            /\ p[Len(q) + 1] = x
  OBVIOUS

LEMMA Popped ==
  ASSUME NEW T, NEW q \in Seq(T), q # <<>>
  PROVE  /\ Tail(q) \in Seq(T) /\ Len(q) \in Nat /\ Len(q) >= 1 /\ Len(Tail(q)) = Len(q) - 1
         /\ \A i \in 1..(Len(q) - 1) : Tail(q)[i] = q[i + 1]
         /\ Head(q) = q[1] /\ q[1] \in T
  OBVIOUS

LEMMA ReadLast ==
  ASSUME NEW T, NEW q \in Seq(T), NEW d \in T, NEW W, NEW written, NEW k
  PROVE  /\ d \in W => ReadsAs(Append(q, d), W, written, k, written[d])
         /\ \A v : d \notin W /\ ReadsAs(q, W, written, k, v)
                     => ReadsAs(Append(q, d), W, written, k, v)
<1>. DEFINE p == Append(q, d)
<1>1. /\ Len(q) \in Nat /\ Len(p) = Len(q) + 1 /\ \A i \in 1..Len(q) : p[i] = q[i]
      /\ p[Len(q) + 1] = d
  BY Pushed
<1>2. /\ Len(q) + 1 \in 1..Len(p) /\ 1..Len(q) \subseteq 1..Len(p)
      /\ \A i \in 1..Len(p) : i \in 1..Len(q) \/ i = Len(q) + 1
      /\ \A i \in 1..Len(p) : ~(i > Len(q) + 1)
  BY <1>1
<1>. HIDE DEF p
<1>3. d \in W => ReadsAs(p, W, written, k, written[d])
  BY <1>1, <1>2 DEF ReadsAs
<1>4. ASSUME NEW v, d \notin W, ReadsAs(q, W, written, k, v)  PROVE ReadsAs(p, W, written, k, v)
  <2>1. CASE k = v /\ \A n \in 1..Len(q) : q[n] \notin W
    <3>1. \A n \in 1..Len(p) : p[n] \notin W
      BY <1>1, <1>2, <1>4, <2>1
    <3>. QED
      BY <2>1, <3>1 DEF ReadsAs
  <2>2. ASSUME NEW n \in 1..Len(q), q[n] \in W, written[q[n]] = v,
               \A j \in 1..Len(q) : j > n => q[j] \notin W
        PROVE  ReadsAs(p, W, written, k, v)
    <3>1. n \in 1..Len(p) /\ p[n] \in W /\ written[p[n]] = v
      BY <1>1, <1>2, <2>2
    <3>2. \A j \in 1..Len(p) : j > n => p[j] \notin W
      BY <1>1, <1>2, <1>4, <2>2
    <3>. QED
      BY <3>1, <3>2 DEF ReadsAs
  <2>. QED
    BY <1>4, <2>1, <2>2 DEF ReadsAs
<1>. QED
  BY <1>3, <1>4 DEF p

LEMMA ReadFirst ==
  ASSUME NEW T, NEW q \in Seq(T), q # <<>>, NEW W, NEW written, NEW k, NEW v,
         ReadsAs(q, W, written, k, v)
  PROVE  ReadsAs(Tail(q), W, written, IF Head(q) \in W THEN written[Head(q)] ELSE k, v)
<1>. DEFINE p == Tail(q)
            h == IF Head(q) \in W THEN written[Head(q)] ELSE k
<1>1. /\ Len(q) \in Nat /\ Len(q) >= 1 /\ Len(p) = Len(q) - 1
      /\ \A i \in 1..(Len(q) - 1) : p[i] = q[i + 1]
      /\ Head(q) = q[1]
  BY Popped
<1>2. /\ 1 \in 1..Len(q) /\ \A i \in 1..Len(p) : i + 1 \in 1..Len(q) /\ p[i] = q[i + 1]
      /\ \A i \in 1..Len(q) : i # 1 => i - 1 \in 1..Len(p) /\ p[i - 1] = q[i]
      /\ \A i \in 1..Len(p) : i + 1 > 1
  BY <1>1
<1>3. h = IF q[1] \in W THEN written[q[1]] ELSE k
  BY <1>1
<1>. HIDE DEF p, h
<1>4. CASE k = v /\ \A n \in 1..Len(q) : q[n] \notin W
  <2>1. h = v /\ \A n \in 1..Len(p) : p[n] \notin W
    BY <1>2, <1>3, <1>4
  <2>. QED
    BY <2>1 DEF ReadsAs, p, h
<1>5. ASSUME NEW n \in 1..Len(q), q[n] \in W, written[q[n]] = v,
             \A j \in 1..Len(q) : j > n => q[j] \notin W
      PROVE  ReadsAs(p, W, written, h, v)
  <2>1. CASE n = 1
    <3>1. \A j \in 1..Len(p) : p[j] \notin W
      BY Zenon, <1>2, <1>5, <2>1
    <3>2. h = v
      BY <1>3, <1>5, <2>1
    <3>. QED
      BY <3>1, <3>2 DEF ReadsAs
  <2>2. CASE n # 1
    <3>1. n - 1 \in 1..Len(p) /\ p[n - 1] \in W /\ written[p[n - 1]] = v
      BY <1>2, <1>5, <2>2
    <3>2. ASSUME NEW j \in 1..Len(p), j > n - 1  PROVE p[j] \notin W
      <4>1. j + 1 \in 1..Len(q) /\ p[j] = q[j + 1]
        BY <1>2
      <4>2. j + 1 > n
        BY <1>1, <3>2
      <4>. QED
        BY <1>5, <4>1, <4>2
    <3>. QED
      BY <3>1, <3>2 DEF ReadsAs
  <2>. QED
    BY <2>1, <2>2
<1>. QED
  BY <1>4, <1>5 DEF ReadsAs, p, h

\* What a datagram is.
LEMMA DatagramIs ==
  ASSUME NEW d \in Datagram
  PROVE  /\ d \in Switches <=> d.fn \in {"startDgnssSource", "stopDgnssSource"}
         /\ d \in Switches => Switched[d] = IF d.fn = "startDgnssSource" THEN d.params ELSE None
         /\ d.fn = "startDgnssSource" => d.params \in SourceParams
         /\ d.fn = "respondStatus" => d.values \in ItemValues
         /\ d.fn = "update" => d.item \in StatusItem /\ d.value \in {0, 1}
         /\ \A i \in StatusItem :
              /\ d \in Writes(i) <=> d.fn = "respondStatus" \/ (d.fn = "update" /\ d.item = i)
              /\ d \in Writes(i) => Written(i)[d] = IF d.fn = "update" THEN d.value ELSE d.values[i]
<1>1. CASE d \in [fn : {"halinit", "updateDgnssServerNmea"}]
  BY <1>1 DEF Switches, Writes
<1>2. CASE d \in [fn : {"xtrathrottle"}, value : BOOLEAN]
  BY <1>2 DEF Switches, Writes
<1>3. CASE d \in [fn : {"respondStatus"}, values : ItemValues]
  BY <1>3 DEF Switches, Writes, Written
<1>4. CASE d \in Switches
  <2>1. d.fn \in {"startDgnssSource", "stopDgnssSource"}
    BY <1>4 DEF Switches
  <2>2. d.fn = "startDgnssSource" => d.params \in SourceParams
    BY <1>4 DEF Switches
  <2>3. \A i \in StatusItem : d \notin Writes(i)
    BY <2>1 DEF Writes
  <2>. QED
    BY <1>4, <2>1, <2>2, <2>3 DEF Switched
<1>5. ASSUME NEW e \in StatusItem, d \in [fn : {"update"}, item : {e}, value : {0, 1}]
      PROVE  /\ d.fn = "update" /\ d.item = e /\ d.value \in {0, 1} /\ d \notin Switches
             /\ \A i \in StatusItem :
                  /\ d \in Writes(i) <=> d.item = i
                  /\ d \in Writes(i) => Written(i)[d] = d.value
  <2>1. d.fn = "update" /\ d.item = e /\ d.value \in {0, 1}
    BY <1>5
  <2>2. d \notin Switches
    BY <2>1 DEF Switches
  <2>3. ASSUME NEW i \in StatusItem  PROVE d \in Writes(i) <=> d.item = i
    BY <1>5, <2>1 DEF Writes
  <2>4. ASSUME NEW i \in StatusItem, d \in Writes(i)  PROVE Written(i)[d] = d.value
    BY <2>1, <2>4 DEF Written
  <2>. QED
    BY <2>1, <2>2, <2>3, <2>4
<1>6. \/ d \in [fn : {"halinit", "updateDgnssServerNmea"}]
      \/ d \in [fn : {"xtrathrottle"}, value : BOOLEAN]
      \/ d \in [fn : {"respondStatus"}, values : ItemValues]
      \/ d \in Switches
      \/ \E e \in StatusItem : d \in [fn : {"update"}, item : {e}, value : {0, 1}]
  BY DEF Datagram, Writes
<1>. QED
  BY <1>1, <1>2, <1>3, <1>4, <1>5, <1>6

LEMMA XtraInit == X!Init => XtraInv
<1>. SUFFICES ASSUME X!Init  PROVE XtraInv
  OBVIOUS
<1>. USE DEF X!Init
<1>1. X!down \in [up : BOOLEAN, asked : BOOLEAN, knows : ItemValues, source : SourceParams]
  BY DEF X!down, ItemValues, SourceParams
<1>2. posted \in Seq(TaskMessage) /\ sent \in Seq(Datagram) /\ values \in ItemValues
      /\ ntripParams \in SourceParams /\ mNtripParamsString \in SourceParams
  BY DEF ItemValues, SourceParams
<1>3. XtraTypes
  BY <1>1, <1>2 DEF XtraTypes
<1>4. ~daemon.up
  BY DEF X!down
<1>. QED
  BY <1>3, <1>4 DEF XtraInv, Unheard, Heard, ItemsTold, SourceTold, SourceKept, SourceDue

\* What the task is told, and takes.
LEMMA TaskTold ==
  ASSUME XtraTypes, NEW m \in TaskMessage, X!post(m)
  PROVE  /\ posted' \in Seq(TaskMessage)
         /\ StatusAsked' <=> StatusAsked \/ (m.fn = "requestStatus" /\ ~m.updated)
<1>1. posted' = Append(posted, m)
  BY DEF X!post
<1>2. /\ posted' \in Seq(TaskMessage) /\ Len(posted) \in Nat /\ Len(posted') = Len(posted) + 1
      /\ \A i \in 1..Len(posted) : posted'[i] = posted[i]
      /\ posted'[Len(posted) + 1] = m
  BY <1>1, Pushed DEF XtraTypes
<1>3. /\ Len(posted) + 1 \in 1..Len(posted') /\ 1..Len(posted) \subseteq 1..Len(posted')
      /\ \A i \in 1..Len(posted') : i \in 1..Len(posted) \/ i = Len(posted) + 1
  BY <1>2
<1>. QED
  BY <1>2, <1>3 DEF StatusAsked

LEMMA TaskTakes ==
  ASSUME XtraTypes, NEW fn, X!receive(fn)
  PROVE  /\ posted' \in Seq(TaskMessage) /\ Head(posted) \in TaskMessage
         /\ Head(posted).fn = fn
         /\ StatusAsked' => StatusAsked
         /\ StatusAsked => StatusAsked' \/ (fn = "requestStatus" /\ ~Head(posted).updated)
<1>1. posted # <<>> /\ Head(posted).fn = fn /\ posted' = Tail(posted)
  BY DEF X!receive
<1>2. /\ posted' \in Seq(TaskMessage) /\ Len(posted) \in Nat /\ Len(posted) >= 1
      /\ Len(posted') = Len(posted) - 1
      /\ \A i \in 1..Len(posted') : posted'[i] = posted[i + 1]
      /\ Head(posted) = posted[1] /\ posted[1] \in TaskMessage
  BY <1>1, Popped DEF XtraTypes
<1>3. /\ \A i \in 1..Len(posted') : i + 1 \in 1..Len(posted)
      /\ \A i \in 1..Len(posted) : i # 1 =>
           i - 1 \in 1..Len(posted') /\ posted'[i - 1] = posted[i]
  BY <1>2
<1>4. StatusAsked' => StatusAsked
  BY <1>2, <1>3 DEF StatusAsked
<1>5. StatusAsked => StatusAsked' \/ (fn = "requestStatus" /\ ~Head(posted).updated)
  <2>. SUFFICES ASSUME NEW n \in 1..Len(posted), posted[n].fn = "requestStatus",
                       ~posted[n].updated
                PROVE  StatusAsked' \/ (fn = "requestStatus" /\ ~Head(posted).updated)
    BY DEF StatusAsked
  <2>1. CASE n = 1
    BY <1>1, <1>2, <2>1
  <2>2. CASE n # 1
    BY <1>3, <2>2 DEF StatusAsked
  <2>. QED
    BY <2>1, <2>2
<1>. QED
  BY <1>1, <1>2, <1>4, <1>5

\* One more datagram, or two.
LEMMA Joined ==
  ASSUME NEW T, NEW q \in Seq(T), NEW d \in T, NEW e \in T
  PROVE  /\ q \o <<d>> = Append(q, d) /\ Append(q, d) \in Seq(T)
         /\ q \o (<<d>> \o <<e>>) = Append(Append(q, d), e)
  OBVIOUS

\* What is sent to the daemon, if it is there.
LEMMA Sends ==
  ASSUME XtraTypes, Unheard, daemon' = daemon, NEW d \in Datagram, sent' = X!after(<<d>>)
  PROVE  /\ sent' \in Seq(Datagram) /\ Unheard'
         /\ daemon.up => sent' = Append(sent, d) /\ (Halted' <=> Halted \/ d.fn = "halinit")
<1>0. sent \in Seq(Datagram)
  BY DEF XtraTypes
<1>1. CASE daemon.up
  <2>1. sent' = Append(sent, d)
    <3>1. sent \o <<d>> = Append(sent, d)
      BY <1>0, Joined
    <3>. QED
      BY <1>1, <3>1 DEF X!after
  <2>2. /\ sent' \in Seq(Datagram) /\ Len(sent) \in Nat /\ Len(sent') = Len(sent) + 1
        /\ \A i \in 1..Len(sent) : sent'[i] = sent[i]
        /\ sent'[Len(sent) + 1] = d
    BY <1>0, <2>1, Pushed
  <2>3. /\ Len(sent) + 1 \in 1..Len(sent') /\ 1..Len(sent) \subseteq 1..Len(sent')
        /\ \A i \in 1..Len(sent') : i \in 1..Len(sent) \/ i = Len(sent) + 1
    BY <2>2
  <2>4. Halted' <=> Halted \/ d.fn = "halinit"
    BY Zenon, <2>2, <2>3 DEF Halted
  <2>. QED
    BY <1>1, <2>1, <2>2, <2>4 DEF Unheard
<1>2. CASE ~daemon.up
  BY <1>0, <1>2 DEF X!after, Unheard
<1>. QED
  BY <1>1, <1>2

\* A step that tells the daemon nothing of the items, and of the source what is kept
\* to be told again.
Steers ==
  \/ sent' = sent /\ mNtripParamsString' = mNtripParamsString
  \/ /\ \E d \in Datagram :
          /\ d.fn \in {"halinit", "xtrathrottle", "updateDgnssServerNmea"}
          /\ sent' = X!after(<<d>>)
     /\ mNtripParamsString' = mNtripParamsString
  \/ /\ mNtripParamsString' \in SourceParams
     /\ sent' = X!after(<<[fn |-> "startDgnssSource", params |-> mNtripParamsString']>>)
  \/ /\ mNtripParamsString' = None
     /\ sent' = X!after(<<[fn |-> "stopDgnssSource"]>>)
  \/ /\ mNtripParamsString' \in SourceParams
     /\ sent' = X!after(<<[fn |-> "stopDgnssSource"]>>
                      \o <<[fn |-> "startDgnssSource", params |-> mNtripParamsString']>>)

LEMMA SourceIs ==
  /\ [fn |-> "stopDgnssSource"] \in Datagram /\ [fn |-> "stopDgnssSource"] \in Switches
  /\ Switched[[fn |-> "stopDgnssSource"]] = None
  /\ \A i \in StatusItem : [fn |-> "stopDgnssSource"] \notin Writes(i)
  /\ \A p \in SourceParams :
       /\ [fn |-> "startDgnssSource", params |-> p] \in Datagram
       /\ [fn |-> "startDgnssSource", params |-> p] \in Switches
       /\ Switched[[fn |-> "startDgnssSource", params |-> p]] = p
       /\ \A i \in StatusItem : [fn |-> "startDgnssSource", params |-> p] \notin Writes(i)
<1>1. [fn |-> "stopDgnssSource"] \in Switches /\ [fn |-> "stopDgnssSource"].fn = "stopDgnssSource"
  BY DEF Switches
<1>2. ASSUME NEW p \in SourceParams
      PROVE  /\ [fn |-> "startDgnssSource", params |-> p] \in Switches
             /\ [fn |-> "startDgnssSource", params |-> p].fn = "startDgnssSource"
             /\ [fn |-> "startDgnssSource", params |-> p].params = p
  BY DEF Switches
<1>3. Switches \subseteq Datagram
  BY DEF Datagram
<1>4. [fn |-> "stopDgnssSource"] \in Datagram
  BY <1>1, <1>3
<1>5. /\ Switched[[fn |-> "stopDgnssSource"]] = None
      /\ \A i \in StatusItem : [fn |-> "stopDgnssSource"] \notin Writes(i)
  BY <1>1, <1>4, DatagramIs
<1>6. ASSUME NEW p \in SourceParams
      PROVE  /\ [fn |-> "startDgnssSource", params |-> p] \in Datagram
             /\ [fn |-> "startDgnssSource", params |-> p] \in Switches
             /\ Switched[[fn |-> "startDgnssSource", params |-> p]] = p
             /\ \A i \in StatusItem : [fn |-> "startDgnssSource", params |-> p] \notin Writes(i)
  <2>. DEFINE d == [fn |-> "startDgnssSource", params |-> p]
  <2>1. d \in Switches /\ d.fn = "startDgnssSource" /\ d.params = p
    BY <1>2
  <2>2. d \in Datagram
    BY <1>3, <2>1
  <2>. HIDE DEF d
  <2>3. Switched[d] = p /\ \A i \in StatusItem : d \notin Writes(i)
    BY <2>1, <2>2, DatagramIs
  <2>. QED
    BY <2>1, <2>2, <2>3 DEF d
<1>. QED
  BY <1>1, <1>4, <1>5, <1>6

LEMMA Steered ==
  ASSUME XtraInv, Steers, StatusAsked' <=> StatusAsked,
         UNCHANGED <<daemon, values, mReqStatusReceived>>
  PROVE  /\ sent' \in Seq(Datagram) /\ mNtripParamsString' \in SourceParams
         /\ Unheard' /\ Heard' /\ ItemsTold' /\ SourceTold'
<1>0. XtraTypes /\ Unheard /\ Heard /\ ItemsTold /\ SourceTold
  BY DEF XtraInv
<1>00. sent \in Seq(Datagram)
  BY <1>0 DEF XtraTypes
<1>1. Heard'
  BY <1>0 DEF Heard
<1>2. CASE sent' = sent /\ mNtripParamsString' = mNtripParamsString
  <2>1. Unheard' /\ (Halted' <=> Halted)
    BY <1>0, <1>2 DEF Unheard, Halted
  <2>2. ItemsTold' /\ SourceTold'
    BY <1>0, <1>2, <2>1 DEF ItemsTold, SourceTold
  <2>. QED
    BY <1>0, <1>1, <1>2, <2>1, <2>2 DEF XtraTypes
<1>3. ASSUME NEW d \in Datagram, d.fn \in {"halinit", "xtrathrottle", "updateDgnssServerNmea"},
             sent' = X!after(<<d>>), mNtripParamsString' = mNtripParamsString
      PROVE  sent' \in Seq(Datagram) /\ Unheard' /\ ItemsTold' /\ SourceTold'
  <2>1. sent' \in Seq(Datagram) /\ Unheard'
        /\ (daemon.up => sent' = Append(sent, d) /\ (Halted' <=> Halted \/ d.fn = "halinit"))
    BY <1>0, <1>3, Sends
  <2>2. d \notin Switches /\ \A i \in StatusItem : d \notin Writes(i)
    BY <1>3, DatagramIs
  <2>3. daemon.up => \A W, written, k, v :
                       d \notin W /\ ReadsAs(sent, W, written, k, v)
                         => ReadsAs(sent', W, written, k, v)
    BY Zenon, <1>00, <2>1, ReadLast
  <2>4. ItemsTold'
    BY <1>0, <1>3, <2>1, <2>2, <2>3 DEF ItemsTold
  <2>5. SourceTold'
    BY <1>0, <1>3, <2>2, <2>3 DEF SourceTold
  <2>. QED
    BY <2>1, <2>4, <2>5
<1>4. ASSUME NEW d \in Switches, d \in Datagram, \A i \in StatusItem : d \notin Writes(i),
             d.fn # "halinit", sent' = X!after(<<d>>), Switched[d] = mNtripParamsString'
      PROVE  sent' \in Seq(Datagram) /\ Unheard' /\ ItemsTold' /\ SourceTold'
  <2>1. sent' \in Seq(Datagram) /\ Unheard'
        /\ (daemon.up => sent' = Append(sent, d) /\ (Halted' <=> Halted))
    BY <1>0, <1>4, Sends
  <2>3. daemon.up => \A W, written, k, v :
                       d \notin W /\ ReadsAs(sent, W, written, k, v)
                         => ReadsAs(sent', W, written, k, v)
    BY Zenon, <1>00, <1>4, <2>1, ReadLast
  <2>4. ItemsTold'
    BY <1>0, <1>4, <2>1, <2>3 DEF ItemsTold
  <2>5. daemon.up => ReadsAs(sent', Switches, Switched, daemon.source, Switched[d])
    BY Zenon, <1>00, <1>4, <2>1, ReadLast
  <2>6. SourceTold'
    BY <1>4, <2>5 DEF SourceTold
  <2>. QED
    BY <2>1, <2>4, <2>6
<1>5. ASSUME NEW d \in Switches, d \in Datagram, \A i \in StatusItem : d \notin Writes(i),
             d.fn # "halinit",
             NEW e \in Switches, e \in Datagram, \A i \in StatusItem : e \notin Writes(i),
             e.fn # "halinit", sent' = X!after(<<d>> \o <<e>>), Switched[e] = mNtripParamsString'
      PROVE  sent' \in Seq(Datagram) /\ Unheard' /\ ItemsTold' /\ SourceTold'
  <2>. DEFINE q == Append(sent, d)
  <2>1. CASE ~daemon.up
    <3>1. sent' = sent
      BY <2>1, <1>5 DEF X!after
    <3>. QED
      BY <1>0, <2>1, <3>1 DEF Unheard, ItemsTold, SourceTold, XtraTypes
  <2>2. CASE daemon.up
    <3>0. q \in Seq(Datagram) /\ sent \o (<<d>> \o <<e>>) = Append(q, e)
      BY <1>00, <1>5, Joined
    <3>1. q \in Seq(Datagram) /\ sent' = Append(q, e)
      BY <1>5, <2>2, <3>0 DEF X!after
    <3>2. /\ Len(sent) \in Nat /\ Len(q) = Len(sent) + 1 /\ q[Len(sent) + 1] = d
          /\ \A i \in 1..Len(sent) : q[i] = sent[i]
      BY <1>00, <1>5, Pushed
    <3>3. \A W, written, k, v : d \notin W /\ ReadsAs(sent, W, written, k, v)
                                  => ReadsAs(q, W, written, k, v)
      BY <1>00, <1>5, ReadLast
    <3>. HIDE DEF q
    <3>4. /\ sent' \in Seq(Datagram) /\ Len(q) \in Nat /\ Len(sent') = Len(q) + 1
          /\ sent'[Len(q) + 1] = e /\ \A i \in 1..Len(q) : sent'[i] = q[i]
      <4>1. e \in Datagram /\ q \in Seq(Datagram)
        BY <1>5, <3>1
      <4>. QED
        BY <3>1, <4>1, Pushed
    <3>5. \A W, written, k, v : e \notin W /\ ReadsAs(q, W, written, k, v)
                                  => ReadsAs(sent', W, written, k, v)
      BY Zenon, <1>5, <3>1, ReadLast
    <3>6. ReadsAs(sent', Switches, Switched, daemon.source, Switched[e])
      BY Zenon, <1>5, <3>1, ReadLast
    <3>7. Halted => Halted'
      <4>1. \A i \in 1..Len(sent) : i \in 1..Len(sent') /\ sent'[i] = sent[i]
        BY <3>2, <3>4
      <4>. QED
        BY <4>1 DEF Halted
    <3>8. ItemsTold'
      <4>. SUFFICES ASSUME ~StatusAsked', ~Halted', NEW i \in StatusItem
                    PROVE  ReadsAs(sent', Writes(i), Written(i), daemon.knows[i], values[i])
        BY DEF ItemsTold
      <4>1. ReadsAs(sent, Writes(i), Written(i), daemon.knows[i], values[i])
        BY <1>0, <2>2, <3>7 DEF ItemsTold
      <4>2. d \notin Writes(i) /\ e \notin Writes(i)
        BY <1>5
      <4>3. ReadsAs(q, Writes(i), Written(i), daemon.knows[i], values[i])
        BY <3>3, <4>1, <4>2
      <4>. QED
        BY <3>5, <4>2, <4>3
    <3>9. SourceTold'
      BY <1>5, <3>6 DEF SourceTold
    <3>. QED
      BY <2>2, <3>4, <3>8, <3>9 DEF Unheard
  <2>. QED
    BY <2>1, <2>2
<1>6. /\ [fn |-> "stopDgnssSource"].fn # "halinit"
      /\ \A p : [fn |-> "startDgnssSource", params |-> p].fn # "halinit"
      /\ None \in SourceParams
  BY DEF SourceParams
<1>7. CASE /\ mNtripParamsString' \in SourceParams
           /\ sent' = X!after(<<[fn |-> "startDgnssSource", params |-> mNtripParamsString']>>)
  BY <1>1, <1>4, <1>6, <1>7, SourceIs
<1>8. CASE mNtripParamsString' = None /\ sent' = X!after(<<[fn |-> "stopDgnssSource"]>>)
  BY <1>1, <1>4, <1>6, <1>8, SourceIs
<1>9. CASE /\ mNtripParamsString' \in SourceParams
           /\ sent' = X!after(<<[fn |-> "stopDgnssSource"]>>
                      \o <<[fn |-> "startDgnssSource", params |-> mNtripParamsString']>>)
  BY <1>1, <1>5, <1>6, <1>9, SourceIs
<1>10. mNtripParamsString \in SourceParams
  BY <1>0 DEF XtraTypes
<1>. QED
  BY Zenon, <1>1, <1>2, <1>3, <1>7, <1>8, <1>9, <1>10 DEF Steers

\* The steps of the source.
LEMMA Checks ==
  ASSUME NEW state, NEW params \in SourceParams, X!checkUpdateDgnssNtrip(state, params)
  PROVE  /\ Steers
         /\ X!starts(state) => mDgnssState' = state \cup {"started"} /\ mNtripParamsString' = params
         /\ ~X!starts(state) => mDgnssState' = state /\ mNtripParamsString' = mNtripParamsString
<1>1. CASE X!starts(state)
  BY <1>1 DEF X!checkUpdateDgnssNtrip, Steers
<1>2. CASE ~X!starts(state)
  <2>. DEFINE d == [fn |-> "updateDgnssServerNmea"]
  <2>1. d \in Datagram /\ d.fn = "updateDgnssServerNmea"
    BY DEF Datagram
  <2>2. /\ mDgnssState' = state /\ mNtripParamsString' = mNtripParamsString
        /\ sent' = sent \/ sent' = X!after(<<d>>)
    BY <1>2 DEF X!checkUpdateDgnssNtrip
  <2>. HIDE DEF d
  <2>. QED
    BY <1>2, <2>1, <2>2 DEF Steers
<1>. QED
  BY <1>1, <1>2

LEMMA Stops ==
  ASSUME NEW state, X!stopDgnssNtrip(state)
  PROVE  /\ Steers /\ mDgnssState' = state \ {"started"}
         /\ "started" \in state => mNtripParamsString' = None
         /\ "started" \notin state => mNtripParamsString' = mNtripParamsString
BY DEF X!stopDgnssNtrip, X!stopDgnssSource, Steers

LEMMA Adapts ==
  ASSUME XtraInv, Steers, StatusAsked' <=> StatusAsked, posted' \in Seq(TaskMessage),
         UNCHANGED <<daemon, values, mReqStatusReceived>>, ntripParams' \in SourceParams,
         mDgnssState' \subseteq {"enabled", "noNmeaPending", "started"}, SourceKept', SourceDue'
  PROVE  XtraInv'
BY Steered DEF XtraInv, XtraTypes

\* Of three states, those of a source that may start.
LEMMA MayStart ==
  ASSUME NEW state, state \subseteq {"enabled", "noNmeaPending", "started"}
  PROVE  X!starts(state) <=> /\ inSession /\ "enabled" \in state
                             /\ "noNmeaPending" \in state /\ "started" \notin state
<1>1. state = {"enabled", "noNmeaPending"}
        <=> "enabled" \in state /\ "noNmeaPending" \in state /\ "started" \notin state
  BY Zenon
<1>. QED
  BY <1>1 DEF X!starts

\* A check of what is kept enabled leaves no source that may start unstarted.
LEMMA Checked ==
  ASSUME XtraTypes, NEW state, state \subseteq {"enabled", "noNmeaPending", "started"},
         NEW params \in SourceParams, X!checkUpdateDgnssNtrip(state, params)
  PROVE  /\ mDgnssState' \subseteq {"enabled", "noNmeaPending", "started"}
         /\ "enabled" \in mDgnssState' <=> "enabled" \in state
         /\ "noNmeaPending" \in mDgnssState' <=> "noNmeaPending" \in state
         /\ "started" \in mDgnssState' <=> "started" \in state \/ X!starts(state)
         /\ mNtripParamsString' = IF X!starts(state) THEN params ELSE mNtripParamsString
<1>1. CASE X!starts(state)
  <2>1. mDgnssState' = state \cup {"started"} /\ mNtripParamsString' = params
    BY <1>1, Checks
  <2>. QED
    BY <1>1, <2>1
<1>2. CASE ~X!starts(state)
  <2>1. mDgnssState' = state /\ mNtripParamsString' = mNtripParamsString
    BY <1>2, Checks
  <2>. QED
    BY <1>2, <2>1
<1>. QED
  BY <1>1, <1>2

LEMMA EnableSent == ASSUME XtraInv, NEW params \in Params, X!enablePPENtripStreamCommand(params)
                    PROVE  XtraInv'
<1>. DEFINE m == [fn |-> "enable", params |-> params]
<1>1. XtraTypes /\ SourceKept /\ SourceDue
  BY DEF XtraInv
<1>2. m \in TaskMessage /\ m.fn = "enable" /\ X!post(m)
  BY DEF TaskMessage, X!enablePPENtripStreamCommand
<1>. HIDE DEF m
<1>3. posted' \in Seq(TaskMessage) /\ (StatusAsked' <=> StatusAsked)
  BY <1>1, <1>2, TaskTold
<1>4. UNCHANGED <<X!adapter, X!known, sent, daemon, halinit, X!xtraHistory>>
  BY DEF X!enablePPENtripStreamCommand
<1>5. SourceKept' /\ SourceDue' /\ Steers
  BY <1>1, <1>4 DEF SourceKept, SourceDue, Steers, X!adapter, X!known, X!xtraHistory
<1>. QED
  BY <1>1, <1>3, <1>4, <1>5, Adapts DEF X!adapter, X!known, XtraTypes

LEMMA DisableSent == ASSUME XtraInv, X!disablePPENtripStreamCommand  PROVE XtraInv'
<1>. DEFINE m == [fn |-> "disable"]
<1>1. XtraTypes /\ SourceKept /\ SourceDue
  BY DEF XtraInv
<1>2. m \in TaskMessage /\ m.fn = "disable" /\ X!post(m)
  BY DEF TaskMessage, X!disablePPENtripStreamCommand
<1>. HIDE DEF m
<1>3. posted' \in Seq(TaskMessage) /\ (StatusAsked' <=> StatusAsked)
  BY <1>1, <1>2, TaskTold
<1>4. UNCHANGED <<X!adapter, X!known, sent, daemon, halinit, X!xtraHistory>>
  BY DEF X!disablePPENtripStreamCommand
<1>5. SourceKept' /\ SourceDue' /\ Steers
  BY <1>1, <1>4 DEF SourceKept, SourceDue, Steers, X!adapter, X!known, X!xtraHistory
<1>. QED
  BY <1>1, <1>3, <1>4, <1>5, Adapts DEF X!adapter, X!known, XtraTypes

LEMMA DaemonAsked == ASSUME XtraInv, X!daemonAsks  PROVE XtraInv'
<1>. DEFINE m == [fn |-> "requestStatus", updated |-> TRUE]
<1>1. XtraTypes /\ SourceKept /\ SourceDue
  BY DEF XtraInv
<1>2. m \in TaskMessage /\ m.updated /\ X!post(m)
  BY DEF TaskMessage, X!daemonAsks
<1>. HIDE DEF m
<1>3. posted' \in Seq(TaskMessage) /\ (StatusAsked' <=> StatusAsked)
  BY <1>1, <1>2, TaskTold
<1>4. UNCHANGED <<X!adapter, X!known, sent, daemon, halinit, X!xtraHistory>>
  BY DEF X!daemonAsks
<1>5. SourceKept' /\ SourceDue' /\ Steers
  BY <1>1, <1>4 DEF SourceKept, SourceDue, Steers, X!adapter, X!known, X!xtraHistory
<1>. QED
  BY <1>1, <1>3, <1>4, <1>5, Adapts DEF X!adapter, X!known, XtraTypes

LEMMA ConsentGiven == ASSUME XtraInv, X!updateNTRIPGGAConsentCommand  PROVE XtraInv'
<1>1. XtraTypes /\ SourceKept /\ SourceDue
  BY DEF XtraInv
<1>. USE DEF X!updateNTRIPGGAConsentCommand
<1>2. StatusAsked' <=> StatusAsked
  BY DEF StatusAsked
<1>3. SourceKept' /\ SourceDue' /\ Steers
  BY Zenon, <1>1 DEF SourceKept, SourceDue, Steers, X!known
<1>. QED
  BY <1>1, <1>2, <1>3, Adapts DEF X!known, XtraTypes

LEMMA Enabled == ASSUME XtraInv, X!handleEnablePPENtrip  PROVE XtraInv'
<1>. DEFINE params == Head(posted).params
<1>1. XtraTypes /\ SourceKept /\ SourceDue
  BY DEF XtraInv
<1>2. X!receive("enable")
  BY DEF X!handleEnablePPENtrip
<1>3. posted' \in Seq(TaskMessage) /\ (StatusAsked' <=> StatusAsked)
  BY <1>1, <1>2, TaskTakes
<1>4. params \in Params
  BY <1>1, <1>2, TaskTakes DEF TaskMessage
<1>5. UNCHANGED <<mSendNmeaConsent, inSession, startPending, values, throttle,
                  mReqStatusReceived, daemon, halinit>>
  BY DEF X!handleEnablePPENtrip
<1>. HIDE DEF params
<1>6. CASE UNCHANGED <<mDgnssState, ntripParams, mNtripParamsString, sent, X!xtraHistory>>
  <2>1. SourceKept' /\ SourceDue' /\ Steers
    BY <1>1, <1>5, <1>6 DEF SourceKept, SourceDue, Steers, X!xtraHistory
  <2>. QED
    BY <1>1, <1>3, <1>5, <1>6, <2>1, Adapts DEF XtraTypes
<1>7. CASE /\ ntripParams' = params /\ gga' = FALSE /\ muted' = FALSE
           /\ IF X!required(params)
              THEN mDgnssState' = {"enabled"} /\ UNCHANGED <<mNtripParamsString, sent>>
              ELSE X!checkUpdateDgnssNtrip({"enabled", "noNmeaPending"}, params)
           /\ leftover' = ((leftover \/ "started" \in mDgnssState) /\ "started" \notin mDgnssState')
  <2>0. ntripParams' \in SourceParams
    BY <1>4, <1>7 DEF SourceParams
  <2>1. CASE X!required(params)
    <3>1. mDgnssState' = {"enabled"} /\ UNCHANGED <<mNtripParamsString, sent>> /\ Steers
      BY <1>7, <2>1 DEF Steers
    <3>2. SourceKept'
      BY Zenon, <1>1, <1>7, <3>1 DEF SourceKept
    <3>3. SourceDue'
      BY <1>5, <1>7, <2>1, <3>1 DEF SourceDue, X!required
    <3>. QED
      BY <1>3, <1>5, <2>0, <3>1, <3>2, <3>3, Adapts
  <2>2. CASE ~X!required(params)
    <3>0. params \in SourceParams
      BY <1>4 DEF SourceParams
    <3>. DEFINE state == {"enabled", "noNmeaPending"}
    <3>1. X!checkUpdateDgnssNtrip(state, params) /\ (X!starts(state) <=> inSession)
      BY <1>7, <2>2 DEF X!starts
    <3>. HIDE DEF state
    <3>2. /\ "enabled" \in state /\ "noNmeaPending" \in state /\ "started" \notin state
          /\ state \subseteq {"enabled", "noNmeaPending", "started"}
      BY DEF state
    <3>3. /\ mDgnssState' \subseteq {"enabled", "noNmeaPending", "started"}
          /\ "noNmeaPending" \in mDgnssState' /\ "enabled" \in mDgnssState'
          /\ "started" \in mDgnssState' <=> inSession
          /\ mNtripParamsString' = IF inSession THEN params ELSE mNtripParamsString
      BY Zenon, <1>1, <3>0, <3>1, <3>2, Checked
    <3>4. Steers
      BY <3>0, <3>1, Checks
    <3>5. SourceKept'
      BY Zenon, <1>1, <1>5, <1>7, <3>3 DEF SourceKept
    <3>6. SourceDue'
      BY <1>5, <3>3 DEF SourceDue
    <3>. QED
      BY <1>3, <1>5, <2>0, <3>3, <3>4, <3>5, <3>6, Adapts
  <2>. QED
    BY <2>1, <2>2
<1>. QED
  BY Zenon, <1>6, <1>7 DEF X!handleEnablePPENtrip, params

LEMMA Disabled == ASSUME XtraInv, X!handleDisablePPENtrip  PROVE XtraInv'
<1>1. XtraTypes /\ SourceKept /\ SourceDue
  BY DEF XtraInv
<1>2. X!receive("disable")
  BY DEF X!handleDisablePPENtrip
<1>3. posted' \in Seq(TaskMessage) /\ (StatusAsked' <=> StatusAsked)
  BY <1>1, <1>2, TaskTakes
<1>. DEFINE state == (mDgnssState \ {"enabled"}) \cup {"noNmeaPending"}
<1>4. /\ UNCHANGED <<ntripParams, mSendNmeaConsent, inSession, startPending, values, throttle,
                     mReqStatusReceived, daemon, halinit>>
      /\ leftover' = (leftover /\ "started" \notin mDgnssState) /\ X!stopDgnssNtrip(state)
  BY DEF X!handleDisablePPENtrip
<1>5. "started" \in state <=> "started" \in mDgnssState
  OBVIOUS
<1>6. /\ mDgnssState' \subseteq {"enabled", "noNmeaPending", "started"}
      /\ "started" \notin mDgnssState' /\ "enabled" \notin mDgnssState'
      /\ mNtripParamsString' = IF "started" \in mDgnssState THEN None ELSE mNtripParamsString
      /\ Steers
  <2>1. /\ Steers /\ mDgnssState' = state \ {"started"}
        /\ "started" \in state => mNtripParamsString' = None
        /\ "started" \notin state => mNtripParamsString' = mNtripParamsString
    BY <1>4, Stops
  <2>2. state \subseteq {"enabled", "noNmeaPending", "started"} /\ "enabled" \notin state
    BY <1>1 DEF XtraTypes
  <2>. HIDE DEF state
  <2>. QED
    BY <1>5, <2>1, <2>2
<1>. HIDE DEF state
<1>7. SourceKept' /\ SourceDue'
  BY Zenon, <1>1, <1>4, <1>6 DEF SourceKept, SourceDue
<1>. QED
  BY <1>1, <1>3, <1>4, <1>6, <1>7, Adapts DEF XtraTypes

LEMMA SessionStarted == ASSUME XtraInv, X!sessionStarts  PROVE XtraInv'
<1>1. XtraTypes /\ SourceKept /\ SourceDue
  BY DEF XtraInv
<1>2. StatusAsked' <=> StatusAsked
  BY DEF StatusAsked, X!sessionStarts
<1>3. SourceKept' /\ SourceDue' /\ Steers
  BY <1>1 DEF SourceKept, SourceDue, Steers, X!known, X!sessionStarts
<1>. QED
  BY <1>1, <1>2, <1>3, Adapts DEF X!known, XtraTypes, X!sessionStarts

\* A check of the state as it is.
LEMMA CheckedAgain ==
  ASSUME XtraInv, X!checkUpdateDgnssNtrip(mDgnssState, ntripParams),
         UNCHANGED <<ntripParams, mSendNmeaConsent, gga, muted>>, inSession' <=> inSession,
         leftover' = (leftover /\ ~X!starts(mDgnssState))
  PROVE  /\ mDgnssState' \subseteq {"enabled", "noNmeaPending", "started"} /\ Steers
         /\ SourceKept' /\ SourceDue'
<1>1. XtraTypes /\ SourceKept /\ SourceDue
  BY DEF XtraInv
<1>2. /\ mDgnssState \subseteq {"enabled", "noNmeaPending", "started"}
      /\ ntripParams \in SourceParams
  BY <1>1 DEF XtraTypes
<1>3. X!starts(mDgnssState) <=> /\ inSession /\ "enabled" \in mDgnssState
                                /\ "noNmeaPending" \in mDgnssState /\ "started" \notin mDgnssState
  BY Zenon, <1>2, MayStart
<1>4. /\ mDgnssState' \subseteq {"enabled", "noNmeaPending", "started"}
      /\ "enabled" \in mDgnssState' <=> "enabled" \in mDgnssState
      /\ "noNmeaPending" \in mDgnssState' <=> "noNmeaPending" \in mDgnssState
      /\ "started" \in mDgnssState' <=> "started" \in mDgnssState \/ X!starts(mDgnssState)
      /\ mNtripParamsString' = IF X!starts(mDgnssState) THEN ntripParams ELSE mNtripParamsString
  BY Zenon, <1>1, <1>2, Checked
<1>5. Steers
  BY <1>2, Checks
<1>6. SourceKept'
  BY Zenon, <1>1, <1>3, <1>4 DEF SourceKept
<1>7. SourceDue'
  BY <1>1, <1>3, <1>4 DEF SourceDue
<1>. QED
  BY <1>4, <1>5, <1>6, <1>7

LEMMA StartAnswered == ASSUME XtraInv, NEW errs \in BOOLEAN, X!startAnswered(errs)  PROVE XtraInv'
<1>1. XtraTypes /\ SourceKept /\ SourceDue
  BY DEF XtraInv
<1>2. /\ UNCHANGED <<posted, ntripParams, mSendNmeaConsent, values, throttle,
                     mReqStatusReceived, daemon, halinit, gga, muted>>
      /\ inSession' = (inSession /\ ~errs) /\ startPending' = FALSE
  BY DEF X!startAnswered
<1>3. StatusAsked' <=> StatusAsked
  BY <1>2 DEF StatusAsked
<1>4. CASE errs
  <2>1. /\ UNCHANGED <<mDgnssState, mNtripParamsString, sent>> /\ inSession' = FALSE
        /\ leftover' = (leftover \/ (inSession /\ "started" \in mDgnssState))
    BY Zenon, <1>2, <1>4 DEF X!startAnswered
  <2>2. SourceKept' /\ SourceDue' /\ Steers
    BY Zenon, <1>1, <1>2, <2>1 DEF SourceKept, SourceDue, Steers
  <2>. QED
    BY <1>1, <1>2, <1>3, <2>1, <2>2, Adapts DEF XtraTypes
<1>5. CASE ~errs
  <2>1. /\ X!checkUpdateDgnssNtrip(mDgnssState, ntripParams)
        /\ leftover' = (leftover /\ ~X!starts(mDgnssState))
    BY <1>5 DEF X!startAnswered
  <2>2. (inSession' <=> inSession)
    BY Zenon, <1>2, <1>5
  <2>3. /\ mDgnssState' \subseteq {"enabled", "noNmeaPending", "started"} /\ Steers
        /\ SourceKept' /\ SourceDue'
    BY <1>2, <2>1, <2>2, CheckedAgain
  <2>. QED
    BY <1>1, <1>2, <1>3, <2>3, Adapts DEF XtraTypes
<1>. QED
  BY <1>4, <1>5

LEMMA SessionStopped == ASSUME XtraInv, X!sessionStops  PROVE XtraInv'
<1>1. XtraTypes /\ SourceKept /\ SourceDue
  BY DEF XtraInv
<1>. DEFINE state == IF X!isDgnssNmeaRequired THEN mDgnssState \ {"noNmeaPending"} ELSE mDgnssState
<1>2. /\ UNCHANGED <<posted, ntripParams, mSendNmeaConsent, startPending, values, throttle,
                     mReqStatusReceived, daemon, halinit, muted>>
      /\ inSession' = FALSE /\ gga' = FALSE
      /\ leftover' = (leftover /\ "started" \notin mDgnssState) /\ X!stopDgnssNtrip(state)
  BY DEF X!sessionStops
<1>3. StatusAsked' <=> StatusAsked
  BY <1>2 DEF StatusAsked
<1>4. /\ state \subseteq {"enabled", "noNmeaPending", "started"}
      /\ "started" \in state <=> "started" \in mDgnssState
      /\ "enabled" \in state <=> "enabled" \in mDgnssState
      /\ "noNmeaPending" \notin state => "noNmeaPending" \notin mDgnssState \/ X!isDgnssNmeaRequired
  BY <1>1 DEF XtraTypes
<1>. HIDE DEF state
<1>5. /\ Steers /\ mDgnssState' = state \ {"started"}
      /\ "started" \in state => mNtripParamsString' = None
      /\ "started" \notin state => mNtripParamsString' = mNtripParamsString
  BY <1>2, Stops
<1>6. SourceKept'
  BY Zenon, <1>1, <1>2, <1>4, <1>5 DEF SourceKept
<1>7. SourceDue'
  BY <1>1, <1>2, <1>4, <1>5 DEF SourceDue, X!isDgnssNmeaRequired, X!required
<1>8. mDgnssState' \subseteq {"enabled", "noNmeaPending", "started"}
  BY <1>4, <1>5
<1>. QED
  BY <1>1, <1>2, <1>3, <1>5, <1>6, <1>7, <1>8, Adapts DEF XtraTypes

LEMMA GGAReported == ASSUME XtraInv, X!reportsGGA  PROVE XtraInv'
<1>1. XtraTypes /\ SourceKept /\ SourceDue
  BY DEF XtraInv
<1>. DEFINE state == mDgnssState \cup {"noNmeaPending"}
<1>2. /\ UNCHANGED <<posted, ntripParams, mSendNmeaConsent, inSession, startPending, values,
                     throttle, mReqStatusReceived, daemon, halinit, muted>>
      /\ leftover' = (leftover /\ ~X!starts(state)) /\ inSession
      /\ X!checkUpdateDgnssNtrip(state, ntripParams)
  BY DEF X!reportsGGA
<1>3. StatusAsked' <=> StatusAsked
  BY <1>2 DEF StatusAsked
<1>4. /\ state \subseteq {"enabled", "noNmeaPending", "started"} /\ "noNmeaPending" \in state
      /\ "started" \in state <=> "started" \in mDgnssState
      /\ "enabled" \in state <=> "enabled" \in mDgnssState
      /\ ntripParams \in SourceParams
  BY <1>1 DEF XtraTypes
<1>. HIDE DEF state
<1>5. X!starts(state) <=> /\ inSession /\ "enabled" \in state
                          /\ "noNmeaPending" \in state /\ "started" \notin state
  BY Zenon, <1>4, MayStart
<1>6. /\ mDgnssState' \subseteq {"enabled", "noNmeaPending", "started"}
      /\ "enabled" \in mDgnssState' <=> "enabled" \in state
      /\ "noNmeaPending" \in mDgnssState' <=> "noNmeaPending" \in state
      /\ "started" \in mDgnssState' <=> "started" \in state \/ X!starts(state)
      /\ mNtripParamsString' = IF X!starts(state) THEN ntripParams ELSE mNtripParamsString
  BY Zenon, <1>1, <1>2, <1>4, Checked
<1>7. Steers
  BY <1>2, <1>4, Checks
<1>8. SourceKept'
  BY Zenon, <1>1, <1>2, <1>4, <1>5, <1>6 DEF SourceKept
<1>9. SourceDue'
  BY <1>1, <1>2, <1>4, <1>5, <1>6 DEF SourceDue
<1>. QED
  BY <1>1, <1>2, <1>3, <1>4, <1>6, <1>7, <1>8, <1>9, Adapts DEF XtraTypes

LEMMA SessionsRestarted ==
  ASSUME XtraInv, NEW suspended \in BOOLEAN, X!restartSessions(suspended)
  PROVE  XtraInv'
<1>1. XtraTypes /\ SourceKept /\ SourceDue
  BY DEF XtraInv
<1>2. /\ UNCHANGED <<posted, ntripParams, mSendNmeaConsent, inSession, startPending, values,
                     throttle, mReqStatusReceived, daemon, halinit, muted>>
      /\ inSession
  BY DEF X!restartSessions
<1>3. StatusAsked' <=> StatusAsked
  BY <1>2 DEF StatusAsked
<1>4. CASE ~suspended
  <2>1. /\ X!checkUpdateDgnssNtrip(mDgnssState, ntripParams) /\ UNCHANGED gga
        /\ leftover' = (leftover /\ ~X!starts(mDgnssState))
    BY <1>4 DEF X!restartSessions
  <2>. QED
    BY <1>1, <1>2, <1>3, <2>1, CheckedAgain, Adapts DEF XtraTypes
<1>5. CASE suspended
  <2>. DEFINE kept == mDgnssState
                       \ ({"started"} \cup IF X!isDgnssNmeaRequired THEN {"noNmeaPending"} ELSE {})
              one == [fn |-> "stopDgnssSource"]
              two == [fn |-> "startDgnssSource", params |-> ntripParams]
              stop == IF "started" \in mDgnssState THEN <<one>> ELSE <<>>
              start == IF X!starts(kept) THEN <<two>> ELSE <<>>
  <2>1. /\ mDgnssState' = IF X!starts(kept) THEN kept \cup {"started"} ELSE kept
        /\ mNtripParamsString' = IF X!starts(kept) THEN ntripParams
                                 ELSE IF stop # <<>> THEN None ELSE mNtripParamsString
        /\ sent' = X!after(stop \o start) /\ gga' = FALSE
        /\ leftover' = (leftover /\ ~X!starts(kept))
    BY <1>5 DEF X!restartSessions
  <2>2. /\ kept \subseteq {"enabled", "noNmeaPending", "started"} /\ "started" \notin kept
        /\ "enabled" \in kept <=> "enabled" \in mDgnssState
        /\ "noNmeaPending" \notin kept
             => "noNmeaPending" \notin mDgnssState \/ X!isDgnssNmeaRequired
        /\ ntripParams \in SourceParams /\ sent \in Seq(Datagram)
    BY <1>1 DEF XtraTypes
  <2>3. stop # <<>> <=> "started" \in mDgnssState
    OBVIOUS
  <2>. HIDE DEF kept
  <2>4. X!starts(kept) <=> inSession /\ "enabled" \in kept /\ "noNmeaPending" \in kept
    BY Zenon, <2>2, MayStart
  <2>5. Steers
    <3>1. CASE X!starts(kept) /\ "started" \in mDgnssState
      BY <2>1, <2>2, <3>1 DEF Steers
    <3>2. CASE X!starts(kept) /\ "started" \notin mDgnssState
      <4>1. stop \o start = <<two>>
        BY <3>2
      <4>2. sent' = X!after(<<two>>) /\ mNtripParamsString' = ntripParams
        BY <2>1, <3>2, <4>1
      <4>. HIDE DEF stop, start
      <4>. QED
        BY <2>2, <4>2 DEF Steers
    <3>3. CASE ~X!starts(kept) /\ "started" \in mDgnssState
      <4>1. stop \o start = <<one>>
        BY <3>3
      <4>2. sent' = X!after(<<one>>) /\ mNtripParamsString' = None
        BY <2>1, <2>3, <3>3, <4>1
      <4>. HIDE DEF stop, start
      <4>. QED
        BY <4>2 DEF Steers
    <3>4. CASE ~X!starts(kept) /\ "started" \notin mDgnssState
      <4>1. stop \o start = <<>> /\ sent \o <<>> = sent
        BY <2>2, <3>4
      <4>2. sent' = sent /\ mNtripParamsString' = mNtripParamsString
        BY <2>1, <2>3, <3>4, <4>1 DEF X!after
      <4>. QED
        BY <4>2 DEF Steers
    <3>. QED
      BY <3>1, <3>2, <3>3, <3>4
  <2>6. /\ mNtripParamsString' = IF X!starts(kept) THEN ntripParams
                                 ELSE IF "started" \in mDgnssState THEN None
                                 ELSE mNtripParamsString
    BY <2>1, <2>3
  <2>. HIDE DEF stop, start
  <2>7. SourceKept'
    BY Zenon, <1>1, <1>2, <2>1, <2>2, <2>4, <2>6 DEF SourceKept
  <2>8. SourceDue'
    BY <1>1, <1>2, <2>1, <2>2, <2>4 DEF SourceDue, X!isDgnssNmeaRequired, X!required
  <2>9. mDgnssState' \subseteq {"enabled", "noNmeaPending", "started"}
    BY <2>1, <2>2
  <2>. QED
    BY <1>1, <1>2, <1>3, <2>2, <2>5, <2>7, <2>8, <2>9, Adapts DEF XtraTypes
<1>. QED
  BY <1>4, <1>5

\* The steps of the daemon, and what it is answered of the items.
LEMMA DaemonStarted == ASSUME XtraInv, X!daemonStarts  PROVE XtraInv'
<1>. DEFINE m == [fn |-> "requestStatus", updated |-> FALSE]
<1>1. XtraTypes /\ Unheard /\ SourceKept /\ SourceDue
  BY DEF XtraInv
<1>2. m \in TaskMessage /\ m.fn = "requestStatus" /\ ~m.updated /\ X!post(m)
  BY DEF TaskMessage, X!daemonStarts
<1>. HIDE DEF m
<1>3. posted' \in Seq(TaskMessage) /\ StatusAsked'
  BY <1>1, <1>2, TaskTold
<1>4. /\ UNCHANGED <<X!adapter, X!known, sent, halinit, X!xtraHistory>>
      /\ daemon' = [X!down EXCEPT !.up = TRUE, !.asked = TRUE] /\ sent = <<>>
  BY <1>1 DEF X!daemonStarts, Unheard
<1>5. /\ daemon' \in [up : BOOLEAN, asked : BOOLEAN, knows : ItemValues, source : SourceParams]
      /\ daemon'.up /\ daemon'.source = None
  BY Zenon, <1>4 DEF X!down, ItemValues, SourceParams
<1>6. XtraTypes' /\ SourceKept' /\ SourceDue'
  BY <1>1, <1>3, <1>4, <1>5 DEF XtraTypes, SourceKept, SourceDue, X!adapter, X!known, X!xtraHistory
<1>7. sent' = <<>> /\ 1..Len(sent') = {}
  BY <1>4
<1>8. ReadsAs(sent', Switches, Switched, daemon'.source, None)
  BY <1>5, <1>7 DEF ReadsAs
<1>9. Unheard' /\ Heard' /\ ItemsTold' /\ SourceTold'
  BY <1>3, <1>5, <1>8 DEF Unheard, Heard, ItemsTold, SourceTold
<1>. QED
  BY <1>6, <1>9 DEF XtraInv

LEMMA DaemonDied == ASSUME XtraInv, X!daemonDies  PROVE XtraInv'
<1>1. XtraTypes /\ SourceKept /\ SourceDue
  BY DEF XtraInv
<1>2. UNCHANGED <<posted, X!adapter, X!known, halinit, X!xtraHistory>> /\ daemon' = X!down /\ sent' = <<>>
  BY DEF X!daemonDies
<1>3. /\ daemon' \in [up : BOOLEAN, asked : BOOLEAN, knows : ItemValues, source : SourceParams]
      /\ ~daemon'.up
  BY <1>2 DEF X!down, ItemValues, SourceParams
<1>4. XtraTypes' /\ SourceKept' /\ SourceDue'
  BY <1>1, <1>2, <1>3 DEF XtraTypes, SourceKept, SourceDue, X!adapter, X!known, X!xtraHistory
<1>5. Unheard' /\ Heard' /\ ItemsTold' /\ SourceTold'
  BY <1>2, <1>3 DEF Unheard, Heard, ItemsTold, SourceTold
<1>. QED
  BY <1>4, <1>5 DEF XtraInv

LEMMA DaemonRead == ASSUME XtraInv, X!daemonReads  PROVE XtraInv'
<1>. DEFINE d == Head(sent)
<1>1. XtraTypes /\ Unheard /\ Heard /\ ItemsTold /\ SourceTold /\ SourceKept /\ SourceDue
  BY DEF XtraInv
<1>2. /\ sent # <<>> /\ sent' = Tail(sent) /\ UNCHANGED <<X!adapter, X!known, halinit,
                                                          X!xtraHistory>>
      /\ posted' = IF d.fn = "halinit"
                   THEN Append(posted, [fn |-> "requestStatus", updated |-> FALSE]) ELSE posted
      /\ d.fn = "update" => daemon' = [daemon EXCEPT !.knows[d.item] = d.value]
      /\ d.fn = "respondStatus" => daemon' = [daemon EXCEPT !.knows = d.values]
      /\ d.fn = "startDgnssSource" => daemon' = [daemon EXCEPT !.source = d.params]
      /\ d.fn = "stopDgnssSource" => daemon' = [daemon EXCEPT !.source = None]
      /\ d.fn \notin {"update", "respondStatus", "startDgnssSource", "stopDgnssSource"}
           => daemon' = daemon
  BY DEF X!daemonReads
<1>3. /\ sent \in Seq(Datagram) /\ sent' \in Seq(Datagram) /\ Len(sent) \in Nat /\ Len(sent) >= 1
      /\ Len(sent') = Len(sent) - 1
      /\ \A i \in 1..Len(sent') : i + 1 \in 1..Len(sent) /\ sent'[i] = sent[i + 1]
      /\ \A i \in 1..Len(sent) : i # 1 => i - 1 \in 1..Len(sent') /\ sent'[i - 1] = sent[i]
      /\ d = sent[1] /\ d \in Datagram
  <2>1. sent \in Seq(Datagram)
    BY <1>1 DEF XtraTypes
  <2>2. /\ sent' \in Seq(Datagram) /\ Len(sent) \in Nat /\ Len(sent) >= 1
        /\ Len(sent') = Len(sent) - 1
        /\ \A i \in 1..(Len(sent) - 1) : sent'[i] = sent[i + 1]
        /\ d = sent[1] /\ sent[1] \in Datagram
    BY <1>2, <2>1, Popped
  <2>. QED
    BY <2>1, <2>2
<1>4. \A W, written, k, v : ReadsAs(sent, W, written, k, v)
                           => ReadsAs(sent', W, written, IF d \in W THEN written[d] ELSE k, v)
  BY <1>2, <1>3, ReadFirst
<1>. HIDE DEF d
<1>5. Halted => Halted' \/ d.fn = "halinit"
  BY Zenon, <1>3 DEF Halted
<1>6. posted' \in Seq(TaskMessage) /\ (StatusAsked => StatusAsked')
      /\ (d.fn = "halinit" => StatusAsked')
  <2>. DEFINE m == [fn |-> "requestStatus", updated |-> FALSE]
  <2>1. posted \in Seq(TaskMessage) /\ m \in TaskMessage /\ m.fn = "requestStatus" /\ ~m.updated
    BY <1>1 DEF XtraTypes, TaskMessage
  <2>2. CASE d.fn = "halinit"
    <3>1. posted' = Append(posted, m)
      BY <1>2, <2>2
    <3>. HIDE DEF m
    <3>2. /\ posted' \in Seq(TaskMessage) /\ Len(posted) \in Nat
          /\ Len(posted') = Len(posted) + 1 /\ posted'[Len(posted) + 1] = m
      BY <2>1, <3>1, Pushed
    <3>3. Len(posted) + 1 \in 1..Len(posted')
      BY <3>2
    <3>. QED
      BY <2>1, <2>2, <3>2, <3>3 DEF StatusAsked
  <2>3. CASE d.fn # "halinit"
    BY <1>2, <2>1, <2>3 DEF StatusAsked
  <2>. QED
    BY <2>2, <2>3
<1>7. /\ daemon' \in [up : BOOLEAN, asked : BOOLEAN, knows : ItemValues, source : SourceParams]
      /\ daemon'.up = daemon.up
      /\ daemon'.source = IF d \in Switches THEN Switched[d] ELSE daemon.source
      /\ \A i \in StatusItem : daemon'.knows[i] = IF d \in Writes(i) THEN Written(i)[d]
                                                 ELSE daemon.knows[i]
  <2>1. daemon \in [up : BOOLEAN, asked : BOOLEAN, knows : ItemValues, source : SourceParams]
    BY <1>1 DEF XtraTypes
  <2>2. None \in SourceParams
    BY DEF SourceParams
  <2>3. /\ d \in Switches <=> d.fn \in {"startDgnssSource", "stopDgnssSource"}
        /\ d \in Switches => Switched[d] = IF d.fn = "startDgnssSource" THEN d.params ELSE None
        /\ d.fn = "startDgnssSource" => d.params \in SourceParams
        /\ d.fn = "respondStatus" => d.values \in ItemValues
        /\ d.fn = "update" => d.item \in StatusItem /\ d.value \in {0, 1}
        /\ \A i \in StatusItem :
             /\ d \in Writes(i) <=> d.fn = "respondStatus" \/ (d.fn = "update" /\ d.item = i)
             /\ d \in Writes(i) => Written(i)[d] = IF d.fn = "update" THEN d.value ELSE d.values[i]
    BY <1>3, DatagramIs
  <2>4. CASE d.fn = "update"
    <3>1. /\ [daemon.knows EXCEPT ![d.item] = d.value] \in ItemValues
          /\ daemon' = [daemon EXCEPT !.knows = [daemon.knows EXCEPT ![d.item] = d.value]]
          /\ \A i \in StatusItem : [daemon.knows EXCEPT ![d.item] = d.value][i]
                                   = IF i = d.item THEN d.value ELSE daemon.knows[i]
      BY <1>2, <2>1, <2>3, <2>4 DEF ItemValues
    <3>2. /\ daemon' \in [up : BOOLEAN, asked : BOOLEAN, knows : ItemValues, source : SourceParams]
          /\ daemon'.up = daemon.up /\ daemon'.source = daemon.source
          /\ daemon'.knows = [daemon.knows EXCEPT ![d.item] = d.value]
      BY <2>1, <3>1
    <3>. QED
      BY <2>3, <2>4, <3>1, <3>2
  <2>5. CASE d.fn = "respondStatus"
    BY <1>2, <2>1, <2>3, <2>5
  <2>6. CASE d.fn = "startDgnssSource"
    BY <1>2, <2>1, <2>3, <2>6
  <2>7. CASE d.fn = "stopDgnssSource"
    BY <1>2, <2>1, <2>2, <2>3, <2>7
  <2>8. CASE d.fn \notin {"update", "respondStatus", "startDgnssSource", "stopDgnssSource"}
    BY <1>2, <2>1, <2>3, <2>8
  <2>. QED
    BY <2>4, <2>5, <2>6, <2>7, <2>8
<1>8. XtraTypes' /\ SourceKept' /\ SourceDue'
  BY <1>1, <1>2, <1>3, <1>6, <1>7
     DEF XtraTypes, SourceKept, SourceDue, X!adapter, X!known, X!xtraHistory
<1>9. Unheard' /\ Heard'
  <2>1. daemon.up
    BY <1>1, <1>2 DEF Unheard
  <2>. QED
    BY <1>1, <1>2, <1>6, <1>7, <2>1 DEF Unheard, Heard, X!known
<1>10. ItemsTold'
  <2>. SUFFICES ASSUME daemon'.up, ~StatusAsked', ~Halted', NEW i \in StatusItem
                PROVE  ReadsAs(sent', Writes(i), Written(i), daemon'.knows[i], values[i])
    BY <1>2 DEF ItemsTold, X!known
  <2>1. ReadsAs(sent, Writes(i), Written(i), daemon.knows[i], values[i])
    BY <1>1, <1>5, <1>6, <1>7 DEF ItemsTold
  <2>. QED
    BY <1>4, <1>7, <2>1
<1>11. SourceTold'
  <2>. SUFFICES ASSUME daemon'.up
                PROVE  \/ ReadsAs(sent', Switches, Switched, daemon'.source, mNtripParamsString)
                       \/ StatusAsked' /\ ReadsAs(sent', Switches, Switched, daemon'.source, None)
    BY <1>2 DEF SourceTold, X!known
  <2>1. \/ ReadsAs(sent, Switches, Switched, daemon.source, mNtripParamsString)
        \/ StatusAsked' /\ ReadsAs(sent, Switches, Switched, daemon.source, None)
    BY <1>1, <1>6, <1>7 DEF SourceTold
  <2>. QED
    BY <1>4, <1>7, <2>1
<1>. QED
  BY <1>8, <1>9, <1>10, <1>11 DEF XtraInv

LEMMA Ready == ASSUME XtraInv, X!timeOutCallback  PROVE XtraInv'
<1>. DEFINE d == [fn |-> "halinit"]
<1>1. XtraTypes /\ SourceKept /\ SourceDue
  BY DEF XtraInv
<1>2. d \in Datagram /\ d.fn = "halinit"
  BY DEF Datagram
<1>3. sent' = X!after(<<d>>) /\ UNCHANGED <<posted, X!adapter, X!known, daemon, X!xtraHistory>>
  BY DEF X!timeOutCallback
<1>. HIDE DEF d
<1>4. Steers
  BY <1>2, <1>3 DEF Steers, X!known
<1>5. (StatusAsked' <=> StatusAsked) /\ SourceKept' /\ SourceDue'
  BY <1>1, <1>3 DEF StatusAsked, SourceKept, SourceDue, X!adapter, X!known, X!xtraHistory
<1>. QED
  BY <1>1, <1>3, <1>4, <1>5, Adapts DEF X!adapter, X!known, XtraTypes

LEMMA ThrottleUpdated == ASSUME XtraInv, X!updateXtraThrottle  PROVE XtraInv'
<1>. DEFINE d == [fn |-> "xtrathrottle", value |-> ~throttle]
<1>1. XtraTypes /\ SourceKept /\ SourceDue
  BY DEF XtraInv
<1>2. d \in Datagram /\ d.fn = "xtrathrottle"
  BY DEF Datagram
<1>3. /\ sent' = sent \/ sent' = X!after(<<d>>)
      /\ UNCHANGED <<posted, X!adapter, values, mReqStatusReceived, mNtripParamsString, daemon,
                     halinit, X!xtraHistory>>
  BY DEF X!updateXtraThrottle
<1>. HIDE DEF d
<1>4. Steers
  BY <1>2, <1>3 DEF Steers
<1>5. (StatusAsked' <=> StatusAsked) /\ SourceKept' /\ SourceDue'
  BY <1>1, <1>3 DEF StatusAsked, SourceKept, SourceDue, X!adapter, X!xtraHistory
<1>. QED
  BY <1>1, <1>3, <1>4, <1>5, Adapts DEF X!adapter, XtraTypes

\* An item is written by the datagram that tells it, or asked for.
LEMMA ItemUpdated ==
  ASSUME XtraInv, NEW item \in StatusItem, NEW value \in {0, 1}, X!update(item, value)
  PROVE  XtraInv'
<1>. DEFINE d == [fn |-> "update", item |-> item, value |-> value]
<1>1. XtraTypes /\ Unheard /\ Heard /\ ItemsTold /\ SourceTold /\ SourceKept /\ SourceDue
  BY DEF XtraInv
<1>2. d \in Datagram /\ d.fn = "update" /\ d.item = item /\ d.value = value
  <2>1. d \in Writes(item)
    BY DEF Writes
  <2>. QED
    BY <2>1 DEF Datagram
<1>3. /\ values' = [values EXCEPT ![item] = value]
      /\ sent' = IF mReqStatusReceived THEN X!after(<<d>>) ELSE sent
      /\ UNCHANGED <<posted, X!adapter, throttle, mReqStatusReceived, mNtripParamsString, daemon,
                     halinit, X!xtraHistory>>
  BY DEF X!update
<1>. HIDE DEF d
<1>4. values' \in ItemValues /\ \A i \in StatusItem : values'[i] = IF i = item THEN value ELSE values[i]
  BY <1>1, <1>3 DEF XtraTypes, ItemValues
<1>5. (StatusAsked' <=> StatusAsked) /\ SourceKept' /\ SourceDue' /\ Heard'
  BY <1>1, <1>3 DEF StatusAsked, SourceKept, SourceDue, Heard, X!adapter, X!xtraHistory
<1>6. CASE ~mReqStatusReceived
  <2>1. sent' = sent
    BY <1>3, <1>6
  <2>2. daemon.up => StatusAsked'
    BY <1>1, <1>5, <1>6 DEF Heard
  <2>3. XtraTypes' /\ Unheard'
    BY <1>1, <1>3, <1>4, <2>1 DEF XtraTypes, Unheard, X!adapter
  <2>4. ItemsTold'
    BY <1>3, <2>2 DEF ItemsTold
  <2>5. SourceTold'
    BY <1>1, <1>3, <1>5, <2>1 DEF SourceTold
  <2>. QED
    BY <1>5, <2>3, <2>4, <2>5 DEF XtraInv
<1>7. CASE mReqStatusReceived
  <2>1. sent' = X!after(<<d>>) /\ sent \in Seq(Datagram)
    BY <1>1, <1>3, <1>7 DEF XtraTypes
  <2>2. sent' \in Seq(Datagram) /\ Unheard'
        /\ (daemon.up => sent' = Append(sent, d) /\ (Halted' <=> Halted \/ d.fn = "halinit"))
    BY <1>1, <1>2, <1>3, <2>1, Sends
  <2>3. /\ d \notin Switches
        /\ \A i \in StatusItem : d \in Writes(i) <=> i = item
        /\ d \in Writes(item) /\ Written(item)[d] = value
    BY <1>2, DatagramIs
  <2>4. XtraTypes'
    BY <1>1, <1>3, <1>4, <2>2 DEF XtraTypes, X!adapter
  <2>5. ItemsTold'
    <3>. SUFFICES ASSUME daemon.up, ~StatusAsked, ~Halted, NEW i \in StatusItem
                  PROVE  ReadsAs(sent', Writes(i), Written(i), daemon.knows[i], values'[i])
      BY <1>2, <1>3, <1>5, <2>2 DEF ItemsTold
    <3>1. CASE i = item
      <4>1. ReadsAs(Append(sent, d), Writes(i), Written(i), daemon.knows[i], Written(i)[d])
        BY <1>2, <2>1, <2>3, <3>1, ReadLast
      <4>. QED
        BY Zenon, <1>4, <2>2, <2>3, <3>1, <4>1
    <3>2. CASE i # item
      <4>1. ReadsAs(sent, Writes(i), Written(i), daemon.knows[i], values[i])
        BY <1>1 DEF ItemsTold
      <4>2. ReadsAs(Append(sent, d), Writes(i), Written(i), daemon.knows[i], values[i])
        BY <1>2, <2>1, <2>3, <3>2, <4>1, ReadLast
      <4>. QED
        BY Zenon, <1>4, <2>2, <3>2, <4>2
    <3>. QED
      BY <3>1, <3>2
  <2>6. SourceTold'
    <3>1. daemon.up => \A v : ReadsAs(sent, Switches, Switched, daemon.source, v)
                              => ReadsAs(sent', Switches, Switched, daemon.source, v)
      <4>1. \A k, v : ReadsAs(sent, Switches, Switched, k, v)
                     => ReadsAs(Append(sent, d), Switches, Switched, k, v)
        BY <1>2, <2>1, <2>3, ReadLast
      <4>. QED
        BY Zenon, <2>2, <4>1
    <3>. QED
      BY <1>1, <1>3, <1>5, <3>1 DEF SourceTold
  <2>. QED
    BY <1>5, <2>2, <2>4, <2>5, <2>6 DEF XtraInv
<1>. QED
  BY <1>6, <1>7

\* The answer to a daemon, and behind it the source that is restarted.
LEMMA StatusTold == ASSUME XtraInv, X!HandleStatusRequest  PROVE XtraInv'
<1>. DEFINE d == [fn |-> "respondStatus", values |-> values]
            e == [fn |-> "startDgnssSource", params |-> mNtripParamsString]
            answered == Head(posted).updated
            respond == IF answered THEN <<>> ELSE <<d>>
            restart == IF mNtripParamsString = None THEN <<>> ELSE <<e>>
            p == IF answered THEN sent ELSE Append(sent, d)
            q == IF mNtripParamsString = None THEN p ELSE Append(p, e)
<1>1. XtraTypes /\ Unheard /\ Heard /\ ItemsTold /\ SourceTold /\ SourceKept /\ SourceDue
  BY DEF XtraInv
<1>2. /\ X!receive("requestStatus") /\ mReqStatusReceived' = TRUE /\ sent' = X!after(respond \o restart)
      /\ UNCHANGED <<X!adapter, values, throttle, mNtripParamsString, daemon, halinit,
                     X!xtraHistory>>
  BY DEF X!HandleStatusRequest
<1>3. posted' \in Seq(TaskMessage) /\ (answered /\ StatusAsked => StatusAsked')
  BY <1>1, <1>2, TaskTakes
<1>4. d \in Datagram /\ d.fn = "respondStatus" /\ d.values = values
  BY <1>1 DEF XtraTypes, Datagram
<1>5. e \in Datagram /\ e \in Switches /\ Switched[e] = mNtripParamsString
      /\ \A i \in StatusItem : e \notin Writes(i)
  BY <1>1, SourceIs DEF XtraTypes
<1>6. sent \in Seq(Datagram)
  BY <1>1 DEF XtraTypes
<1>7. SourceKept' /\ SourceDue' /\ Heard'
  BY <1>1, <1>2 DEF SourceKept, SourceDue, Heard, X!adapter, X!xtraHistory
<1>8. e.fn # "halinit"
  OBVIOUS
<1>9. sent \o (respond \o restart) = q
  <2>. HIDE DEF d, e, answered
  <2>1. CASE answered /\ mNtripParamsString = None
    BY <1>6, <2>1
  <2>2. CASE answered /\ mNtripParamsString # None
    <3>1. respond \o restart = <<e>> /\ sent \o <<e>> = Append(sent, e)
      BY <1>5, <1>6, <2>2, Joined
    <3>. QED
      BY <2>2, <3>1
  <2>3. CASE ~answered /\ mNtripParamsString = None
    <3>1. respond \o restart = <<d>> /\ sent \o <<d>> = Append(sent, d)
      BY <1>4, <1>6, <2>3, Joined
    <3>. QED
      BY <2>3, <3>1
  <2>4. CASE ~answered /\ mNtripParamsString # None
    <3>1. sent \o (<<d>> \o <<e>>) = Append(Append(sent, d), e)
      BY <1>4, <1>5, <1>6, Joined
    <3>. QED
      BY Zenon, <2>4, <3>1
  <2>. QED
    BY <2>1, <2>2, <2>3, <2>4
<1>10. \A i \in StatusItem : d \in Writes(i) /\ Written(i)[d] = values[i]
  BY <1>4, DatagramIs
<1>11. d \notin Switches
  BY <1>4, DatagramIs
<1>. HIDE DEF d, e, answered, respond, restart
<1>12. p \in Seq(Datagram) /\ (Halted => \E n \in 1..Len(p) : p[n].fn = "halinit")
  <2>1. CASE answered
    BY <1>6, <2>1 DEF Halted
  <2>2. CASE ~answered
    <3>1. /\ p \in Seq(Datagram) /\ Len(sent) \in Nat /\ Len(p) = Len(sent) + 1
          /\ \A i \in 1..Len(sent) : p[i] = sent[i]
      BY <1>4, <1>6, <2>2, Pushed
    <3>2. \A i \in 1..Len(sent) : i \in 1..Len(p) /\ p[i] = sent[i]
      BY <3>1
    <3>. QED
      BY <3>1, <3>2 DEF Halted
  <2>. QED
    BY <2>1, <2>2
<1>13. ASSUME NEW i \in StatusItem, answered => ~StatusAsked /\ ~Halted, daemon.up
       PROVE  ReadsAs(p, Writes(i), Written(i), daemon.knows[i], values[i])
  <2>1. CASE answered
    BY <1>1, <1>13, <2>1 DEF ItemsTold
  <2>2. CASE ~answered
    <3>1. ReadsAs(Append(sent, d), Writes(i), Written(i), daemon.knows[i], Written(i)[d])
      BY <1>4, <1>6, <1>10, ReadLast
    <3>. QED
      BY <1>10, <2>2, <3>1
  <2>. QED
    BY <2>1, <2>2
<1>14. \A k, v : ReadsAs(sent, Switches, Switched, k, v) => ReadsAs(p, Switches, Switched, k, v)
  <2>1. CASE answered
    BY <2>1
  <2>2. CASE ~answered
    BY <1>4, <1>6, <1>11, <2>2, ReadLast
  <2>. QED
    BY <2>1, <2>2
<1>. HIDE DEF p
<1>15. q \in Seq(Datagram) /\ (Halted => \E n \in 1..Len(q) : q[n].fn = "halinit")
  <2>1. CASE mNtripParamsString = None
    BY <1>12, <2>1
  <2>2. CASE mNtripParamsString # None
    <3>1. /\ q \in Seq(Datagram) /\ Len(p) \in Nat /\ Len(q) = Len(p) + 1
          /\ \A i \in 1..Len(p) : q[i] = p[i]
      BY <1>5, <1>12, <2>2, Pushed
    <3>2. \A i \in 1..Len(p) : i \in 1..Len(q) /\ q[i] = p[i]
      BY <3>1
    <3>. QED
      BY <1>12, <3>1, <3>2
  <2>. QED
    BY <2>1, <2>2
<1>16. ASSUME NEW i \in StatusItem, ReadsAs(p, Writes(i), Written(i), daemon.knows[i], values[i])
       PROVE  ReadsAs(q, Writes(i), Written(i), daemon.knows[i], values[i])
  <2>1. CASE mNtripParamsString = None
    BY <1>16, <2>1
  <2>2. CASE mNtripParamsString # None
    BY <1>5, <1>12, <1>16, <2>2, ReadLast
  <2>. QED
    BY <2>1, <2>2
<1>17. daemon.up => ReadsAs(q, Switches, Switched, daemon.source, mNtripParamsString)
  <2>1. CASE mNtripParamsString = None
    BY <1>1, <1>14, <2>1 DEF SourceTold
  <2>2. CASE mNtripParamsString # None
    <3>1. ReadsAs(Append(p, e), Switches, Switched, daemon.source, Switched[e])
      BY <1>5, <1>12, ReadLast
    <3>. QED
      BY <1>5, <2>2, <3>1
  <2>. QED
    BY <2>1, <2>2
<1>. HIDE DEF q
<1>18. sent' = IF daemon.up THEN q ELSE sent
  BY <1>2, <1>9 DEF X!after
<1>19. XtraTypes'
  BY <1>1, <1>2, <1>3, <1>15, <1>18 DEF XtraTypes, X!adapter
<1>20. Unheard'
  BY <1>1, <1>2, <1>18 DEF Unheard
<1>21. ItemsTold'
  <2>. SUFFICES ASSUME daemon.up, ~StatusAsked', ~Halted', NEW i \in StatusItem
                PROVE  ReadsAs(sent', Writes(i), Written(i), daemon.knows[i], values[i])
    BY <1>2 DEF ItemsTold
  <2>1. ~Halted
    BY <1>15, <1>18 DEF Halted
  <2>2. answered => ~StatusAsked
    BY <1>3
  <2>. QED
    BY <1>13, <1>16, <1>18, <2>1, <2>2
<1>22. SourceTold'
  BY <1>2, <1>17, <1>18 DEF SourceTold
<1>. QED
  BY <1>7, <1>19, <1>20, <1>21, <1>22 DEF XtraInv

LEMMA XtraNext == XtraInv /\ X!Next => XtraInv'
<1>. SUFFICES ASSUME XtraInv, X!Next  PROVE XtraInv'
  OBVIOUS
<1>1. CASE X!daemonStarts \/ X!daemonDies \/ X!daemonAsks \/ X!daemonReads \/ X!timeOutCallback
  BY <1>1, DaemonStarted, DaemonDied, DaemonAsked, DaemonRead, Ready
<1>2. CASE \E item \in StatusItem, value \in {0, 1} : X!update(item, value)
  BY <1>2, ItemUpdated
<1>3. CASE X!updateXtraThrottle \/ X!HandleStatusRequest
  BY <1>3, ThrottleUpdated, StatusTold
<1>4. CASE \/ \E params \in Params : X!enablePPENtripStreamCommand(params)
           \/ X!disablePPENtripStreamCommand \/ X!updateNTRIPGGAConsentCommand
  BY <1>4, EnableSent, DisableSent, ConsentGiven
<1>5. CASE X!handleEnablePPENtrip \/ X!handleDisablePPENtrip
  BY <1>5, Enabled, Disabled
<1>6. CASE \/ X!sessionStarts \/ \E errs \in BOOLEAN : X!startAnswered(errs)
           \/ X!sessionStops \/ \E suspended \in BOOLEAN : X!restartSessions(suspended)
           \/ X!reportsGGA
  BY <1>6, SessionStarted, StartAnswered, SessionStopped, SessionsRestarted, GGAReported
<1>. QED
  BY <1>1, <1>2, <1>3, <1>4, <1>5, <1>6 DEF X!Next

LEMMA XtraUnchanged == XtraInv /\ UNCHANGED X!vars => XtraInv'
BY DEF X!vars, X!adapter, X!known, X!xtraHistory, XtraInv, XtraTypes, Unheard, Heard, ItemsTold,
       SourceTold, SourceKept, SourceDue, StatusAsked, Halted

LEMMA DaemonIsFollowedInv == XtraInv => X!DaemonFollows
<1>. SUFFICES ASSUME XtraInv, X!settled  PROVE daemon.knows = values /\ X!SourceFollows
  BY DEF X!DaemonFollows, X!DaemonKnows, X!SourceFollows
<1>1. XtraTypes /\ ItemsTold /\ SourceTold /\ SourceKept /\ SourceDue
  BY DEF XtraInv
<1>2. posted = <<>> /\ sent = <<>> /\ ~startPending /\ daemon.up
  BY DEF X!settled
<1>3. 1..Len(posted) = {} /\ 1..Len(sent) = {}
  BY <1>2
<1>4. ~StatusAsked /\ ~Halted /\ \A W, written, k, v : ReadsAs(sent, W, written, k, v) => k = v
  BY <1>3 DEF StatusAsked, Halted, ReadsAs
<1>5. \A i \in StatusItem : daemon.knows[i] = values[i]
  BY <1>1, <1>2, <1>4 DEF ItemsTold
<1>6. daemon.knows \in ItemValues /\ values \in ItemValues
  BY <1>1 DEF XtraTypes
<1>7. daemon.knows = values
  BY <1>5, <1>6 DEF ItemValues
<1>8. daemon.source = mNtripParamsString
  BY <1>1, <1>2, <1>4 DEF SourceTold
<1>9. daemon.source # None /\ ~leftover =>
        "enabled" \in mDgnssState /\ inSession /\ daemon.source = ntripParams
  BY <1>1, <1>8 DEF SourceKept
<1>10. "enabled" \in mDgnssState /\ inSession /\ ~muted
         /\ (ntripParams.requiresNmeaLocation => gga \/ ~mSendNmeaConsent) =>
       daemon.source = ntripParams
  BY <1>1, <1>2, <1>8 DEF SourceKept, SourceDue
<1>. QED
  BY <1>7, <1>9, <1>10 DEF X!SourceFollows

\* Whenever the daemon starts, dies, asks and reads, and the items, the session,
\* the parameters of its source and the consent change: when all is read, it
\* knows the items as the adapter does, and runs the source that was enabled
\* last, exactly in a session and once it may, but for the cases the property
\* names (XtraSystemStatusObserver.cpp, GnssAdapter.cpp).  For any constants.
THEOREM DaemonIsFollowed == Spec => []DaemonFollows
<1>. DEFINE Inv == part = "xtra" => XtraInv
<1>1. Init => Inv
  BY XtraInit DEF Init
<1>2. Inv /\ [Next]_<<part, ni, observer, display, xtra, gnss, batch, reports>> => Inv'
  <2> SUFFICES ASSUME Inv, part' = "xtra",
                      [Next]_<<part, ni, observer, display, xtra, gnss, batch, reports>>
               PROVE  XtraInv'
    OBVIOUS
  <2>1. part = "xtra" /\ (X!Next \/ UNCHANGED xtra)
    BY DEF Next, Ni, Items, Display, Xtra, Gnss, Batch, Reports
  <2>2. UNCHANGED xtra => UNCHANGED X!vars
    BY DEF xtra, X!vars, X!adapter, X!known, X!xtraHistory
  <2>. QED
    BY <2>1, <2>2, XtraNext, XtraUnchanged
<1>3. Inv => DaemonFollows
  BY DaemonIsFollowedInv DEF DaemonFollows
<1>. QED
  BY <1>1, <1>2, <1>3, PTL DEF Spec
==============================================================================
