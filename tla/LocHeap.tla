------------------------------- MODULE LocHeap -------------------------------
(***************************************************************************)
(* gps/utils/LocHeap.cpp: a binary tree sorted only vertically, in which   *)
(* data move between fixed nodes.  A tree is Null or a node with its       *)
(* data, mSize, left and right subtree.  The operators are the recursive   *)
(* methods of LocHeapNode; the actions are the public methods of LocHeap.  *)
(***************************************************************************)
EXTENDS Integers, FiniteSets

CONSTANTS
  Item,                    \* the LocRankable objects
  Ranks,                   \* the assignments of ranks to them to be explored
  None                     \* a NULL LocRankable

VARIABLES
  rank,                    \* LocRankable::ranks, fixed for a run
  mTree,                   \* LocHeap::mTree
  returned                 \* what the last pop() or remove() returned

vars == <<rank, mTree, returned>>

Null == [null |-> TRUE]
node(d, size, l, r) ==
  [null |-> FALSE, mData |-> d, mSize |-> size, mLeft |-> l, mRight |-> r]

outRanks(x, y) == rank[x] > rank[y]

RECURSIVE dataOf(_)
dataOf(t) == IF t.null THEN {} ELSE {t.mData} \cup dataOf(t.mLeft) \cup dataOf(t.mRight)
------------------------------------------------------------------------------
RECURSIVE nodePush_NoSwap(_, _)
nodePush_NoSwap(t, d) ==
  IF t.null THEN node(d, 1, Null, Null)
  ELSE IF t.mLeft.null \/ (~t.mRight.null /\ t.mLeft.mSize <= t.mRight.mSize)
       THEN node(t.mData, t.mSize + 1, nodePush_NoSwap(t.mLeft, d), t.mRight)
       ELSE node(t.mData, t.mSize + 1, t.mLeft, nodePush_NoSwap(t.mRight, d))

\* LocHeapNode::push: the lower of the two data sinks into the smaller subtree
RECURSIVE nodePush(_, _)
nodePush(t, d) ==
  IF t.null THEN node(d, 1, Null, Null)
  ELSE LET high == IF outRanks(d, t.mData) THEN d ELSE t.mData
           low  == IF outRanks(d, t.mData) THEN t.mData ELSE d
       IN IF t.mLeft.null \/ (~t.mRight.null /\ t.mLeft.mSize <= t.mRight.mSize)
          THEN node(high, t.mSize + 1, nodePush(t.mLeft, low), t.mRight)
          ELSE node(high, t.mSize + 1, t.mLeft, nodePush(t.mRight, low))

\* LocHeapNode::pop: the higher child's data moves up, all the way down
RECURSIVE nodePop(_)
nodePop(t) ==
  IF t.mLeft.null /\ t.mRight.null THEN Null
  ELSE IF t.mLeft.null \/ (~t.mRight.null /\ ~outRanks(t.mLeft.mData, t.mRight.mData))
       THEN node(t.mRight.mData, t.mSize - 1, t.mLeft, nodePop(t.mRight))
       ELSE node(t.mLeft.mData, t.mSize - 1, nodePop(t.mLeft), t.mRight)

\* LocHeapNode::remove: the tree afterwards; unchanged when d is not found
RECURSIVE nodeRemove(_, _)
nodeRemove(t, d) ==
  IF t.null THEN t
  ELSE IF t.mData = d THEN nodePop(t)
  ELSE IF outRanks(d, t.mData) THEN t
  ELSE LET l == nodeRemove(t.mLeft, d)
           r == nodeRemove(t.mRight, d)
       IN IF l # t.mLeft THEN node(t.mData, t.mSize - 1, l, t.mRight)
          ELSE IF r # t.mRight THEN node(t.mData, t.mSize - 1, t.mLeft, r) ELSE t

\* LocHeapNode::checkNodes, the unit tests' own check
RECURSIVE checkNodes(_)
checkNodes(t) ==
  LET sizeOf(s) == IF s.null THEN 0 ELSE s.mSize
      ordered(s) == s.null \/ (~outRanks(s.mData, t.mData) /\ checkNodes(s))
  IN ordered(t.mLeft) /\ ordered(t.mRight)
     /\ t.mSize - sizeOf(t.mLeft) - sizeOf(t.mRight) = 1
------------------------------------------------------------------------------
Init == rank \in Ranks /\ mTree = Null /\ returned = None

push(x) ==
  /\ x \notin dataOf(mTree)
  /\ mTree' = nodePush(mTree, x)
  /\ UNCHANGED <<rank, returned>>

pop ==
  /\ ~mTree.null
  /\ mTree' = nodePop(mTree) /\ returned' = mTree.mData
  /\ UNCHANGED rank

\* of any item, in the heap or not
remove(x) ==
  /\ ~mTree.null
  /\ mTree' = nodeRemove(mTree, x)
  /\ returned' = IF mTree' = mTree THEN None ELSE x
  /\ UNCHANGED rank

peek == IF mTree.null THEN None ELSE mTree.mData

Next == (\E x \in Item : push(x) \/ remove(x)) \/ pop

Spec == Init /\ [][Next]_vars
------------------------------------------------------------------------------
(* Properties. *)

\* The code's own consistency check (LocHeap::checkTree): parents are not
\* outranked by children, and mSize counts every subtree, whatever sequence of
\* calls came before; and no item sits in two nodes.
CheckTree == ~mTree.null =>
  checkNodes(mTree) /\ mTree.mSize = Cardinality(dataOf(mTree))
StaysTree == [][CheckTree']_vars

\* remove() finds an item exactly when it is in the heap, ties in rank
\* included: the pruned search never misses it.
RemoveFinds == [][\A x \in Item :
  remove(x) => (returned' = x <=> x \in dataOf(mTree))
               /\ dataOf(mTree') = dataOf(mTree) \ {x}]_vars

\* The heap implements the ranked set that LocTimer is modelled with.
Abstract == INSTANCE RankedSet WITH
  items <- dataOf(mTree), root <- peek
ImplementsRankedSet == Abstract!Spec

\* The timers find in the heap what they put there, and the soonest first, and
\* the tree stays one.
HeapServes == ImplementsRankedSet /\ RemoveFinds /\ StaysTree
==============================================================================
