------------------------------ MODULE RankedSet ------------------------------
(***************************************************************************)
(* What LocHeap promises to LocTimer: a set of ranked items of which one   *)
(* that nothing outranks can be looked at, and any one can be taken out.   *)
(* A newcomer displaces the item at the root only by outranking it.        *)
(***************************************************************************)
EXTENDS Naturals

CONSTANTS Item, Ranks, None

VARIABLES rank, items, root

vars == <<rank, items, root>>

\* the items nothing in s outranks; a larger rank wins
highest(s) == {x \in s : \A y \in s : rank[y] <= rank[x]}

Init == rank \in Ranks /\ items = {} /\ root = None

Add(x) ==
  /\ x \notin items
  /\ items' = items \cup {x}
  /\ root' = IF root = None \/ rank[x] > rank[root] THEN x ELSE root

Take(x) ==
  /\ x \in items
  /\ items' = items \ {x}
  /\ IF x # root THEN UNCHANGED root
     ELSE IF items' = {} THEN root' = None ELSE root' \in highest(items')

Next == UNCHANGED rank /\ \E x \in Item : Add(x) \/ Take(x)

Spec == Init /\ [][Next]_vars
==============================================================================
