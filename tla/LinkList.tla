------------------------------ MODULE LinkList ------------------------------
(***************************************************************************)
(* The circular doubly linked lists of lib/_linklist.js, pointer by        *)
(* pointer.  A list is itself a node: list._idlePrev is its most idle item *)
(* and list._idleNext its least idle one.  The callers are those of        *)
(* lib/timers.js: init() is applied to new lists and, by enroll(), to items *)
(* that unenroll() has taken out of their list.                            *)
(***************************************************************************)
EXTENDS Naturals, Sequences, FiniteSets

CONSTANTS
  Items,        \* sockets and timers
  Lists,        \* the list objects kept in timers.js's "lists"
  Null          \* null or undefined: a pointer that is not set

Nodes == Items \cup Lists

ASSUME NodesAssumption == Items \cap Lists = {} /\ Null \notin Nodes

VARIABLES
  next,         \* node._idleNext
  prev,         \* node._idlePrev
  ring          \* history: the node whose ring this node was last put into

vars == <<next, prev, ring>>

\* L.init(list) for every list; items have no pointers until enroll().
Init ==
  /\ next = [n \in Nodes |-> IF n \in Lists THEN n ELSE Null]
  /\ prev = [n \in Nodes |-> IF n \in Lists THEN n ELSE Null]
  /\ ring = [n \in Nodes |-> n]

-----------------------------------------------------------------------------
(* The functions, as operators that return the new pointers.                *)

Pointers == [next |-> next, prev |-> prev]

init(p, n) == [next |-> [p.next EXCEPT ![n] = n], prev |-> [p.prev EXCEPT ![n] = n]]

\* The two assignments happen in this order; the second one reads the
\* item's _idlePrev after the first.
remove(p, i) ==
  LET prev1 == IF p.next[i] # Null THEN [p.prev EXCEPT ![p.next[i]] = p.prev[i]]
                                   ELSE p.prev
      next1 == IF prev1[i] # Null THEN [p.next EXCEPT ![prev1[i]] = p.next[i]]
                                  ELSE p.next
  IN [next |-> [next1 EXCEPT ![i] = Null], prev |-> [prev1 EXCEPT ![i] = Null]]

\* Variants of append(): without the remove(), and at the wrong end.
append_NoRemove(p, l, i) ==
  [next |-> [p.next EXCEPT ![i] = p.next[l], ![l] = i],
   prev |-> [p.prev EXCEPT ![p.next[l]] = i, ![i] = l]]
append_Front(p, l, i) ==
  LET q == remove(p, i)
  IN [prev |-> [q.prev EXCEPT ![i] = q.prev[l], ![l] = i],
      next |-> [q.next EXCEPT ![q.prev[l]] = i, ![i] = l]]

append(p, l, i) ==
  LET q == remove(p, i)
  IN [next |-> [q.next EXCEPT ![i] = q.next[l], ![l] = i],
      prev |-> [q.prev EXCEPT ![q.next[l]] = i, ![i] = l]]

peek(l) == IF prev[l] = l THEN Null ELSE prev[l]

Becomes(p) == next' = p.next /\ prev' = p.prev

-----------------------------------------------------------------------------
(* The operations timers.js performs.                                       *)

\* enroll(): an item with pointers leaves its list first, then L.init(item).
Enroll(i) ==
  /\ Becomes(init(IF next[i] # Null THEN remove(Pointers, i) ELSE Pointers, i))
  /\ ring' = [ring EXCEPT ![i] = i]

\* unenroll() and clearTimeout().
Unenroll(i) == Becomes(remove(Pointers, i)) /\ UNCHANGED ring

\* insert() and active().
Active(l, i) ==
  /\ Becomes(append(Pointers, l, i))
  /\ ring' = [ring EXCEPT ![i] = l]

\* The list callback: L.remove(L.peek(list)), which L.shift(list) is too.
Expire(l) ==
  /\ peek(l) # Null
  /\ Becomes(remove(Pointers, peek(l)))
  /\ UNCHANGED ring

Next ==
  \/ \E i \in Items : Enroll(i) \/ Unenroll(i)
  \/ \E l \in Lists, i \in Items : Active(l, i)
  \/ \E l \in Lists : Expire(l)

Spec == Init /\ [][Next]_vars

-----------------------------------------------------------------------------
(* Properties.                                                              *)

\* Every pointer is a node or unset, and those of a list are always set.
TypeOK ==
  /\ next \in [Nodes -> Nodes \cup {Null}]
  /\ prev \in [Nodes -> Nodes \cup {Null}]
  /\ \A l \in Lists : next[l] # Null /\ prev[l] # Null
  /\ ring \in [Nodes -> Nodes]

\* The two directions agree: from every linked node, one step forward and one
\* step back return to it, and a node is linked in both directions or neither.
\* remove() and append() rely on it to splice nodes without visiting the list.
Linked ==
  \A n \in Nodes :
     /\ next[n] = Null <=> prev[n] = Null
     /\ next[n] # Null => prev[next[n]] = n
     /\ prev[n] # Null => next[prev[n]] = n

\* Two lists are never spliced into one ring: the neighbours of a linked node
\* are in its own ring, so peek() returns an item, never another list.
Separate ==
  \A n \in Nodes : next[n] # Null => ring[next[n]] = ring[n] /\ ring[prev[n]] = ring[n]

\* What remove() and append() leave behind can be relied on by the next call.
Consistent == TypeOK /\ Linked /\ Separate

\* The nodes met by following _idlePrev from a list, as a sequence.
Walk(l) ==
  LET node[k \in Nat] == IF k = 0 THEN l ELSE prev[node[k - 1]]
      size == CHOOSE k \in 0..Cardinality(Items) : node[k + 1] = l
  IN [k \in 1..size |-> node[k]]

\* The pointers implement the ordered lists that timers.js relies on: the
\* items of a list, walked from list._idlePrev, are in the order of their
\* last append(), and no operation on one list disturbs another.
Abstract == INSTANCE IdleLists WITH order <- [l \in Lists |-> Walk(l)]
Implements == Abstract!Spec
=============================================================================
