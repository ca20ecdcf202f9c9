----------------------------- MODULE IdleLists -----------------------------
(***************************************************************************)
(* What lib/_linklist.js promises to lib/timers.js: lists that keep their   *)
(* items in the order of their last append, each item in at most one list.  *)
(* Module LinkList implements it with _idleNext and _idlePrev pointers.     *)
(***************************************************************************)
EXTENDS Naturals, Sequences, SequencesExt

CONSTANTS Items, Lists

VARIABLE order    \* order[l]: the items of list l, most idle first

Init == order = [l \in Lists |-> << >>]

Without(i) == [l \in Lists |-> Remove(order[l], i)]

\* An item leaves whatever list it is in, if any.
Leave(i) == order' = Without(i)

\* An item becomes the least idle one of list l.
Touch(l, i) == order' = [Without(i) EXCEPT ![l] = Append(@, i)]

\* The most idle item of list l leaves it.
Pop(l) == order[l] # << >> /\ order' = [order EXCEPT ![l] = Tail(@)]

Next == \/ \E i \in Items : Leave(i)
        \/ \E l \in Lists, i \in Items : Touch(l, i)
        \/ \E l \in Lists : Pop(l)

Spec == Init /\ [][Next]_order
=============================================================================
