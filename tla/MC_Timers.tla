----------------------------- MODULE MC_Timers -----------------------------
(* A small instance of Timers for TLC: programs with one or two timers, of  *)
(* one kind or of two, and one or two timeouts.                             *)
EXTENDS Timers

CONSTANTS d1, d2, s1, s2, r1

SmallPrograms ==
  {[objects |-> {d1, d2}, msecs |-> {3}], [objects |-> {s1}, msecs |-> {1, 2}],
   [objects |-> {s1, s2}, msecs |-> {3}], [objects |-> {d1, s1}, msecs |-> {3}],
   [objects |-> {d1, r1}, msecs |-> {1, 2}]}
=============================================================================
