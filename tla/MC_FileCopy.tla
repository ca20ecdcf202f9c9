---------------------------- MODULE MC_FileCopy ----------------------------
(* A small instance of FileCopy for TLC: a file piped to two streams.       *)
EXTENDS FileCopy

TwoPrograms == {[dests |-> {"d1", "d2"}, len |-> 3, chunk |-> 1, faults |-> {}]}
=============================================================================
