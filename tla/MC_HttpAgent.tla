---------------------------- MODULE MC_HttpAgent ----------------------------
(* A small instance of HttpAgent for TLC: a program that may abort a request *)
(* and make another one, over one socket.                                    *)
EXTENDS HttpAgent

ClosingPrograms ==
  {[max |-> 2, calls |-> 4, maxSockets |-> 1, keep |-> {FALSE}, chunked |-> {FALSE},
    uses |-> {"abort"}]}
=============================================================================
