------------------------------- MODULE MC_Net -------------------------------
(***************************************************************************)
(* Small instances of NetSocket and NetServer in one state space.  "part"   *)
(* says which of them runs; it never changes, and the variables of the      *)
(* other one keep a value that means nothing.  The two share stack,         *)
(* lookups, calls and program, which mean the same in both.                 *)
(***************************************************************************)
EXTENDS Integers, Sequences, FiniteSets

VARIABLES
  part,                                   \* "socket" or "server"
  stack, lookups, calls, program,         \* of both
  sock, ret, seen, reads,                 \* of the socket
  srv, os, ticks, reqs, rejected, cur, wrong, clients  \* of the server

socketvars == <<sock, ret, seen, reads>>
servervars == <<srv, os, ticks, reqs, rejected, cur, wrong, clients>>
sumvars == <<part, stack, lookups, calls, program, socketvars, servervars>>

-----------------------------------------------------------------------------
\* Plain use, use with exceptions and callbacks, a half-open socket that is used again,
\* misuse, and descriptors that are passed.
SocketPrograms ==
  {[uses |-> {"name", "callback"}, allowHalfOpen |-> FALSE, calls |-> 3],
   [uses |-> {"stringCallback", "throw"}, allowHalfOpen |-> FALSE, calls |-> 3],
   [uses |-> {"name", "reuse"}, allowHalfOpen |-> TRUE, calls |-> 4],
   [uses |-> {"name", "abort", "reopen"}, allowHalfOpen |-> FALSE, calls |-> 3],
   [uses |-> {"fd"}, allowHalfOpen |-> FALSE, calls |-> 3],
   [uses |-> {"stringFd"}, allowHalfOpen |-> FALSE, calls |-> 2]}

\* A server at its limits, a server closed too early, one on a path, one opened again at
\* once, and one with faults.
ServerPrograms ==
  {[kinds |-> {"port", "fd"}, uses |-> {"pause"}, faults |-> {}, maxConnections |-> 2,
    fds |-> 5, files |-> 0, clients |-> 5, calls |-> 4],
   [kinds |-> {"port", "name", "fd"}, uses |-> {"early", "reuse"}, faults |-> {},
    maxConnections |-> 0, fds |-> 4, files |-> 1, clients |-> 3, calls |-> 5],
   [kinds |-> {"path", "name"}, uses |-> {}, faults |-> {}, maxConnections |-> 0,
    fds |-> 4, files |-> 0, clients |-> 1, calls |-> 5],
   [kinds |-> {"port", "path"}, uses |-> {"relisten"}, faults |-> {}, maxConnections |-> 0,
    fds |-> 4, files |-> 0, clients |-> 1, calls |-> 4],
   [kinds |-> {"path"}, uses |-> {}, faults |-> {"path", "file", "accept"},
    maxConnections |-> 1, fds |-> 4, files |-> 0, clients |-> 2, calls |-> 3]}

\* Writes of two units, a pool that takes one, and one read that returns data; two rejected
\* clients make the server pause.
S == INSTANCE NetSocket WITH
  Programs <- SocketPrograms, Lengths <- {2}, PoolRoom <- {1}, MaxReads <- 1
V == INSTANCE NetServer WITH Programs <- ServerPrograms, RejectLimit <- 1

ASSUME S!SocketAssumption /\ V!ServerAssumption

-----------------------------------------------------------------------------
Unused(x) == x = 0

SumInit ==
  \/ /\ part = "socket" /\ S!Init
     /\ Unused(srv) /\ Unused(os) /\ Unused(ticks) /\ Unused(reqs) /\ Unused(rejected)
     /\ Unused(cur) /\ Unused(wrong) /\ Unused(clients)
  \/ /\ part = "server" /\ V!Init
     /\ Unused(sock) /\ Unused(ret) /\ Unused(seen) /\ Unused(reads)

Socket(A) == part = "socket" /\ A /\ UNCHANGED <<part, program, servervars>>
Server(A) == part = "server" /\ A /\ UNCHANGED <<part, program, socketvars>>

SumNext == Socket(S!Next) \/ Server(V!Next)

\* The fairness of both; only one of them runs, so that one condition may serve both.
FairSpec ==
  /\ SumInit /\ [][SumNext]_sumvars
  /\ WF_sumvars(Socket(S!Code) \/ Server(V!Code))
  /\ SF_sumvars(Socket(S!OnTick) \/ Server(V!OnTick))
  /\ SF_sumvars(Socket(S!LooksUp) \/ Server(V!OnAcceptable))
  /\ SF_sumvars(Socket(S!Connects) \/ Server(V!OnPauseTimer))
  /\ SF_sumvars(Socket(S!Takes))

-----------------------------------------------------------------------------
\* What a program writes reaches the kernel in the order of the calls, without gap or
\* repetition, and nothing follows the FIN; callbacks of writes run once, in order, and not
\* before their data is out; descriptors are passed in order and not after their data.
WireInOrder ==
  /\ [](part = "socket" => S!WireInOrder)
  /\ [][part = "socket" => S!FinIsLast]_sumvars

\* bufferSize, descriptor, watchers and flags of a socket agree, a destroyed one is quiet,
\* a connected one with data in its queue is watched, and every descriptor that was closed
\* is reported by one 'close' event, the end of the input by at most one 'end'.
Coherent == part = "socket" => S!TypeOK /\ S!Coherent /\ S!EventsOnce

\* server.connections is the number of open accepted sockets, within maxConnections; the
\* server has one descriptor at most, watched when it listens only; and nothing is thrown
\* out of the callbacks of an orderly program's server, except on purpose: for a path that
\* is not its own and for an accept() that fails for no want of descriptors.
ConnectionsExact == part = "server" => V!TypeOK /\ V!ConnectionsExact /\ V!NoneThrown

\* end() and destroySoon() of a socket complete, and clients that wait for a server are
\* accepted or rejected.
ToComplete == IF part = "socket" THEN S!ToEnd ELSE V!Pending
Completed == IF part = "socket" THEN S!HalfClosed ELSE V!Served
Completes ==
  /\ ToComplete ~> Completed
  /\ (part = "socket" /\ S!ToDrain) ~> (part = "socket" => S!Gone)
=============================================================================
