------------------------------- MODULE MC_Http -------------------------------
(***************************************************************************)
(* Small instances of HttpServer and HttpAgent in one state space.  "part"  *)
(* says which of them runs; it never changes, and the variables of the      *)
(* other one keep a value that means nothing.  The two share stack, wrong,  *)
(* calls and program, which mean the same in both.                          *)
(***************************************************************************)
EXTENDS Integers, Sequences, FiniteSets

VARIABLES
  part,                                       \* "server" or "agent"
  stack, wrong, calls, program,               \* of both
  conn, res, incoming, outgoing, done, aborted,  \* of the server
  queue, sockets, req, sock                   \* of the agent

servervars == <<conn, res, incoming, outgoing, done, aborted>>
agentvars == <<queue, sockets, req, sock>>
sumvars == <<part, stack, wrong, calls, program, servervars, agentvars>>

-----------------------------------------------------------------------------
\* Pipelined requests, a client that ends its side of a half-open connection, connections
\* that are not kept alive, and a client and a program that are not orderly.
ServerPrograms ==
  {[requests |-> {"get"}, headers |-> {"plain"},
    uses |-> {"pipeline"}, max |-> 3, calls |-> 4],
   [requests |-> {"get", "expect"}, headers |-> {"length"},
    uses |-> {"pipeline", "fin", "halfOpen"}, max |-> 2, calls |-> 3],
   [requests |-> {"head", "old", "close", "upgrade"}, headers |-> {"plain", "length"},
    uses |-> {"fin", "upgrade"}, max |-> 2, calls |-> 3],
   [requests |-> {"get", "upgrade"}, headers |-> {"length", "close"},
    uses |-> {"pipeline", "fin", "buffer", "late"}, max |-> 2, calls |-> 3]}

Requests(m, c, k, keep, chunked, uses) ==
  [max |-> m, calls |-> c, maxSockets |-> k, keep |-> keep, chunked |-> chunked, uses |-> uses]

\* Two sockets for three requests, one for two; connections that are kept or not, ended,
\* reset or upgraded; requests that are aborted at any time, also where they should not be.
AgentPrograms ==
  {Requests(3, 6, 2, {FALSE}, {FALSE}, {"fin"}),
   Requests(2, 4, 1, {TRUE}, {TRUE}, {"fin"}),
   Requests(2, 5, 1, {FALSE}, {FALSE}, {"fin", "abort"}),
   Requests(2, 4, 2, {FALSE}, {FALSE}, {"reset"}),
   Requests(2, 4, 1, {TRUE}, {FALSE}, {"reset", "abort"}),
   Requests(2, 4, 1, {TRUE}, {FALSE}, {"expect"}),
   Requests(2, 4, 1, {FALSE}, {FALSE}, {"named", "reset"}),
   Requests(2, 3, 1, {FALSE}, {FALSE}, {"early", "abort", "inside", "again"}),
   Requests(2, 5, 1, {FALSE}, {FALSE}, {"abort", "inside"}),
   Requests(1, 2, 1, {FALSE}, {FALSE}, {"upgrade", "early"}),
   Requests(2, 4, 1, {TRUE}, {FALSE}, {"upgrade", "listen", "fin"})}

V == INSTANCE HttpServer WITH Programs <- ServerPrograms, MaxRequests <- 3
A == INSTANCE HttpAgent WITH Programs <- AgentPrograms, MaxRequests <- 3

ASSUME V!HttpAssumption /\ A!AgentAssumption

-----------------------------------------------------------------------------
Unused(x) == x = 0

SumInit ==
  \/ /\ part = "server" /\ V!Init
     /\ Unused(queue) /\ Unused(sockets) /\ Unused(req) /\ Unused(sock)
  \/ /\ part = "agent" /\ A!Init
     /\ Unused(conn) /\ Unused(res) /\ Unused(incoming) /\ Unused(outgoing)
     /\ Unused(done) /\ Unused(aborted)

Server(Step) == part = "server" /\ Step /\ UNCHANGED <<part, program, agentvars>>
Agent(Step) == part = "agent" /\ Step /\ UNCHANGED <<part, program, servervars>>

SumNext == Server(V!Next) \/ Agent(A!Next)

\* The fairness of both; only one of them runs, so that one condition may serve both.
FairSpec ==
  /\ SumInit /\ [][SumNext]_sumvars
  /\ WF_sumvars(Server(V!Code) \/ Agent(A!Code))
  /\ SF_sumvars(Server(V!OnClose) \/ Agent(A!Work))
  /\ SF_sumvars(Server(V!OnWritable) \/ Agent(A!Serve))
  /\ SF_sumvars(Agent(A!Progress))

-----------------------------------------------------------------------------
\* Server: the responses go out in the order of the requests, each in one piece and as the
\* program wrote it, whatever the order of its calls.
WireInOrder == part = "server" => V!TypeOK /\ V!WireInOrder

\* Server: every request is waiting, answered or aborted, one of them and once, and none
\* waits after 'close'; so no assertion fails and no call throws.
Accounted == part = "server" => V!Accounted

\* Agent: sockets and requests belong together one to one, within maxSockets; requests wait
\* in order, and never while there is a socket for them.
Dispatch == part = "agent" => A!Dispatch

\* Agent: a socket carries whole requests one after the other, and a response is given to
\* the request that it answers.
Matched == part = "agent" => A!Matched

\* Agent: a request hears at most one response, with one end, and at most one error, which no
\* response follows; and nothing after it was aborted.
ToldOnce == [][part = "agent" => A!Tells]_sumvars

\* Responses that are ended are sent, and connections without further use closed; requests
\* that are ended get an outcome.
Completes == []<>(IF part = "server" THEN V!AllSent ELSE A!AllSettled)
=============================================================================
