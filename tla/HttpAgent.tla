----------------------------- MODULE HttpAgent -----------------------------
(***************************************************************************)
(* The HTTP client of lib/http.js: an Agent with its queue of requests and  *)
(* its sockets, the requests (ClientRequest, on OutgoingMessage) that a     *)
(* program makes, writes, ends and aborts, and the responses, failures and  *)
(* ends of the connections that come from the server and the network.       *)
(*                                                                          *)
(* Requests and sockets are numbered in the order of their creation.  What  *)
(* is sent is a sequence of pieces <<request, part>>; a response is its     *)
(* head and its end.  The socket is the one of module NetSocket, seen from  *)
(* here.  "stack" holds what JavaScript still has to do.                    *)
(***************************************************************************)
EXTENDS Integers, FiniteSets, Sequences, SequencesExt

CONSTANTS
  Programs,      \* the programs and their servers, see below
  MaxRequests    \* bound on the requests of a program

\* "max" and "calls" bound the requests and the calls of the program, "maxSockets" is the
\* agent's.  "keep" and "chunked" are what the headers of a request may ask for.  "uses":
\*   "named"     the host is a name, to be looked up first
\*   "abort"     the program aborts requests, "inside" also in a listener that the agent
\*               calls while it handles data or makes a connection, "again" also twice
\*   "expect"    the server sends '100 Continue' first
\*   "fin"       the server may end the connection at any time
\*   "reset"     the connection may fail at any time, or carry what does not parse
\*   "early"     the server does not wait for a request before it answers
\*   "upgrade"   the server answers with an upgrade, "listen": which the program handles
AgentAssumption ==
  Programs \subseteq [max : 0..MaxRequests, calls : Nat, maxSockets : Nat \ {0},
                      keep : SUBSET BOOLEAN, chunked : SUBSET BOOLEAN,
                      uses : SUBSET {"named", "abort", "inside", "again", "expect", "fin",
                                     "reset", "early", "upgrade", "listen"}]

VARIABLES
  queue,     \* the agent's requests that have no socket yet
  sockets,   \* the agent's sockets
  req,       \* all requests
  sock,      \* all sockets
  stack,     \* what is still to be done
  wrong,     \* the exception or failed assertion that left a callback, if any
  calls,     \* calls of the program so far
  program

vars == <<queue, sockets, req, sock, stack, wrong, calls, program>>

Uses(u) == u \in program.uses
None == 0   \* no request, no socket

-----------------------------------------------------------------------------
(* The socket (net.js).                                                     *)

\* What createConnection() returns: a name is looked up first; else connect() is called,
\* and it may fail at once.
destroy(c, error) ==
  [c EXCEPT !.readable = FALSE, !.writable = FALSE, !.out = << >>, !.destroyed = TRUE,
            !.fd = FALSE, !.tick = IF c.fd THEN (IF error THEN "error" ELSE "close") ELSE @]

NewSocket ==
  [stage |-> "lookup", connecting |-> TRUE, fd |-> FALSE, readable |-> FALSE,
   writable |-> TRUE, out |-> << >>, wire |-> << >>, onDrain |-> FALSE,
   destroyed |-> FALSE, tick |-> "none", msg |-> None, http |-> TRUE,
   parse |-> "idle", for |-> None, answered |-> 0]

doConnect(c) ==
  LET d == [c EXCEPT !.fd = TRUE, !.stage = "connecting"]
  IN IF c.destroyed THEN {d}
     ELSE {d} \cup (IF Uses("reset") THEN {destroy(d, TRUE)} ELSE {})

createConnection == IF Uses("named") THEN {NewSocket} ELSE doConnect(NewSocket)

\* flush(): the kernel takes at least "least" pieces, or reports an error.
flush(c, least) ==
  (IF Uses("reset") THEN {destroy(c, TRUE)} ELSE {}) \cup
  {[c EXCEPT !.wire = @ \o SubSeq(c.out, 1, k), !.out = SubSeq(@, k + 1, Len(@))] :
     k \in least..Len(c.out)}

destroySoon(c) ==
  {IF d.out = << >> THEN destroy(d, FALSE) ELSE [d EXCEPT !.onDrain = TRUE] :
     d \in IF c.out = << >> THEN {c} ELSE flush(c, 0)}

\* write() to a writable socket.
write(c, data) ==
  LET q == [c EXCEPT !.out = @ \o data]
  IN IF c.stage # "open" \/ c.out # << >> THEN {q}
     ELSE IF data = << >> THEN {c} ELSE flush(q, 0)

-----------------------------------------------------------------------------
(* Requests: OutgoingMessage and ClientRequest.                             *)

Header == 1
Body == 2
LastChunk == 3

ClientRequest(keep, chunked) ==
  [queued |-> TRUE, conn |-> None, output |-> << >>, header |-> FALSE, bodies |-> 0,
   finished |-> FALSE, chunked |-> chunked, asks |-> keep, keep |-> FALSE, res |-> FALSE,
   hadError |-> FALSE, aborted |-> FALSE, told |-> << >>]

\* What an event tells the program about request r.
Tell(rs, r, event) == [rs EXCEPT ![r].told = Append(@, event)]

\* The header goes out with the first piece; it says whether to keep the connection alive.
WithHeader(r, data) ==
  (IF req[r].header THEN << >> ELSE <<<<r, Header>>>>) \o data

HeaderSent(m) == [m EXCEPT !.header = TRUE, !.keep = IF m.header THEN @ ELSE m.asks]

\* _send() and _writeRaw(): to the socket if it is the request's, else to "output".
send(r, m, data) ==
  LET s == m.conn
  IN IF s # None /\ sock[s].msg = r /\ sock[s].writable
     THEN {[req |-> [m EXCEPT !.output = << >>], sock |-> [sock EXCEPT ![s] = c]] :
             c \in write(sock[s], m.output \o data)}
     ELSE {[req |-> [m EXCEPT !.output = @ \o data], sock |-> sock]}

-----------------------------------------------------------------------------
(* Frames of the stack.                                                     *)

Frame(op) == <<op, None>>
On(op, s) == <<op, s>>

Idle == stack = << >> /\ wrong = "none"
Top(f) == stack # << >> /\ Head(stack) = f /\ wrong = "none"
TopIs(op) == stack # << >> /\ Head(stack)[1] = op /\ wrong = "none"
Of == Head(stack)[2]

Push(frames) == stack' = frames \o stack
Goto(frames) == stack' = frames \o Tail(stack)
User == Frame("user")
Cycle == Frame("cycle")

Fails(what) == wrong' = what

-----------------------------------------------------------------------------
(* Agent._cycle().                                                          *)

\* A variant of _cycle() that takes a socket that has a request.
Available_Busy(c) == (c.writable /\ c.readable) \/ c.connecting

Available(c) == c.msg = None /\ ((c.writable /\ c.readable) \/ c.connecting)
Free == {i \in DOMAIN sockets : Available(sock[sockets[i]])}
HaveConnecting == \E i \in DOMAIN sockets : sock[sockets[i]].connecting

\* One piece after the other goes to the socket, until it is not writable any more.
FlushResults(c, output) ==
  IF output = << >> \/ ~c.writable THEN {[sock |-> c, output |-> output]}
  ELSE UNION {IF d.destroyed
              THEN {[sock |-> d, output |-> SubSeq(output, k, Len(output))] :
                      k \in 2..(Len(output) + 1)}
              ELSE {[sock |-> d, output |-> << >>]} : d \in write(c, output)}

\* The first request gets the first free socket: assignSocket() with its _flush(), which
\* emits 'finish' or 'drain', and the search starts again.
CycleAssign ==
  /\ Top(Cycle) /\ queue # << >> /\ Free # {}
  /\ LET r == Head(queue)
         s == sockets[CHOOSE i \in Free : \A j \in Free : i <= j]
         m == req[r]
         c == [sock[s] EXCEPT !.msg = r]
     IN /\ queue' = Tail(queue)
        /\ \E x \in FlushResults(c, m.output) :
             /\ sock' = [sock EXCEPT ![s] = x.sock]
             /\ req' = [req EXCEPT ![r] = [m EXCEPT !.queued = FALSE, !.conn = s,
                                                    !.output = x.output]]
             /\ Goto(IF m.output # << >> /\ x.output = << >>
                       /\ (m.finished \/ (x.sock.out = << >> /\ ~x.sock.destroyed))
                     THEN <<User, Cycle>> ELSE <<Cycle>>)
  /\ UNCHANGED <<sockets, wrong, calls>>

\* A variant of _cycle() that does not look for a connecting socket, or at the limit.
MayConnect_Always == TRUE
MayConnect == ~HaveConnecting /\ Len(sockets) < program.maxSockets

\* _establishNewConnection(), up to its call of _cycle().
CycleEstablish ==
  /\ Top(Cycle) /\ queue # << >> /\ Free = {} /\ MayConnect
  /\ \E c \in createConnection : sock' = Append(sock, c)
  /\ sockets' = Append(sockets, Len(sock'))
  /\ Goto(<<Cycle, On("setup", Len(sock'))>>)
  /\ UNCHANGED <<queue, req, wrong, calls>>

CycleNone ==
  /\ Top(Cycle) /\ (queue = << >> \/ (Free = {} /\ ~MayConnect))
  /\ Goto(<< >>)
  /\ UNCHANGED <<queue, sockets, req, sock, wrong, calls>>

\* The rest of _establishNewConnection(): it asserts that the socket has a request.
Setup ==
  /\ TopIs("setup")
  /\ IF sock[Of].msg = None THEN Fails("no request") /\ UNCHANGED stack
     ELSE UNCHANGED wrong /\ Goto(<< >>)
  /\ UNCHANGED <<queue, sockets, req, sock, calls>>

-----------------------------------------------------------------------------
(* Calls by the program.                                                    *)

Call == Top(User) /\ calls < program.calls /\ calls' = calls + 1

\* http.request(): appendMessage().
Request(keep, chunked) ==
  /\ Call /\ Len(req) < program.max
  /\ keep \in program.keep /\ chunked \in program.chunked
  /\ req' = Append(req, ClientRequest(keep, chunked))
  /\ queue' = Append(queue, Len(req'))
  /\ Push(<<Cycle>>)
  /\ UNCHANGED <<sockets, sock, wrong>>

Usable(r) == ~req[r].finished /\ ~req[r].aborted

\* write() of a chunk; one is enough.
Write(r) ==
  /\ Call /\ Usable(r) /\ req[r].bodies = 0
  /\ \E x \in send(r, HeaderSent(req[r]), WithHeader(r, <<<<r, Body>>>>)) :
       req' = [req EXCEPT ![r] = [x.req EXCEPT !.bodies = 1]] /\ sock' = x.sock
  /\ UNCHANGED <<queue, sockets, stack, wrong>>

\* end(), which looks at the connection of a request that has nothing to send.
End(r) ==
  /\ Call /\ Usable(r)
  /\ \E x \in send(r, HeaderSent(req[r]),
                   WithHeader(r, IF req[r].chunked THEN <<<<r, LastChunk>>>> ELSE << >>)) :
       /\ req' = [req EXCEPT ![r] = [x.req EXCEPT !.finished = TRUE]] /\ sock' = x.sock
       /\ IF x.req.output # << >> THEN UNCHANGED <<stack, wrong>>
          ELSE IF x.req.conn = None THEN Fails("no connection") /\ UNCHANGED stack
          ELSE UNCHANGED wrong /\ Push(<<User>>)
  /\ UNCHANGED <<queue, sockets>>

\* abort() takes a request out of the queue, or destroys its socket.  The place of a
\* request that is no longer in the queue is -1, and splice(-1, 1) takes the last one.
Splice(q, r) ==
  LET at == {i \in DOMAIN q : q[i] = r}
  IN IF q = << >> THEN q
     ELSE RemoveAt(q, IF at = {} THEN Len(q) ELSE CHOOSE i \in at : TRUE)

Abort(r) ==
  /\ Call /\ Uses("abort") /\ (req[r].aborted => Uses("again"))
  /\ Uses("inside") \/ \A i \in DOMAIN stack : stack[i][1] \in {"user", "cycle"}
  /\ LET s == req[r].conn
         m == [req EXCEPT ![r].aborted = TRUE, ![r].conn = None]
     IN \/ /\ req[r].queued
           /\ queue' = Splice(queue, r) /\ req' = m /\ UNCHANGED sock
        \/ /\ ~req[r].queued /\ s # None
           /\ sock' = [sock EXCEPT ![s] = destroy([@ EXCEPT !.msg = None], FALSE)]
           /\ req' = m /\ UNCHANGED queue
        \/ ~req[r].queued /\ s = None /\ req' = m /\ UNCHANGED <<queue, sock>>
  /\ UNCHANGED <<sockets, stack, wrong>>

Return ==
  /\ Top(User)
  /\ Goto(<< >>)
  /\ UNCHANGED <<queue, sockets, req, sock, wrong, calls>>

\* The program runs for a reason of its own.
OnOther ==
  /\ Idle /\ calls < program.calls
  /\ Push(<<User>>)
  /\ UNCHANGED <<queue, sockets, req, sock, wrong, calls>>

-----------------------------------------------------------------------------
(* The connection is made, takes data, fails.                               *)

\* The name is looked up.  doConnect() leaves a socket alone that was destroyed.
OnLookup(s) ==
  /\ Idle /\ sock[s].stage = "lookup"
  /\ \/ \E c \in doConnect(sock[s]) : sock' = [sock EXCEPT ![s] = c] /\ UNCHANGED stack
     \/ /\ Uses("reset")
        /\ sock' = [sock EXCEPT ![s].stage = "failed"] /\ Push(<<On("error", s)>>)
  /\ UNCHANGED <<queue, sockets, req, wrong, calls>>

OnConnect(s) ==
  /\ Idle /\ sock[s].stage = "connecting" /\ ~sock[s].destroyed
  /\ \/ /\ sock' = [sock EXCEPT ![s].stage = "open", ![s].readable = TRUE,
                                 ![s].connecting = FALSE]
        /\ Push(<<Cycle, On("flush", s)>>)
     \/ /\ Uses("reset")
        /\ sock' = [sock EXCEPT ![s] = destroy(@, TRUE)] /\ UNCHANGED stack
  /\ UNCHANGED <<queue, sockets, req, wrong, calls>>

\* _onWritable(): flush(), then 'drain' for the request that has the socket.
Flushed(s, c, rest) ==
  /\ sock' = [sock EXCEPT ![s] = c]
  /\ stack' = (IF c.out # << >> \/ c.destroyed THEN << >>
               ELSE (IF c.msg = None THEN << >> ELSE <<User>>) \o <<On("drained", s)>>) \o rest
  /\ UNCHANGED <<queue, sockets, req, wrong, calls>>

FlushConnected ==
  /\ TopIs("flush")
  /\ IF sock[Of].out = << >>
     THEN Goto(<< >>) /\ UNCHANGED <<queue, sockets, req, sock, wrong, calls>>
     ELSE \E c \in flush(sock[Of], 0) : Flushed(Of, c, Tail(stack))

OnWritable(s) ==
  /\ Idle /\ sock[s].stage = "open" /\ sock[s].out # << >>
  /\ \E c \in flush(sock[s], 1) : Flushed(s, c, << >>)

Drained ==
  /\ TopIs("drained")
  /\ sock' = IF sock[Of].onDrain THEN [sock EXCEPT ![Of] = destroy(@, FALSE)] ELSE sock
  /\ Goto(<< >>)
  /\ UNCHANGED <<queue, sockets, req, wrong, calls>>

\* Reading fails.
OnReset(s) ==
  /\ Idle /\ Uses("reset") /\ sock[s].stage = "open" /\ ~sock[s].destroyed
  /\ sock' = [sock EXCEPT ![s] = destroy(@, TRUE)]
  /\ UNCHANGED <<queue, sockets, req, stack, wrong, calls>>

-----------------------------------------------------------------------------
(* Responses.                                                               *)

Sent(c, r) == \E i \in DOMAIN c.wire : c.wire[i][1] = r

\* The whole of request r has reached the server on this socket.
Received(c, r) ==
  /\ Sent(c, r) /\ req[r].finished /\ req[r].output = << >>
  /\ \A i \in DOMAIN c.out : c.out[i][1] # r

MayAnswer(c) ==
  IF Uses("early") THEN c.answered < program.max
  ELSE c.answered < Cardinality({r \in DOMAIN req : Received(c, r)})

MayContinue(c) == Uses("expect") /\ c.msg # None /\ Sent(c, c.msg) /\ ~req[c.msg].res

\* socket.ondata
OnData(s) ==
  /\ Idle /\ sock[s].readable /\ sock[s].http
  /\ sock[s].parse = "length" \/ MayAnswer(sock[s]) \/ MayContinue(sock[s])
  /\ Push(<<On("parse", s)>>)
  /\ UNCHANGED <<queue, sockets, req, sock, wrong, calls>>

Parsing == TopIs("parse") /\ UNCHANGED calls

\* parser.onIncoming: '100 Continue'.
ParseContinue ==
  /\ Parsing /\ sock[Of].parse = "idle" /\ MayContinue(sock[Of])
  /\ req' = [req EXCEPT ![sock[Of].msg].res = TRUE]
  /\ Push(<<User>>)
  /\ UNCHANGED <<queue, sockets, sock, wrong>>

\* parser.onIncoming: a response that has a length or lasts until the connection ends.
ParseHead(kind, close) ==
  /\ Parsing /\ sock[Of].parse = "idle" /\ MayAnswer(sock[Of])
  /\ LET r == sock[Of].msg
         c == [sock[Of] EXCEPT !.parse = kind, !.for = r, !.answered = @ + 1]
     IN IF r = None
        THEN /\ sock' = [sock EXCEPT ![Of] = destroy(c, FALSE)]
             /\ UNCHANGED <<req, stack>>
        ELSE /\ sock' = [sock EXCEPT ![Of] = c]
             /\ req' = Tell([req EXCEPT ![r].res = TRUE, ![r].keep = @ /\ ~close],
                            r, "response")
             /\ Push(<<User>>)
  /\ UNCHANGED <<queue, sockets, wrong>>

KeepAlive(r) == req[r].keep

\* The listener of the response's 'end', and the program's; "rest" is left to do.
ResponseEnd(s, rest) ==
  /\ LET r == sock[s].for
         c == [sock[s] EXCEPT !.parse = "idle", !.for = None]
         soon == IF KeepAlive(r) \/ ~c.writable THEN {c} ELSE destroySoon(c)
     IN IF r = None
        THEN sock' = [sock EXCEPT ![s] = c] /\ stack' = rest /\ UNCHANGED <<req, wrong>>
        ELSE \E d \in soon :
               IF ~KeepAlive(r) /\ d.writable
               THEN Fails("writable") /\ UNCHANGED <<req, stack, sock>>
               ELSE IF d.msg # r THEN Fails("detached") /\ UNCHANGED <<req, stack, sock>>
               ELSE /\ sock' = [sock EXCEPT ![s] = [d EXCEPT !.msg = None]]
                    /\ req' = Tell([req EXCEPT ![r].conn = None], r, "end")
                    /\ stack' = <<Cycle, User>> \o rest /\ UNCHANGED wrong
  /\ UNCHANGED <<queue, sockets, calls>>

ParseEnd ==
  /\ TopIs("parse") /\ sock[Of].parse = "length"
  /\ ResponseEnd(Of, stack)

\* socket.ondata after parser.execute(): the data ends, does not parse, or the rest of it
\* is another protocol, and the socket is taken from the agent.
ParseDone ==
  /\ Parsing /\ Goto(<< >>)
  /\ UNCHANGED <<queue, sockets, req, sock, wrong>>

ParseError ==
  /\ Parsing /\ Uses("reset") /\ Goto(<< >>)
  /\ sock' = [sock EXCEPT ![Of] = destroy(@, TRUE)]
  /\ UNCHANGED <<queue, sockets, req, wrong>>

Removed(s) == SelectSeq(sockets, LAMBDA t : t # s)

ParseUpgrade ==
  /\ Parsing /\ Uses("upgrade") /\ sock[Of].parse = "idle" /\ MayAnswer(sock[Of])
  /\ LET r == sock[Of].msg
         c == [sock[Of] EXCEPT !.http = FALSE, !.answered = @ + 1]
     IN IF r = None
        THEN Fails("no request") /\ UNCHANGED <<sockets, req, sock, stack>>
        ELSE /\ sockets' = Removed(Of) /\ UNCHANGED wrong
             /\ req' = Tell([req EXCEPT ![r].res = TRUE], r, "upgrade")
             /\ IF Uses("listen") THEN sock' = [sock EXCEPT ![Of] = c] /\ Goto(<<User>>)
                ELSE sock' = [sock EXCEPT ![Of] = destroy(c, FALSE)] /\ Goto(<< >>)
  /\ UNCHANGED queue

-----------------------------------------------------------------------------
(* The end of the connection.                                               *)

\* The server has ended its side: the socket ends its own, and onend finishes the parser
\* and destroys the socket.
OnEnd(s) ==
  /\ Idle /\ sock[s].readable /\ (Uses("fin") \/ sock[s].parse = "eof")
  /\ LET c == [sock[s] EXCEPT !.readable = FALSE]
     IN \E d \in IF c.out = << >> THEN {c} ELSE flush(c, 0) :
          sock' = [sock EXCEPT ![s] = IF d.out = << >> THEN destroy(d, FALSE) ELSE d]
  /\ Push(IF sock[s].http THEN <<On("finish", s), On("destroy", s)>> ELSE << >>)
  /\ UNCHANGED <<queue, sockets, req, wrong, calls>>

\* parser.finish() completes a response that lasts until the connection ends.
ParserFinish ==
  /\ TopIs("finish")
  /\ IF sock[Of].parse = "eof" THEN ResponseEnd(Of, Tail(stack))
     ELSE Goto(<< >>) /\ UNCHANGED <<queue, sockets, req, sock, wrong, calls>>

Destroy ==
  /\ TopIs("destroy")
  /\ sock' = [sock EXCEPT ![Of] = destroy(@, FALSE)] /\ Goto(<< >>)
  /\ UNCHANGED <<queue, sockets, req, wrong, calls>>

\* The tick of destroy(): 'error' if there was one, and 'close'.
OnTick(s) ==
  /\ Idle /\ sock[s].tick \in {"error", "close"}
  /\ sock' = [sock EXCEPT ![s].tick = "done"]
  /\ Push(IF sock[s].tick = "error" THEN <<On("error", s), On("close", s)>>
          ELSE <<On("close", s)>>)
  /\ UNCHANGED <<queue, sockets, req, wrong, calls>>

\* The listener of 'error' tells the socket's request, or else the first in the queue.
ErrorEvent ==
  /\ TopIs("error")
  /\ LET m == sock[Of].msg
         r == IF m # None THEN m ELSE Head(queue)
     IN IF m = None /\ queue = << >>
        THEN Fails("no request to tell") /\ UNCHANGED <<queue, req, stack>>
        ELSE /\ queue' = IF m = None THEN Tail(queue) ELSE queue
             /\ req' = Tell([req EXCEPT ![r].queued = FALSE, ![r].hadError = TRUE], r, "error")
             /\ Goto(<<User, On("finish", Of), On("clean", Of)>>) /\ UNCHANGED wrong
  /\ UNCHANGED <<sockets, sock, calls>>

\* A variant of the end of the listeners of 'error' and 'close': the agent does not go on.
RemoveSocket_Only(s) == sockets' = Removed(s) /\ Goto(<< >>)

\* _removeSocket() and _cycle()
RemoveSocket(s) == sockets' = Removed(s) /\ Goto(<<Cycle>>)

Clean ==
  /\ TopIs("clean")
  /\ sock' = [sock EXCEPT ![Of] = destroy(@, FALSE)] /\ RemoveSocket(Of)
  /\ UNCHANGED <<queue, req, wrong, calls>>

\* A variant that tells the request of the failure a second time.
HangUp_Again(r) == TRUE
HangUp(r) == ~req[r].hadError

\* The listener of 'close': a response that has begun is aborted, a request without one
\* gets an error.  The object of '100 Continue' is nobody's.
Known(r) == \E i \in DOMAIN req[r].told : req[r].told[i] \in {"response", "upgrade"}

ClosingEvent(r) ==
  IF r = None THEN "none"
  ELSE IF req[r].res THEN (IF Known(r) THEN "aborted" ELSE "none")
  ELSE IF HangUp(r) THEN "error" ELSE "none"

CloseEvent ==
  /\ TopIs("close")
  /\ LET r == sock[Of].msg
         event == ClosingEvent(r)
     IN IF event = "none" THEN Goto(<<On("closed", Of)>>) /\ UNCHANGED req
        ELSE req' = Tell(req, r, event) /\ Goto(<<User, On("closed", Of)>>)
  /\ UNCHANGED <<queue, sockets, sock, wrong, calls>>

Closed ==
  /\ TopIs("closed")
  /\ RemoveSocket(Of)
  /\ UNCHANGED <<queue, req, sock, wrong, calls>>

-----------------------------------------------------------------------------
Init ==
  /\ queue = << >> /\ sockets = << >> /\ req = << >> /\ sock = << >>
  /\ stack = << >> /\ wrong = "none" /\ calls = 0
  /\ program \in Programs

Calls ==
  \/ \E keep, chunked \in BOOLEAN : Request(keep, chunked)
  \/ \E r \in DOMAIN req : Write(r) \/ End(r) \/ Abort(r)

Parse ==
  \/ ParseContinue
  \/ \E kind \in {"length", "eof"}, close \in BOOLEAN : ParseHead(kind, close)
  \/ ParseEnd \/ ParseDone \/ ParseError \/ ParseUpgrade

Code ==
  \/ Return \/ CycleAssign \/ CycleEstablish \/ CycleNone \/ Setup
  \/ FlushConnected \/ Drained \/ Parse \/ ParserFinish \/ Destroy
  \/ ErrorEvent \/ Clean \/ CloseEvent \/ Closed

Network(s) == OnLookup(s) \/ OnConnect(s) \/ OnWritable(s) \/ OnTick(s)

Callbacks ==
  \/ OnOther
  \/ \E s \in DOMAIN sock : Network(s) \/ OnReset(s) \/ OnData(s) \/ OnEnd(s)

Next == (Calls \/ Code \/ Callbacks) /\ UNCHANGED program

Spec == Init /\ [][Next]_vars

\* Code that runs finishes; the loop serves what happens to the sockets; the server answers
\* what it has received, with responses that end.
Work == \E s \in DOMAIN sock : Network(s)
Serve == \E s \in DOMAIN sock : OnData(s) \/ (sock[s].parse = "eof" /\ OnEnd(s))

Progress ==
  ParseEnd \/ \E kind \in {"length", "eof"}, close \in BOOLEAN : ParseHead(kind, close)

Fair(A) == A /\ UNCHANGED program

FairSpec ==
  Spec /\ WF_vars(Fair(Code)) /\ SF_vars(Fair(Work)) /\ SF_vars(Fair(Serve))
       /\ SF_vars(Fair(Progress))

-----------------------------------------------------------------------------
\* The program does not abort a request twice or in the middle of the agent's work, and the
\* server answers what it was asked.
Orderly == program.uses \cap {"inside", "again", "early"} = {}

\* A connection that fails always has a request to tell: it is not kept for later and its
\* request is not aborted.
Attended == Uses("reset") => TRUE \notin program.keep /\ ~Uses("abort")

Listed == {sockets[i] : i \in DOMAIN sockets}

\* The sockets and the requests belong together, whatever happens between the calls of the
\* program, the connections and the server: at most maxSockets sockets, one of them
\* connecting; a request waits, in the order of the calls, or has one socket, which has
\* only this request; no open connection is unknown to the agent.  When no code runs, no
\* request waits while it could have a socket, and none of the assertions has failed.
Dispatch ==
  Orderly =>
    /\ Attended => wrong = "none"
    /\ Len(sockets) <= program.maxSockets /\ Cardinality(Listed) = Len(sockets)
    /\ Cardinality({s \in Listed : sock[s].connecting}) <= 1
    /\ \A i, j \in DOMAIN queue : i < j => queue[i] < queue[j]
    /\ \A i \in DOMAIN queue : req[queue[i]].queued /\ req[queue[i]].conn = None
    /\ \A s \in DOMAIN sock :
         /\ sock[s].msg # None => req[sock[s].msg].conn = s
         /\ ~sock[s].destroyed /\ sock[s].http /\ wrong = "none" =>
              s \in Listed \/ sock[s].stage = "failed"
    /\ \A r \in DOMAIN req : req[r].conn # None => sock[req[r].conn].msg = r
    /\ Idle /\ queue # << >> /\ ~Uses("upgrade") =>
         /\ Len(sockets) = program.maxSockets \/ \E s \in Listed : sock[s].connecting
         /\ \A s \in Listed : sock[s].msg # None \/ ~sock[s].writable \/ ~sock[s].readable

\* What the program has asked to be sent in request r.
Asked(r) ==
  LET m == req[r]
      piece(p) == <<<<r, p>>>>
  IN (IF m.header THEN piece(Header) ELSE << >>)
       \o (IF m.bodies > 0 THEN piece(Body) ELSE << >>)
       \o (IF m.finished /\ m.chunked THEN piece(LastChunk) ELSE << >>)

\* The requests sent on a socket, in their order.
SentOn(s) ==
  SelectSeq([r \in DOMAIN req |-> r],
            LAMBDA r : \E i \in DOMAIN (sock[s].wire \o sock[s].out) :
                         (sock[s].wire \o sock[s].out)[i][1] = r)

\* A socket carries whole requests, one after the other and each on one socket only; and the
\* response that arrives on it, after any number of requests and of '100 Continue', is
\* given to the request that it answers.
Matched ==
  Orderly =>
    /\ \A s \in DOMAIN sock :
         LET on == SentOn(s)
             all == FlattenSeq([i \in DOMAIN on |-> Asked(on[i])])
             c == sock[s]
         IN /\ IsPrefix(c.wire \o c.out, all)
            /\ c.msg # None /\ c.writable => c.wire \o c.out \o req[c.msg].output \in
                 {all, all \o Asked(c.msg)}
            /\ \A i \in 1..(Len(on) - 1) : req[on[i]].finished
            /\ c.parse # "idle" => c.for = on[c.answered]
    /\ \A s, t \in DOMAIN sock :
         s # t => {SentOn(s)[i] : i \in DOMAIN SentOn(s)} \cap
                  {SentOn(t)[i] : i \in DOMAIN SentOn(t)} = {}

\* What a program may hear of a request.
Stories ==
  {<<"response", "end">>, <<"response", "aborted">>, <<"error">>, <<"upgrade", "aborted">>,
   <<"response", "error", "end">>, <<"response", "error", "aborted">>,
   <<"upgrade", "error", "aborted">>}

\* A request hears at most one response or upgrade, which ends or is aborted once, and at
\* most one error.  An error alone is the last it hears; an error of the socket of a response
\* comes before the end of the response.  Once it is aborted it hears nothing any more.
Tells ==
  Orderly => \A r \in DOMAIN req :
    /\ \E story \in Stories : IsPrefix(req'[r].told, story)
    /\ req[r].aborted => req'[r].told = req[r].told

Settled(r) ==
  \/ req[r].aborted
  \/ \E i \in DOMAIN req[r].told : req[r].told[i] \in {"end", "error", "aborted", "upgrade"}

AllEnded == \A r \in DOMAIN req : req[r].finished \/ req[r].aborted

Certain ==
  /\ Orderly /\ Attended
  /\ ~(Uses("named") /\ Uses("abort")) /\ ~(Uses("expect") /\ Uses("fin")) /\ ~Uses("listen")

\* Requests that are ended get an outcome, each of them, also those that have to wait for
\* the socket of another one.  (The bounds let what is under way come to its end.)
AllSettled == Certain /\ AllEnded => \A r \in DOMAIN req : Settled(r)

\* What the comment in _cycle() says of the sockets it finds: none of them is closing.
NotClosing ==
  [][\A s \in DOMAIN sock :
       sock'[s].msg # sock[s].msg /\ sock'[s].msg # None => ~sock[s].destroyed]_vars
=============================================================================
