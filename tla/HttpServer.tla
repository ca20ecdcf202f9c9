----------------------------- MODULE HttpServer -----------------------------
(***************************************************************************)
(* One connection of the HTTP server of lib/http.js: connectionListener     *)
(* with its queues "incoming" and "outgoing", and the responses of class    *)
(* OutgoingMessage, which the program writes and ends in any order, while   *)
(* the client sends requests, possibly without waiting for responses, stops *)
(* sending, or goes away.                                                   *)
(*                                                                          *)
(* Requests and their responses are numbered in the order of arrival.  What *)
(* is sent is a sequence of pieces <<response, part>>.  The socket is the   *)
(* one of module NetSocket, seen from here: a queue, flags and the bytes    *)
(* the kernel has taken.  "stack" holds what JavaScript still has to do.    *)
(***************************************************************************)
EXTENDS Integers, FiniteSets, Sequences, SequencesExt

CONSTANTS
  Programs,      \* the programs and their clients, see below
  MaxRequests    \* bound on the requests of a connection

\* "requests": what the client sends, "get", "head" and "expect" in HTTP/1.1, "close" with
\* 'Connection: close', "old" in HTTP/1.0 with keep-alive, "upgrade".  "headers": what the
\* program says in its headers, nothing ("plain"), a length, or 'Connection: close'.
\* "max" and "calls" bound the requests and the calls of the program.  "uses":
\*   "pipeline"  the client does not wait for a response before the next request
\*   "fin"       the client may end its side
\*   "halfOpen"  the program sets httpAllowHalfOpen
\*   "buffer"    bodies are Buffers, not strings
\*   "late"      the program goes on with responses whose request was aborted
\*   "again"     the program goes on with responses it has ended
\*   "headData"  the program passes data to end() when the request is a HEAD
\*   "upgrade"   there is a listener for 'upgrade'
HttpAssumption ==
  /\ MaxRequests \in Nat
  /\ Programs \subseteq [requests : SUBSET {"get", "head", "expect", "close", "old", "upgrade"},
                          headers : SUBSET {"plain", "length", "close"},
                          uses : SUBSET {"pipeline", "fin", "halfOpen", "buffer", "late",
                                         "again", "headData", "upgrade"},
                          max : 0..MaxRequests, calls : Nat]

VARIABLES
  conn,      \* the socket; conn.msg is its _httpMessage
  res,       \* the responses, a sequence of records
  incoming,  \* requests whose response is not finished
  outgoing,  \* responses that wait for the socket
  stack,     \* what is still to be done
  done,      \* responses whose 'finish' event was handled
  aborted,   \* requests that were told 'aborted'
  wrong,     \* the exception or failed assertion that left a call, if any
  calls,     \* calls of the program so far
  program

vars == <<conn, res, incoming, outgoing, stack, done, aborted, wrong, calls, program>>

Uses(u) == u \in program.uses
None == 0

-----------------------------------------------------------------------------
(* The socket (net.js).                                                     *)

destroy(c) ==
  [c EXCEPT !.readable = FALSE, !.writable = FALSE, !.queue = << >>, !.ended = FALSE,
            !.destroyed = TRUE, !.tick = IF c.destroyed THEN @ ELSE "due"]

shutdown(c) ==
  LET d == [c EXCEPT !.writable = FALSE, !.ended = FALSE]
  IN IF c.readable THEN d ELSE destroy(d)

\* flush(): the kernel takes at least "least" pieces, or reports an error.
flush(c, least) ==
  {destroy(c)} \cup
  {LET d == [c EXCEPT !.wire = @ \o SubSeq(c.queue, 1, k), !.queue = SubSeq(@, k + 1, Len(@))]
   IN IF c.ended /\ d.queue = << >> THEN shutdown(d) ELSE d : k \in least..Len(c.queue)}

\* socket.end()
endSocket(c) ==
  IF c.queue = << >> THEN {shutdown(c)} ELSE flush([c EXCEPT !.ended = TRUE], 0)

destroySoon(c) ==
  {IF d.queue = << >> THEN destroy(d) ELSE [d EXCEPT !.onDrain = TRUE] :
     d \in IF c.queue = << >> THEN {c} ELSE flush(c, 0)}

\* socket.write(): what becomes of the socket, and the exception it throws.
write(c, data) ==
  IF c.ended THEN {[conn |-> c, wrong |-> "ended"]}
  ELSE IF ~c.writable THEN {[conn |-> c, wrong |-> "not writable"]}
  ELSE {[conn |-> d, wrong |-> "none"] :
          d \in LET q == [c EXCEPT !.queue = @ \o data]
                IN IF c.queue # << >> THEN {q} ELSE IF data = << >> THEN {c} ELSE flush(q, 0)}

-----------------------------------------------------------------------------
(* OutgoingMessage.                                                         *)

Continue == 0   \* '100 Continue'
Header == 1
Body(n) == n + 1
LastChunk == 99

ServerResponse(kind) ==
  [hasBody |-> kind # "head", byDefault |-> kind # "old", keepAlive |-> kind # "close",
   sent100 |-> FALSE, header |-> FALSE, headerSent |-> FALSE, chunked |-> FALSE,
   last |-> FALSE, finished |-> FALSE, bodies |-> 0, output |-> << >>]

\* writeHead() and _storeHeader() with the program's headers.
storeHeader(m, headers) ==
  [m EXCEPT !.header = TRUE,
            !.chunked = headers # "length" /\ m.hasBody /\ m.byDefault,
            !.last = \/ @
                     \/ headers = "close"
                     \/ ~m.keepAlive
                     \/ headers # "length" /\ ~m.byDefault]

WithHeader(m, headers) == IF m.header THEN m ELSE storeHeader(m, headers)

\* The socket is this message's to write to.
Owns(c, r) == c.msg = r

\* A step of a message: the socket, the message and the exception.
Part(c, m, w) == [conn |-> c, res |-> m, wrong |-> w]

\* _writeRaw(): what is in output first, or buffer.
writeRaw(c, r, m, data) ==
  IF Owns(c, r) /\ c.writable
  THEN LET first == IF m.output = << >> THEN {[conn |-> c, wrong |-> "none"]}
                    ELSE write(c, m.output)
           sent == [m EXCEPT !.output = << >>]
       IN UNION {IF x.wrong # "none" THEN {Part(x.conn, sent, x.wrong)}
                 ELSE {Part(y.conn, sent, y.wrong) : y \in write(x.conn, data)} : x \in first}
  ELSE {Part(c, [m EXCEPT !.output = @ \o data], "none")}

\* _send(): the header goes in front of a string, or of everything in output.
send(c, r, m, data, buffer) ==
  LET head == <<<<r, Header>>>>
  IN IF m.headerSent THEN writeRaw(c, r, m, data)
     ELSE IF buffer THEN writeRaw(c, r, [m EXCEPT !.headerSent = TRUE, !.output = head \o @], data)
     ELSE writeRaw(c, r, [m EXCEPT !.headerSent = TRUE], head \o data)

\* write() of a chunk; of a Buffer with a chunked encoding the length goes first, a string.
writeBody(c, r, m) ==
  IF ~m.hasBody THEN {Part(c, m, "none")}
  ELSE LET n == [m EXCEPT !.bodies = @ + 1]
       IN send(c, r, n, <<<<r, Body(n.bodies)>>>>, Uses("buffer") /\ ~m.chunked)

\* The end of the message, its last chunk if it has chunks.
EndPieces(r, m) == IF m.chunked THEN <<<<r, LastChunk>>>> ELSE << >>

\* end(): one write if nothing was sent yet, else write() and the end.
Hot(c, r, m, data) ==
  data /\ ~Uses("buffer") /\ ~m.headerSent /\ m.output = << >> /\ Owns(c, r) /\ c.writable

endMessage(c, r, m, data) ==
  LET n == [m EXCEPT !.bodies = IF m.hasBody THEN @ + 1 ELSE @]
      hot == {Part(x.conn, [n EXCEPT !.headerSent = x.wrong = "none"], x.wrong) :
                x \in write(c, <<<<r, Header>>, <<r, Body(1)>>>> \o EndPieces(r, m))}
      body == IF data THEN writeBody(c, r, m) ELSE {Part(c, m, "none")}
      cold == UNION {IF x.wrong # "none" THEN {x}
                     ELSE send(x.conn, r, x.res, EndPieces(r, m), FALSE) : x \in body}
  IN {IF x.wrong = "none" THEN [x EXCEPT !.res.finished = TRUE] ELSE x :
        x \in IF Hot(c, r, m, data) THEN hot ELSE cold}

-----------------------------------------------------------------------------
(* The connection's handling of 'finish'.                                   *)

Idle == stack = << >> /\ wrong = "none"
Top(f) == stack # << >> /\ Head(stack) = f /\ wrong = "none"

\* Variants: the last in the queue is next, and nobody is.
Next_Last == Last(outgoing)
Successor_None(st) == st

\* After a response that is not the last one, the next gets the socket.
NextOut == Head(outgoing)
Successor(st) == <<"next">> \o st

\* The socket c and the message m after the call of _finish() of r; st is left to do.
Finish(c, m, r, st) ==
  /\ res' = [res EXCEPT ![r] = m]
  /\ IF incoming = << >> \/ Head(incoming) # r
     THEN conn' = c /\ wrong' = "assert" /\ UNCHANGED <<incoming, done, stack>>
     ELSE /\ incoming' = Tail(incoming) /\ done' = done \cup {r} /\ UNCHANGED wrong
          /\ LET d == [c EXCEPT !.msg = None]
             IN IF m.last THEN conn' \in destroySoon(d) /\ stack' = st
                ELSE conn' = d /\ stack' = Successor(st)

\* assignSocket() of the next response, with its _flush().
AssignNext ==
  /\ Top("next") /\ outgoing # << >>
  /\ LET r == NextOut
         m == res[r]
         st == Tail(stack)
         c == [conn EXCEPT !.msg = r]
     IN \/ /\ m.output # << >> /\ ~c.writable
           /\ conn' = c /\ stack' = st
           /\ UNCHANGED <<res, incoming, done, wrong>>
        \/ /\ m.output = << >>
           /\ conn' = c /\ stack' = st
           /\ UNCHANGED <<res, incoming, done, wrong>>
        \/ /\ m.output # << >> /\ c.writable
           /\ \E x \in write(c, m.output) :
              \E k \in (IF x.conn.destroyed THEN 2..(Len(m.output) + 1) ELSE {Len(m.output) + 1}) :
                LET n == [m EXCEPT !.output = SubSeq(@, k, Len(@))]
                IN IF x.wrong = "none" /\ m.finished /\ n.output = << >>
                   THEN Finish(x.conn, n, r, st)
                   ELSE /\ conn' = x.conn /\ res' = [res EXCEPT ![r] = n]
                        /\ wrong' = x.wrong
                        /\ stack' = <<"user">> \o st \* 'drain'
                        /\ UNCHANGED <<incoming, done>>
  /\ outgoing' = SelectSeq(outgoing, LAMBDA q : q # NextOut)
  /\ UNCHANGED <<aborted, calls>>

NoNext ==
  /\ Top("next") /\ outgoing = << >>
  /\ stack' = Tail(stack)
  /\ UNCHANGED <<conn, res, incoming, outgoing, done, aborted, wrong, calls>>

-----------------------------------------------------------------------------
(* Calls by the program, from a listener.                                   *)

\* Responses the program may use.
Usable(r) ==
  /\ Top("user") /\ calls < program.calls
  /\ Uses("late") \/ r \notin aborted
  /\ Uses("again") \/ ~res[r].finished

\* writeHead(), which a program calls once and before it writes.
WriteHead(r, headers) ==
  /\ Usable(r) /\ ~res[r].header
  /\ res' = [res EXCEPT ![r] = storeHeader(@, headers)]
  /\ calls' = calls + 1
  /\ UNCHANGED <<conn, incoming, outgoing, stack, done, aborted, wrong>>

Write(r, headers) ==
  /\ Usable(r)
  /\ \E x \in writeBody(conn, r, WithHeader(res[r], headers)) :
       conn' = x.conn /\ res' = [res EXCEPT ![r] = x.res] /\ wrong' = x.wrong
  /\ calls' = calls + 1
  /\ UNCHANGED <<incoming, outgoing, stack, done, aborted>>

\* After end() the message has no connection if it waits for one, or was detached.
Attached(r) == conn.msg = r

End(r, headers, data) ==
  /\ Usable(r)
  /\ Uses("headData") \/ ~(data /\ ~res[r].hasBody)
  /\ \E x \in endMessage(conn, r, WithHeader(res[r], headers), data) :
       IF x.wrong = "none" /\ x.res.output = << >> /\ Attached(r)
       THEN Finish(x.conn, x.res, r, stack)
       ELSE /\ conn' = x.conn /\ res' = [res EXCEPT ![r] = x.res]
            /\ wrong' = IF x.wrong = "none" /\ x.res.output = << >> THEN "no connection"
                        ELSE x.wrong
            /\ UNCHANGED <<incoming, done, stack>>
  /\ calls' = calls + 1
  /\ UNCHANGED <<outgoing, aborted>>

\* req.destroy()
Destroy ==
  /\ Top("user") /\ calls < program.calls /\ res # << >>
  /\ conn' = destroy(conn) /\ calls' = calls + 1
  /\ UNCHANGED <<res, incoming, outgoing, stack, done, aborted, wrong>>

Return ==
  /\ Top("user")
  /\ stack' = Tail(stack)
  /\ UNCHANGED <<conn, res, incoming, outgoing, done, aborted, wrong, calls>>

-----------------------------------------------------------------------------
(* Requests.  One chunk of data may hold several; they are parsed even if   *)
(* a listener of the first destroys the socket.                             *)

OnData ==
  /\ Idle /\ conn.readable /\ conn.http /\ Len(res) < program.max
  /\ stack' = <<"parse">>
  /\ UNCHANGED <<conn, res, incoming, outgoing, done, aborted, wrong, calls>>

\* A client that does not pipeline waits for the response, and for the end of the
\* connection if the response is the last.
Answered(r) ==
  r \in done /\ ~res[r].last /\ \A i \in DOMAIN conn.queue : conn.queue[i][1] # r
MaySend == Uses("pipeline") \/ res = << >> \/ Answered(Len(res))

\* onIncoming(), up to the event 'request'.
OnIncoming(kind) ==
  /\ Top("parse") /\ Len(res) < program.max /\ MaySend
  /\ kind \in program.requests \ {"upgrade"}
  /\ LET r == Len(res) + 1
         c == IF conn.msg = None THEN [conn EXCEPT !.msg = r] ELSE conn
         m == ServerResponse(kind)
     IN /\ incoming' = Append(incoming, r)
        /\ outgoing' = IF conn.msg = None THEN outgoing ELSE Append(outgoing, r)
        /\ \E x \in IF kind = "expect"
                    THEN writeRaw(c, r, [m EXCEPT !.sent100 = TRUE], <<<<r, Continue>>>>)
                    ELSE {Part(c, m, "none")} :
             conn' = x.conn /\ res' = Append(res, x.res) /\ wrong' = x.wrong
  /\ stack' = <<"user">> \o (IF Uses("pipeline") THEN stack ELSE Tail(stack))
  /\ UNCHANGED <<done, aborted, calls>>

\* The data ends, or does not parse, or the rest of it is another protocol.
ParseDone ==
  /\ Top("parse")
  /\ stack' = Tail(stack)
  /\ UNCHANGED <<conn, res, incoming, outgoing, done, aborted, wrong, calls>>

ParseError ==
  /\ Top("parse")
  /\ conn' = destroy(conn) /\ stack' = Tail(stack)
  /\ UNCHANGED <<res, incoming, outgoing, done, aborted, wrong, calls>>

OnUpgrade ==
  /\ Top("parse") /\ "upgrade" \in program.requests /\ MaySend
  /\ LET c == [conn EXCEPT !.http = FALSE]
     IN IF Uses("upgrade") THEN conn' = c /\ stack' = <<"user">> \o Tail(stack)
        ELSE conn' = destroy(c) /\ stack' = Tail(stack)
  /\ UNCHANGED <<res, incoming, outgoing, done, aborted, wrong, calls>>

-----------------------------------------------------------------------------
(* The end of the connection.                                               *)

\* A variant of onend that does not mark the last response.
MarkLast_Not(r) == UNCHANGED res
MarkLast(r) == res' = [res EXCEPT ![r].last = TRUE]

\* The client has ended its side.  The parser objects if a message is incomplete.
OnEnd ==
  /\ Idle /\ Uses("fin") /\ conn.readable
  /\ LET d == [conn EXCEPT !.readable = FALSE]
         c == IF d.writable THEN d ELSE destroy(d)
     IN \/ conn' = c /\ ~conn.http /\ UNCHANGED <<res, stack>>
        \/ conn' = destroy(c) /\ conn.http /\ UNCHANGED <<res, stack>>
        \/ /\ conn.http /\ ~Uses("halfOpen")
           /\ conn' = c /\ stack' = <<"abort", "endSocket">> /\ UNCHANGED res
        \/ /\ conn.http /\ Uses("halfOpen") /\ (outgoing # << >> \/ conn.msg # None)
           /\ MarkLast(IF outgoing # << >> THEN Last(outgoing) ELSE conn.msg)
           /\ conn' = c /\ UNCHANGED stack
        \/ /\ conn.http /\ Uses("halfOpen") /\ outgoing = << >> /\ conn.msg = None
           /\ conn' \in (IF c.writable THEN endSocket(c) ELSE {c}) /\ UNCHANGED <<res, stack>>
  /\ UNCHANGED <<incoming, outgoing, done, aborted, wrong, calls>>

\* One turn of abortIncoming().
Abort ==
  /\ Top("abort") /\ incoming # << >>
  /\ aborted' = aborted \cup {Head(incoming)} /\ incoming' = Tail(incoming)
  /\ stack' = <<"user">> \o stack
  /\ UNCHANGED <<conn, res, outgoing, done, wrong, calls>>

AbortDone ==
  /\ Top("abort") /\ incoming = << >>
  /\ stack' = Tail(stack)
  /\ UNCHANGED <<conn, res, incoming, outgoing, done, aborted, wrong, calls>>

EndSocket ==
  /\ Top("endSocket")
  /\ conn' \in (IF conn.writable /\ ~conn.ended THEN endSocket(conn) ELSE {conn})
  /\ stack' = Tail(stack)
  /\ UNCHANGED <<res, incoming, outgoing, done, aborted, wrong, calls>>

\* A variant of the listener of 'close' that forgets the requests.
Closed_Not == << >>
Closed == <<"abort">>

\* The socket's 'close' event.
OnClose ==
  /\ Idle /\ conn.tick = "due"
  /\ conn' = [conn EXCEPT !.tick = "done"] /\ stack' = Closed
  /\ UNCHANGED <<res, incoming, outgoing, done, aborted, wrong, calls>>

\* Two minutes without traffic, or the client is gone.
OnTimeout ==
  /\ Idle /\ ~conn.destroyed
  /\ conn' = destroy(conn)
  /\ UNCHANGED <<res, incoming, outgoing, stack, done, aborted, wrong, calls>>

\* The kernel takes more of the queue; then 'drain', for the message that has the socket.
OnWritable ==
  /\ Idle /\ conn.queue # << >>
  /\ conn' \in flush(conn, 1)
  /\ stack' = IF conn'.queue # << >> \/ conn'.destroyed THEN << >>
              ELSE IF conn.msg = None THEN <<"drained">> ELSE <<"user", "drained">>
  /\ UNCHANGED <<res, incoming, outgoing, done, aborted, wrong, calls>>

Drained ==
  /\ Top("drained")
  /\ conn' = IF conn.onDrain THEN destroy(conn) ELSE conn
  /\ stack' = Tail(stack)
  /\ UNCHANGED <<res, incoming, outgoing, done, aborted, wrong, calls>>

\* The program runs for a reason of its own.
OnOther ==
  /\ Idle /\ calls < program.calls /\ res # << >>
  /\ stack' = <<"user">>
  /\ UNCHANGED <<conn, res, incoming, outgoing, done, aborted, wrong, calls>>

-----------------------------------------------------------------------------
Init ==
  /\ conn = [msg |-> None, readable |-> TRUE, writable |-> TRUE, queue |-> << >>,
             wire |-> << >>, ended |-> FALSE, onDrain |-> FALSE, destroyed |-> FALSE,
             tick |-> "none", http |-> TRUE]
  /\ res = << >> /\ incoming = << >> /\ outgoing = << >> /\ stack = << >>
  /\ done = {} /\ aborted = {} /\ wrong = "none" /\ calls = 0
  /\ program \in Programs

Calls ==
  \/ \E r \in DOMAIN res, headers \in program.headers :
       \/ WriteHead(r, headers)
       \/ Write(r, headers)
       \/ \E data \in BOOLEAN : End(r, headers, data)
  \/ Destroy

Code ==
  \/ Return \/ AssignNext \/ NoNext \/ Abort \/ AbortDone \/ EndSocket \/ Drained
  \/ \E kind \in program.requests : OnIncoming(kind)
  \/ ParseDone \/ ParseError \/ OnUpgrade

Callbacks == OnData \/ OnEnd \/ OnClose \/ OnTimeout \/ OnWritable \/ OnOther

Next == (Calls \/ Code \/ Callbacks) /\ UNCHANGED program

Spec == Init /\ [][Next]_vars

\* Code that runs finishes, ticks run, and the client reads.
Fair(A) == A /\ UNCHANGED program

FairSpec ==
  Spec /\ WF_vars(Fair(Code)) /\ SF_vars(Fair(OnClose)) /\ SF_vars(Fair(OnWritable))

-----------------------------------------------------------------------------
\* Only requests with these answers make a response the last one.
Lasting == program.requests \subseteq {"get", "head", "expect"} /\ "close" \notin program.headers

\* The client does not send more when the server is going to close.
Expectable == ~Uses("pipeline") \/ Lasting

\* What the program has asked to be sent in response r.
Asked(r) ==
  LET m == res[r]
      piece(p) == <<<<r, p>>>>
  IN (IF m.sent100 THEN piece(Continue) ELSE << >>)
       \o (IF m.headerSent THEN piece(Header) ELSE << >>)
       \o [n \in 1..m.bodies |-> <<r, Body(n)>>]
       \o (IF m.finished THEN EndPieces(r, m) ELSE << >>)

\* The requests whose response may be on the wire.
Current == IF conn.msg = None THEN Len(res) ELSE conn.msg

\* The queues hold what they should: responses wait in order and only while another one
\* has the socket, or the connection is closing; the one that has it is the oldest
\* request's, unless that was aborted.
TypeOK ==
  /\ conn.msg \in 0..Len(res) /\ calls \in Nat /\ Len(res) <= program.max
  /\ stack \in Seq({"user", "next", "parse", "abort", "endSocket", "drained"})
  /\ conn.tick = "none" <=> ~conn.destroyed
  /\ conn.destroyed => ~conn.writable /\ ~conn.readable /\ conn.queue = << >>
  /\ \A i, j \in DOMAIN outgoing : i < j => outgoing[i] < outgoing[j]
  /\ Expectable /\ wrong = "none" =>
       /\ outgoing # << >> /\ conn.msg = None =>
            Top("next") \/ conn.destroyed \/ \E r \in done : res[r].last
       /\ conn.msg # None =>
            /\ conn.msg \in aborted \/ Head(incoming) = conn.msg
            /\ \A i \in DOMAIN outgoing : conn.msg < outgoing[i]

\* The responses go out in the order of the requests, each in one piece and as the program
\* wrote it, whatever the order of its calls and of the events: nothing is lost,
\* repeated or mixed while the connection lasts, and what has gone out when it ends is
\* a beginning.
WireInOrder ==
  /\ Expectable /\ ~Uses("again") /\ ~Uses("headData")
  /\ ~("expect" \in program.requests /\ Uses("buffer"))
  /\ wrong = "none"
  => LET all == FlattenSeq([r \in 1..Current |-> Asked(r)])
         mine == IF conn.msg = None THEN << >> ELSE res[conn.msg].output
     IN /\ IsPrefix(conn.wire, all)
        /\ ~conn.destroyed /\ conn.writable /\ ~Top("next") =>
             conn.wire \o conn.queue \o mine = all

\* The program leaves responses alone that are ended, or whose request was aborted, and
\* does not send Buffers, which fail in the middle.
Orderly == Expectable /\ program.uses \cap {"late", "again", "buffer"} = {}

\* Every request is either waiting, answered or aborted, only one of them and only once;
\* after the 'close' event none is waiting.  So no assertion fails when a response is
\* finished, and no call throws.
Accounted ==
  Orderly =>
    /\ wrong = "none"
    /\ Range(incoming) \cup done \cup aborted = DOMAIN res
    /\ Len(incoming) + Cardinality(done) + Cardinality(aborted) = Len(res)
    /\ conn.tick = "done" /\ stack = << >> => incoming = << >>

Ended(r) == \A q \in 1..r : q \in DOMAIN res /\ res[q].finished

\* A response that is ended, like those before it, is sent; after the last response, or
\* if the client has ended its side and has all responses, the connection is closed.  (The
\* bounds let what is under way come to its end.)
AllSent ==
  Orderly /\ ~conn.destroyed =>
    /\ \A r \in DOMAIN res : Ended(r) => r \in done /\ conn.queue = << >>
    /\ \A r \in done : ~res[r].last
    /\ conn.readable \/ ~conn.http \/ ~Ended(Len(res))
=============================================================================
