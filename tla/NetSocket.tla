----------------------------- MODULE NetSocket -----------------------------
(***************************************************************************)
(* net.Socket of lib/net.js: one socket with its write queue, its two       *)
(* IOWatchers, its idle timer and its descriptor, used by a program that    *)
(* may call any method from any callback.                                   *)
(*                                                                          *)
(* The socket is a record; a method is an operator that maps it to the set  *)
(* of its possible results.  JavaScript runs on one stack: "stack" holds    *)
(* what is still to be done, innermost first.  "user" is user code (an      *)
(* event listener or a write callback); the other frames are the rest of a  *)
(* method of net.js that called it.                                         *)
(*                                                                          *)
(* Data is numbered: the k-th unit the program hands to write() is the      *)
(* number k, so the order on the wire can be compared with the calls.       *)
(***************************************************************************)
EXTENDS Integers, Sequences, SequencesExt, FiniteSets

CONSTANTS
  Programs,       \* the programs, see below
  Lengths,        \* lengths of the data given to one write()
  PoolRoom,       \* how much of a string the pool may take
  MaxReads        \* bound: reads that return data

\* A program makes at most "calls" method calls (a bound) on a socket with the option
\* "allowHalfOpen", and "uses" says what it does besides plain calls:
\*   "name"            connects to host names; other hosts dns.lookup() answers at once
\*   "callback"        gives callbacks to write() of buffers
\*   "stringCallback"  gives callbacks to write() of strings
\*   "fd", "stringFd"  passes descriptors with buffers, with strings, over a UNIX socket
\*   "throw"           lets exceptions leave user code
\*   "reuse"           connects a socket again after 'close'
\*   "abort"           destroys or connects the socket while a name is looked up
\*   "reopen"          calls connect() on an open socket
Usages == {"name", "callback", "stringCallback", "fd", "stringFd", "throw", "reuse", "abort",
           "reopen"}

SocketAssumption ==
  /\ Programs \subseteq [uses : SUBSET Usages, allowHalfOpen : BOOLEAN, calls : Nat]
  /\ Lengths \subseteq Nat \ {0} /\ PoolRoom \subseteq Nat \ {0}
  /\ MaxReads \in Nat

VARIABLES
  sock,      \* the socket
  stack,     \* what is still to be done
  ret,       \* what the last flush() returned
  lookups,   \* dns.lookup() calls that have not called back
  seen,      \* history: how many 'end' and 'close' events were emitted
  calls, reads, \* counters for the bounds
  program    \* the program that runs

vars == <<sock, stack, ret, lookups, seen, calls, reads, program>>

Uses(u) == u \in program.uses

Min2(a, b) == IF a <= b THEN a ELSE b

NoFd == 0        \* also: no descriptor to pass
END_OF_FILE == [data |-> << >>, string |-> FALSE, cb |-> 0]
NoCb == 0        \* a callback is named by the last unit of the data it was given with
BrokenCb == -1   \* the closure of write() that calls itself through a wrong "this"

-----------------------------------------------------------------------------
(* The socket and its methods.                                              *)

\* new Socket() without a descriptor.
Socket ==
  [fd |-> NoFd,            \* self.fd
   fds |-> {},             \* descriptors the kernel has open for this socket
   opened |-> 0,           \* descriptors opened so far
   connecting |-> FALSE, readable |-> FALSE, writable |-> FALSE, destroyed |-> FALSE,
   rw |-> "none",          \* _readWatcher: "none", "off" or "on"
   ww |-> "none",          \* _writeWatcher
   queue |-> << >>,        \* _writeQueue with the queues of encodings and callbacks
   fdQueue |-> << >>,      \* _writeQueueFD: descriptors to pass, each named as a callback is
   passed |-> << >>,       \* descriptors passed, with the first unit that went out with each
   bufferSize |-> 0,
   onDrain |-> FALSE,      \* __destroyOnDrain
   timeout |-> FALSE,      \* _idleTimeout is set
   armed |-> FALSE,        \* in an idle list of timers.js
   ticks |-> << >>,        \* nextTick callbacks of destroy(): "had error"
   units |-> 0,            \* units accepted from the program
   wire |-> << >>,         \* units the kernel has taken
   shut |-> FALSE,         \* shutdown(fd, 'write') was called
   lost |-> {},            \* active watchers that were replaced: "read", "write"
   aborted |-> FALSE,      \* an assertion of IOWatcher::Set failed
   called |-> << >>]       \* write callbacks called: name, units on the wire

\* initSocket: new watchers and queues.
initSocket(s) ==
  [s EXCEPT !.rw = "off", !.ww = "off", !.readable = FALSE, !.writable = FALSE,
            !.destroyed = FALSE, !.queue = << >>, !.fdQueue = << >>, !.bufferSize = 0,
            !.lost = @ \cup (IF s.rw = "on" THEN {"read"} ELSE {})
                       \cup (IF s.ww = "on" THEN {"write"} ELSE {})]

NewFd(s) == [s EXCEPT !.opened = @ + 1, !.fd = s.opened + 1, !.fds = @ \cup {s.opened + 1}]

\* open(): the descriptor of an accepted connection; the server then resumes it.
Accepted ==
  [NewFd(initSocket(Socket)) EXCEPT !.readable = TRUE, !.writable = TRUE, !.rw = "on"]

\* timers.active() and timers.unenroll(), as far as the socket sees them.
active(s) == [s EXCEPT !.armed = s.timeout]

\* The end of destroy(): close the descriptor, if any, and emit 'close' later.
Close(s, e) ==
  IF s.fd = NoFd THEN s
  ELSE [s EXCEPT !.fds = @ \ {s.fd}, !.fd = NoFd, !.ticks = Append(@, e)]

\* The middle of destroy(): stop and free the watchers, leave the idle list.
Release(s) == [s EXCEPT !.ww = "none", !.rw = "none", !.armed = FALSE]

destroy(s, e) ==
  [Close(Release(s), e) EXCEPT !.queue = << >>, !.fdQueue = << >>, !.bufferSize = 0,
                               !.readable = FALSE, !.writable = FALSE, !.destroyed = TRUE]

\* What a call can do: the socket afterwards, what it returns ("throw" for an
\* exception), and the callback it has to run before it returns.
Result(s, r, cb) == [s |-> s, r |-> r, cb |-> cb]

\* Variants of Unshift: behind the queue, uncounted, unwatched.
Unshift_Behind(s, item) ==
  [s EXCEPT !.queue = Append(@, item), !.bufferSize = @ + Len(item.data), !.ww = "on"]
Unshift_Uncounted(s, item) == [s EXCEPT !.queue = <<item>> \o @, !.ww = "on"]
Unshift_Unwatched(s, item) ==
  [s EXCEPT !.queue = <<item>> \o @, !.bufferSize = @ + Len(item.data)]

\* What was not written goes back to the front of the queue, and the socket is watched.
Unshift(s, item) ==
  [s EXCEPT !.queue = <<item>> \o @, !.bufferSize = @ + Len(item.data), !.ww = "on"]

\* The end of _writeOut when everything offered was written: call the callback.
Written(s, cb) ==
  IF cb = BrokenCb THEN Result(s, "throw", NoCb)
  ELSE IF cb = NoCb THEN Result(s, "true", NoCb)
  ELSE Result([s EXCEPT !.called = Append(@, <<cb, Len(s.wire)>>)], "true", cb)

Passes == Uses("fd") \/ Uses("stringFd")

\* A variant puts a descriptor that has to wait behind the others.
Passed_Behind(s, fd, data, k) ==
  IF k = 0 THEN IF Passes THEN [s EXCEPT !.fdQueue = Append(@, fd)] ELSE s
  ELSE IF fd = NoFd THEN s ELSE [s EXCEPT !.passed = Append(@, <<fd, data[1]>>)]

\* The descriptor goes out with the first byte; if there is none it waits, or the place of
\* one that there is not (of no use to a program that passes none).
Passed(s, fd, data, k) ==
  IF k = 0 THEN IF Passes THEN [s EXCEPT !.fdQueue = <<fd>> \o @] ELSE s
  ELSE IF fd = NoFd THEN s ELSE [s EXCEPT !.passed = Append(@, <<fd, data[1]>>)]

\* _writeOut: a string goes through the pool, which may take only its beginning, the
\* rest is queued first; then the kernel takes what it can or fails.
writeOut(s, item, fd) ==
  IF ~s.writable THEN {Result(s, "throw", NoCb)}
  ELSE UNION {
    LET n == Min2(room, Len(item.data))
        rest == [item EXCEPT !.data = SubSeq(@, n + 1, Len(@))]
        s1 == IF n < Len(item.data) THEN Unshift(s, rest) ELSE s
        Took(k) == Passed(active([s1 EXCEPT !.wire = @ \o SubSeq(item.data, 1, k)]),
                          fd, item.data, k)
        left(k) == [data |-> SubSeq(item.data, k + 1, n), string |-> FALSE, cb |-> item.cb]
    IN {Result(destroy(s1, TRUE), "false", NoCb)}
       \cup (IF s.fd = NoFd THEN {}
             ELSE {Result(Unshift(Took(k), left(k)), "false", NoCb) :
                     k \in 0..(IF s.connecting THEN 0 ELSE n - 1)}
                  \cup (IF s.connecting THEN {}
                        ELSE IF n < Len(item.data) THEN {Result(Took(n), "false", NoCb)}
                        ELSE {Written(Took(n), item.cb)}))
    : room \in (IF item.string THEN PoolRoom ELSE {Len(item.data)})}

\* The callback of a string that is appended to the last string of the queue.
Merged(old, new) ==
  IF new = NoCb THEN old ELSE IF old = NoCb THEN new ELSE BrokenCb

\* The slow path of write(): append to the queue, or to its last string.
enqueue(s, item, fd) ==
  LET n == Len(s.queue)
      s1 == [s EXCEPT !.bufferSize = @ + Len(item.data),
                      !.fdQueue = IF fd = NoFd THEN @ ELSE Append(@, fd)]
  IN IF item.string /\ n > 0 /\ s.queue[n].string
     THEN [s1 EXCEPT !.queue[n] = [data |-> @.data \o item.data, string |-> TRUE,
                                   cb |-> Merged(@.cb, item.cb)]]
     ELSE [s1 EXCEPT !.queue = Append(@, item)]

Ended(s) == s.queue # << >> /\ Last(s.queue) = END_OF_FILE

\* The data of the next write() of n units.
Data(s, n) == [k \in 1..n |-> s.units + k]

write(s, item, fd) ==
  LET s1 == [s EXCEPT !.units = @ + Len(item.data)]
  IN IF s.connecting \/ s.queue # << >>
     THEN IF Ended(s) THEN {Result(s, "throw", NoCb)}
          ELSE {Result(enqueue(s1, item, fd), "false", NoCb)}
     ELSE IF ~s.writable THEN {Result(s, "throw", NoCb)} ELSE writeOut(s1, item, fd)

\* A variant of _shutdown: still writable.
shutdown_Writable(s) == {Result([s EXCEPT !.shut = TRUE], "true", NoCb)}

\* _shutdown: half-close, or destroy when the other half is gone.  shutdown(2) may fail.
shutdown(s) ==
  IF ~s.writable THEN {Result(s, "throw", NoCb)}
  ELSE IF s.readable
       THEN {Result([s EXCEPT !.writable = FALSE, !.shut = TRUE], "true", NoCb),
             Result(destroy([s EXCEPT !.writable = FALSE], TRUE), "true", NoCb)}
       ELSE {Result(destroy([s EXCEPT !.writable = FALSE], FALSE), "true", NoCb)}

\* resume() and pause().
resume(s) == IF s.rw = "none" THEN s ELSE [s EXCEPT !.rw = "on"]
pause(s) == IF s.rw = "none" THEN s ELSE [s EXCEPT !.rw = "off"]

\* doConnect: nothing on a destroyed socket; connect(2) may fail at once.  Setting
\* a watcher that is active fails an assertion; what a build without assertions does
\* from there libev does not define, and the behaviour ends.
doConnect(s) ==
  IF s.destroyed THEN {s}
  ELSE IF s.ww = "on" THEN {destroy(active(s), TRUE), [active(s) EXCEPT !.aborted = TRUE]}
  ELSE {destroy(active(s), TRUE), [active(s) EXCEPT !.ww = "on"]}

-----------------------------------------------------------------------------
(* The stack.                                                               *)

\* Where an exception may be caught: by the user code it passes through (always,
\* without "throw"), by _onConnect around the 'connect' event, or by the loop.
Landings(st) ==
  {SubSeq(st, k, Len(st)) :
     k \in {n \in 1..(Len(st) + 1) :
              /\ n = Len(st) + 1 \/ st[n] \in {"user", "connectTry"}
              /\ \A j \in 1..(n - 1) :
                   st[j] # "connectTry" /\ (st[j] = "user" => Uses("throw"))}}

\* An exception leaves the code on top of the stack with the socket being s.
Raise(s, st) ==
  \E l \in Landings(st) :
    IF l # << >> /\ Head(l) = "connectTry"
    THEN sock' = destroy(s, TRUE) /\ stack' = Tail(l)
    ELSE sock' = s /\ stack' = l

\* The result of a call of write() by code whose stack is st.
Called(result, st) ==
  IF result.r = "throw" THEN Raise(result.s, st)
  ELSE /\ sock' = result.s
       /\ stack' = IF result.cb = NoCb THEN st ELSE <<"user">> \o st

InUser == stack # << >> /\ Head(stack) = "user" /\ ~sock.aborted
Idle == stack = << >> /\ ~sock.aborted
Counted == calls < program.calls /\ calls' = calls + 1

-----------------------------------------------------------------------------
(* Calls by the program, from user code.                                    *)

Write ==
  /\ InUser /\ Counted
  /\ \E n \in Lengths, string \in BOOLEAN :
     \E cb \in {NoCb} \cup (IF Uses(IF string THEN "stringCallback" ELSE "callback")
                          THEN {sock.units + n} ELSE {}),
        fd \in {NoFd} \cup (IF Uses(IF string THEN "stringFd" ELSE "fd")
                          THEN {sock.units + n} ELSE {}) :
     \E result \in write(sock, [data |-> Data(sock, n), string |-> string, cb |-> cb], fd) :
       Called(result, stack)
  /\ UNCHANGED <<ret, lookups, seen, reads>>

\* end(), and what it leaves to flush().
EndResults(s, data) ==
  {Result([r.s EXCEPT !.queue = Append(@, END_OF_FILE)], "true", NoCb) :
     r \in IF data = << >> THEN {Result(s, "true", NoCb)}
           ELSE write(s, [data |-> data, string |-> FALSE, cb |-> NoCb], NoFd)}

\* A variant of end() that forgets flush().
Ending_Queued(s, data, st) ==
  IF ~s.writable \/ Ended(s)
  THEN sock' = s /\ stack' = st
  ELSE \E r \in EndResults(s, data) : sock' = r.s /\ stack' = st

\* end(s) pushes flush() on the stack st unless the socket is connecting.
Ending(s, data, st) ==
  IF ~s.writable \/ Ended(s)
  THEN sock' = s /\ stack' = st
  ELSE \E r \in EndResults(s, data) :
         /\ sock' = r.s
         /\ stack' = IF r.s.connecting THEN st ELSE <<"flush">> \o st

End ==
  /\ InUser /\ Counted
  /\ \E data \in {<< >>} \cup {Data(sock, n) : n \in Lengths} : Ending(sock, data, stack)
  /\ UNCHANGED <<ret, lookups, seen, reads>>

Destroy ==
  /\ InUser /\ Counted
  /\ lookups > 0 => Uses("abort")
  /\ sock' = destroy(sock, FALSE)
  /\ UNCHANGED <<stack, ret, lookups, seen, reads>>

DestroySoon ==
  /\ InUser /\ Counted
  /\ lookups > 0 => Uses("abort")
  /\ stack' = <<"flush", "destroySoon">> \o stack
  /\ UNCHANGED <<sock, ret, lookups, seen, reads>>

Pause ==
  /\ InUser /\ Counted
  /\ sock' = pause(sock)
  /\ UNCHANGED <<stack, ret, lookups, seen, reads>>

Resume ==
  /\ InUser /\ Counted
  /\ sock.readable \/ sock.fd = NoFd   \* as Stream.pipe does, only while readable
  /\ IF sock.fd = NoFd THEN Raise(sock, stack) ELSE sock' = resume(sock) /\ UNCHANGED stack
  /\ UNCHANGED <<ret, lookups, seen, reads>>

\* setTimeout(): a positive timeout arms the timer of an open socket, 0 disarms it.
SetTimeout ==
  /\ InUser /\ Counted
  /\ \E msecs \in 0..1 :
       sock' = IF msecs = 0 THEN [sock EXCEPT !.armed = FALSE]
               ELSE LET s == [sock EXCEPT !.timeout = TRUE, !.armed = FALSE]
                    IN IF s.fd = NoFd THEN s ELSE active(s)
  /\ UNCHANGED <<stack, ret, lookups, seen, reads>>

\* connect() on a socket without descriptor.  A new connection is a new wire.
Connecting ==
  [active([initSocket(sock) EXCEPT !.units = 0, !.wire = << >>, !.passed = << >>, !.shut = FALSE,
                                    !.called = << >>])
     EXCEPT !.connecting = TRUE, !.writable = TRUE]

Connectable ==
  /\ sock.fd = NoFd
  /\ sock.opened > 0 => Uses("reuse") /\ seen.closes = sock.opened
  /\ lookups > 0 => Uses("abort") /\ sock.destroyed

\* ... to a host name: dns.lookup() will call back.
ConnectName ==
  /\ InUser /\ Counted /\ Connectable /\ Uses("name")
  /\ sock' = Connecting /\ lookups' = lookups + 1
  /\ UNCHANGED <<stack, ret, seen, reads>>

\* ... to an address or a UNIX path: dns.lookup(), if called, calls back at once.
ConnectNow ==
  /\ InUser /\ Counted /\ Connectable
  /\ sock' \in doConnect(NewFd(Connecting))
  /\ UNCHANGED <<stack, ret, lookups, seen, reads>>

\* connect() on an open socket replaces the watchers and queues, then throws.
ConnectOpen ==
  /\ InUser /\ Counted
  /\ sock.fd # NoFd /\ Uses("reopen")
  /\ Raise(initSocket(sock), stack)
  /\ UNCHANGED <<ret, lookups, seen, reads>>

\* User code returns or throws.
Return ==
  /\ InUser
  /\ stack' = Tail(stack)
  /\ UNCHANGED <<sock, ret, lookups, seen, calls, reads>>

Throw ==
  /\ InUser /\ Uses("throw") /\ Counted
  /\ Raise(sock, Tail(stack))
  /\ UNCHANGED <<ret, lookups, seen, reads>>

-----------------------------------------------------------------------------
(* The rest of a method of net.js.                                          *)

\* One turn of the loop in flush().
Flush ==
  /\ stack # << >> /\ Head(stack) = "flush"
  /\ IF sock.queue = << >>
     THEN /\ sock' = IF sock.ww = "none" THEN sock ELSE [sock EXCEPT !.ww = "off"]
          /\ stack' = Tail(stack) /\ ret' = TRUE
     ELSE LET item == Head(sock.queue)
              s == [sock EXCEPT !.queue = Tail(@), !.bufferSize = @ - Len(item.data),
                                !.fdQueue = IF @ = << >> THEN @ ELSE Tail(@)]
              fd == IF sock.fdQueue = << >> THEN NoFd ELSE Head(sock.fdQueue)
          IN IF item = END_OF_FILE
             THEN \E r \in shutdown(s) :
                    /\ ret' = TRUE
                    /\ IF r.r = "throw" THEN Raise(r.s, Tail(stack))
                       ELSE sock' = r.s /\ stack' = Tail(stack)
             ELSE \E r \in writeOut(s, item, fd) :
                    /\ ret' = (r.r = "true")
                    /\ Called(r, IF r.r = "true" THEN stack ELSE Tail(stack))
  /\ UNCHANGED <<lookups, seen, calls, reads>>

\* _onWritable after flush(): 'drain' and ondrain, then __destroyOnDrain.
OnWritableDone ==
  /\ stack # << >> /\ Head(stack) = "onWritable"
  /\ stack' = (IF ret THEN <<"user", "drained">> ELSE << >>) \o Tail(stack)
  /\ UNCHANGED <<sock, ret, lookups, seen, calls, reads>>

DestroyOnDrain == sock.onDrain

Drained ==
  /\ stack # << >> /\ Head(stack) = "drained"
  /\ sock' = IF DestroyOnDrain THEN destroy(sock, FALSE) ELSE sock
  /\ stack' = Tail(stack)
  /\ UNCHANGED <<ret, lookups, seen, calls, reads>>

DestroySoonDone ==
  /\ stack # << >> /\ Head(stack) = "destroySoon"
  /\ sock' = IF ret THEN destroy(sock, FALSE) ELSE [sock EXCEPT !.onDrain = TRUE]
  /\ stack' = Tail(stack)
  /\ UNCHANGED <<ret, lookups, seen, calls, reads>>

\* _onConnect after 'connect': flush what was written while connecting.
OnConnectDone ==
  /\ stack # << >> /\ Head(stack) = "connectTry"
  /\ stack' = (IF sock.queue = << >> THEN << >> ELSE <<"flush", "onWritable">>) \o Tail(stack)
  /\ UNCHANGED <<sock, ret, lookups, seen, calls, reads>>

\* _onReadable at the end of the input, after end(): emit 'end'.
EmitEnd ==
  /\ stack # << >> /\ Head(stack) = "emitEnd"
  /\ stack' = <<"user">> \o Tail(stack)
  /\ seen' = [seen EXCEPT !.ends = Min2(@, sock.opened) + 1]   \* saturates
  /\ UNCHANGED <<sock, ret, lookups, calls, reads>>

\* The nextTick callback of destroy() after 'error': emit 'close'.
EmitClose ==
  /\ stack # << >> /\ Head(stack) = "emitClose"
  /\ stack' = <<"user">> \o Tail(stack)
  /\ seen' = [seen EXCEPT !.closes = @ + 1]
  /\ UNCHANGED <<sock, ret, lookups, calls, reads>>

-----------------------------------------------------------------------------
(* What the loop calls.                                                     *)

\* onWritable: connected (the socket must be writable, an assertion), refused, not
\* yet, or ready to write.
OnWritable ==
  /\ Idle /\ (sock.ww = "on" \/ "write" \in sock.lost)
  /\ IF sock.connecting
     THEN \/ /\ sock.writable
             /\ sock' = [resume(sock) EXCEPT !.connecting = FALSE, !.readable = TRUE, !.writable = TRUE]
             /\ stack' = <<"user", "connectTry">>
          \/ sock.writable /\ sock' = destroy(sock, TRUE) /\ UNCHANGED stack
          \/ UNCHANGED <<sock, stack>>
     ELSE stack' = <<"flush", "onWritable">> /\ UNCHANGED sock
  /\ UNCHANGED <<ret, lookups, seen, calls, reads>>

Readable == Idle /\ (sock.rw = "on" \/ "read" \in sock.lost)

\* _onReadable with data, with an error (or nothing to read), or at the end.
OnData ==
  /\ Readable /\ reads < MaxReads
  /\ reads' = reads + 1
  /\ sock' = active(sock) /\ stack' = <<"user">>
  /\ UNCHANGED <<ret, lookups, seen, calls>>

OnReadError ==
  /\ Readable
  /\ sock' = destroy(sock, TRUE)
  /\ UNCHANGED <<stack, ret, lookups, seen, calls, reads>>

\* A variant that keeps reading at the end.
AtEof_Watched(s) == [s EXCEPT !.readable = FALSE]
AtEof(s) == [s EXCEPT !.readable = FALSE, !.rw = IF @ = "none" THEN @ ELSE "off"]

OnEof ==
  /\ Readable
  /\ LET s == AtEof(sock)
         s1 == IF s.writable THEN s ELSE destroy(s, FALSE)
     IN IF program.allowHalfOpen THEN sock' = s1 /\ stack' = <<"emitEnd">>
        ELSE Ending(s1, << >>, <<"emitEnd">>)
  /\ UNCHANGED <<ret, lookups, seen, calls, reads>>

\* The callback of dns.lookup().
OnLookup ==
  /\ Idle /\ lookups > 0
  /\ lookups' = lookups - 1
  /\ sock' \in doConnect(NewFd(active(sock)))
  /\ UNCHANGED <<stack, ret, seen, calls, reads>>

OnLookupError ==
  /\ Idle /\ lookups > 0
  /\ lookups' = lookups - 1
  /\ stack' = <<"user">>
  /\ UNCHANGED <<sock, ret, seen, calls, reads>>

\* The nextTick callback of destroy(): 'error' if there was one, and 'close'.
OnTick ==
  /\ Idle /\ sock.ticks # << >>
  /\ sock' = [sock EXCEPT !.ticks = Tail(@)]
  /\ stack' = IF Head(sock.ticks) THEN <<"user", "emitClose">> ELSE <<"emitClose">>
  /\ UNCHANGED <<ret, lookups, seen, calls, reads>>

OnTimeout ==
  /\ Idle /\ sock.armed
  /\ sock' = [sock EXCEPT !.armed = FALSE]
  /\ stack' = <<"user">>
  /\ UNCHANGED <<ret, lookups, seen, calls, reads>>

\* The program runs for a reason of its own.
OnOther ==
  /\ Idle /\ calls < program.calls
  /\ stack' = <<"user">>
  /\ UNCHANGED <<sock, ret, lookups, seen, calls, reads>>

-----------------------------------------------------------------------------
Init ==
  /\ sock \in {Socket, Accepted}
  /\ stack = <<"user">> /\ ret = FALSE /\ lookups = 0
  /\ seen = [ends |-> 0, closes |-> 0]
  /\ calls = 0 /\ reads = 0
  /\ program \in Programs

Calls ==
  \/ Write \/ End \/ Destroy \/ DestroySoon \/ Pause \/ Resume \/ SetTimeout
  \/ ConnectName \/ ConnectNow \/ ConnectOpen \/ Throw

Code ==
  \/ Return \/ Flush \/ OnWritableDone \/ Drained \/ DestroySoonDone \/ OnConnectDone
  \/ EmitEnd \/ EmitClose

Events ==
  \/ OnWritable \/ OnData \/ OnReadError \/ OnEof \/ OnLookup \/ OnLookupError
  \/ OnTick \/ OnTimeout \/ OnOther

Next == (Calls \/ Code \/ Events) /\ UNCHANGED program

Spec == Init /\ [][Next]_vars

\* Code that runs finishes; ticks and lookups call back; a connection attempt ends
\* and the peer keeps reading, so a socket that stays watched for writing is
\* writable again and again and each time takes something.
Fair(A) == A /\ UNCHANGED program

LooksUp == OnLookup \/ OnLookupError
Connects == OnWritable /\ (~sock'.connecting \/ sock'.destroyed)
Takes == Flush /\ sock'.wire # sock.wire

FairSpec ==
  /\ Spec
  /\ WF_vars(Fair(Code)) /\ SF_vars(Fair(OnTick)) /\ SF_vars(Fair(LooksUp))
  /\ SF_vars(Fair(Connects)) /\ SF_vars(Fair(Takes))

-----------------------------------------------------------------------------
\* bufferSize is the amount of data in the queue (and never negative, as write() and
\* destroy() assert).
TypeOK ==
  /\ sock.rw \in {"none", "off", "on"} /\ sock.ww \in {"none", "off", "on"}
  /\ sock.fds \subseteq 1..sock.opened
  /\ sock.fd \in 0..sock.opened /\ lookups \in Nat
  /\ stack \in Seq({"user", "flush", "onWritable", "drained", "destroySoon",
                    "connectTry", "emitEnd", "emitClose"})
  /\ sock.bufferSize = FoldLeft(LAMBDA n, item : n + Len(item.data), 0, sock.queue)

\* connect() is called on closed sockets only, and a lookup is left to call back.
Regular == ~Uses("abort") /\ ~Uses("reopen")

\* ... and no exception leaves user code or a callback that write() has joined.
Tame == Regular /\ ~Uses("throw") /\ ~Uses("stringCallback")

\* The queue of descriptors is not kept parallel to that of the data: a descriptor may go
\* out with earlier data, but never with later data and never without.
FdsInTime ==
  LET passed == sock.passed
      queued == SelectSeq(sock.fdQueue, LAMBDA fd : fd # NoFd)
  IN /\ \A k \in 1..Len(passed) : passed[k][2] <= passed[k][1]
     /\ \A j, k \in 1..Len(passed) : j < k => passed[j][1] < passed[k][1]
     /\ \A k \in 1..Len(queued) : queued[k] > Len(sock.wire)

\* What the program writes reaches the kernel in the order of the calls, without gap
\* or repetition, however the queue, the pool and partial writes cut it up.  The
\* callback of a buffer runs once, in the order of the calls, and not before its data
\* has been written out.  A descriptor that is passed with a buffer goes out in time, in
\* the order of the calls.
WireInOrder ==
  /\ \A k \in 1..Len(sock.wire) : sock.wire[k] = k
  /\ ~Uses("stringCallback") =>
       /\ \A k \in 1..Len(sock.called) : sock.called[k][2] >= sock.called[k][1]
       /\ \A j, k \in 1..Len(sock.called) : j < k => sock.called[j][1] < sock.called[k][1]
  /\ ~Uses("stringFd") => FdsInTime

\* Descriptor, watchers and flags agree.  A socket that is readable or writable has a
\* descriptor and one that is neither has none, as readyState asserts.  A destroyed
\* socket is quiet: no descriptor, no watcher, no timer.  A watcher is active only on a
\* descriptor that is open, and is never set while it is active (IOWatcher::Set).  When
\* no code is running, a connected socket with data in its queue is watched.
Coherent ==
  Regular =>
    /\ Idle /\ sock.queue # << >> /\ ~sock.connecting /\ sock.fd # NoFd => sock.ww = "on"
    /\ Idle /\ ~sock.connecting => ((sock.readable \/ sock.writable) <=> sock.fd # NoFd)
    /\ sock.destroyed =>
         sock.fds = {} /\ sock.rw = "none" /\ sock.ww = "none" /\ ~sock.armed
    /\ sock.rw = "on" \/ sock.ww = "on" \/ sock.lost # {} => sock.fd \in sock.fds
    /\ ~sock.aborted

\* After the FIN nothing more is sent on a connection.
FinIsLast == sock.shut /\ sock'.shut => sock'.wire = sock.wire

\* The end of the input is reported once per connection, and every descriptor that was
\* closed by one 'close' event, if no listener throws.
EventsOnce ==
  Regular =>
    /\ seen.ends <= sock.opened
    /\ Uses("throw") \/
       seen.closes + Len(sock.ticks) + Len(SelectSeq(stack, LAMBDA f : f = "emitClose"))
         = sock.opened - Cardinality(sock.fds)

\* When the host name is not found the socket stays as it is.
LookupFailed == sock.connecting /\ sock.fd = NoFd /\ lookups = 0

\* end() completes: the queue drains, then the socket is half-closed or destroyed.
\* destroySoon() completes too.
ToEnd == Tame /\ Ended(sock)
HalfClosed == sock.shut \/ sock.destroyed \/ LookupFailed
ToDrain == Tame /\ sock.onDrain
Gone == sock.destroyed \/ LookupFailed
=============================================================================
