----------------------------- MODULE NetServer -----------------------------
(***************************************************************************)
(* net.Server of lib/net.js: listen() on a port, a host name, a path or a   *)
(* descriptor, the accept loop with maxConnections and the EMFILE rescue,   *)
(* pause() and close(), used by a program that may call them from any       *)
(* listener, while clients connect and other threads of the process open    *)
(* and close files.                                                         *)
(*                                                                          *)
(* "stack" holds what JavaScript still has to do, innermost first: "user"   *)
(* is a listener of the program, the other frames are the rest of a method. *)
(* Accepted sockets are counted, not named; of their own life only          *)
(* destroy() matters here (module NetSocket has the rest).                  *)
(***************************************************************************)
EXTENDS Integers, Sequences, FiniteSets

CONSTANTS
  Programs,        \* the programs, see below
  RejectLimit      \* clients rejected in one go before the server pauses, 50 in the code

\* A program sets maxConnections (0 if it does not) and calls listen() in the ways of
\* "kinds".  "uses" says what else it does:
\*   "early"     closes a server before it listens
\*   "relisten"  listens again while callbacks of the last listen() or close() are due
\*   "pause"     calls pause()
\*   "reuse"     connects a closed accepted socket as a client
\* The other fields are its surroundings: "faults", the descriptors the process may have
\* open, and bounds on the files that other threads open, on clients and on calls.  Faults:
\*   "path"      stat() and unlink() may fail for want of permission, say
\*   "file"      what is at the path may be no socket
\*   "accept"    accept() may fail with an error other than EMFILE
ServerAssumption ==
  /\ RejectLimit \in Nat
  /\ Programs \subseteq [kinds : SUBSET {"port", "name", "path", "fd"},
                          uses : SUBSET {"early", "relisten", "pause", "reuse"},
                          faults : SUBSET {"path", "file", "accept"},
                          maxConnections : Nat, fds : Nat, files : Nat, clients : Nat,
                          calls : Nat]

VARIABLES
  srv,      \* the server
  os,       \* the operating system's side
  stack,    \* what is still to be done
  ticks,    \* nextTick callbacks of _doListen
  lookups,  \* dns.lookup() calls outstanding
  reqs,     \* file system requests outstanding
  rejected, \* acceptCount of _rejectPending
  cur,      \* the socket of the running 'connection' event: "none", "open", "closed"
  wrong,    \* the exception or failed assertion that left a callback, if any
  calls, clients, \* counters for the bounds
  program   \* the program that runs

vars == <<srv, os, stack, ticks, lookups, reqs, rejected, cur, wrong, calls, clients, program>>
loop == <<ticks, lookups, reqs>>

NoFd == 0

\* At the path there may be the socket of an earlier process, or a file of another kind.
OldSocket == -1
OtherFile == -2

Uses(u) == u \in program.uses

-----------------------------------------------------------------------------
(* Descriptors.                                                             *)

Used(o) == Cardinality(o.fds) + o.open + o.files + (IF o.dummy THEN 1 ELSE 0)
Free == program.fds - Used(os)

\* getDummyFD: keep one descriptor in reserve.
getDummyFD(o) == IF ~o.dummy /\ Used(o) < program.fds THEN [o EXCEPT !.dummy = TRUE] ELSE o

NewFd == os.opened + 1
WithFd(o) == [o EXCEPT !.opened = @ + 1, !.fds = @ \cup {o.opened + 1}]

-----------------------------------------------------------------------------
(* The parts of the methods.  A part is a record: the server, the system,   *)
(* the frames to run, the requests it makes, and what goes wrong.           *)

Part(s, o, st) == [srv |-> s, os |-> o, st |-> st, tick |-> 0, req |-> "none", wrong |-> "none"]

\* A variant of close() that leaves the timer of pause() running.
Closed_KeepTimer(s) == [s EXCEPT !.watcher = "off", !.fd = NoFd]

\* close(2): clients that wait are dropped.
Shut(o, fd) ==
  [o EXCEPT !.fds = @ \ {fd}, !.listening = @ \ {fd},
            !.pending = IF fd \in o.listening THEN 0 ELSE @]

\* close(): the server afterwards ...
Closed(s) == [s EXCEPT !.watcher = "off", !.fd = NoFd, !.paused = FALSE]

\* ... and the rest of it.  'close' is emitted now, or after the socket file is removed.
Close(s, o, st) ==
  IF s.fd = NoFd THEN [Part(s, o, st) EXCEPT !.wrong = "Not running"]
  ELSE LET o1 == Shut(o, s.fd)
       IN IF s.type = "unix"
          THEN [Part(Closed(s), o1, st) EXCEPT !.req = "close"]
          ELSE Part(Closed(s), o1, <<"user">> \o st)

\* bind(2) creates the socket file.
Bind(s, o) == IF s.type = "unix" THEN [o EXCEPT !.path = s.fd] ELSE o

\* _doListen up to nextTick: bind() to a port may fail, to a path it fails if there is
\* a file, and without a descriptor it does.
doListen(s, o, st) ==
  LET o1 == getDummyFD(o)
      failed == Close(s, o1, <<"emitError">> \o st)
      bound == [Part(s, Bind(s, o1), st) EXCEPT !.tick = 1]
  IN IF s.fd = NoFd THEN {failed}
     ELSE IF s.type = "unix" THEN {IF o.path = NoFd THEN bound ELSE failed}
     ELSE {failed, bound}

\* _startWatcher: setting a watcher that is active fails an assertion, as in NetSocket.
startWatcher(s, o, st) ==
  IF s.watcher = "on" THEN [Part(s, o, st) EXCEPT !.wrong = "watcher active"]
  ELSE Part([s EXCEPT !.watcher = "on", !.wfd = s.fd], o, <<"user">> \o st)

\* pause(), and a variant that forgets to be paused.
pause_NoTimer(s) == [s EXCEPT !.watcher = "off"]
pause(s) == IF s.paused THEN s ELSE [s EXCEPT !.paused = TRUE, !.watcher = "off"]

\* What a part does; an exception no program code can catch ends the callback.
Do(p) ==
  /\ srv' = p.srv /\ os' = p.os
  /\ stack' = IF p.wrong = "none" THEN p.st ELSE << >>
  /\ wrong' = p.wrong

\* Requests are told apart by the calls made so far; a request is run by a thread
\* at some time and called back later.
Request(op) == [op |-> op, n |-> calls, result |-> "none"]
Asks(p, R) == IF p.req = "none" THEN R ELSE R \cup {Request(p.req)}

InUser == stack # << >> /\ Head(stack) = "user" /\ calls < program.calls
Idle == stack = << >> /\ wrong = "none"
Settled == ticks = 0 /\ lookups = 0 /\ reqs = {}

-----------------------------------------------------------------------------
(* Calls by the program.                                                    *)

\* listen() on a server that is not open ('Server already opened' otherwise).
MayListen ==
  /\ InUser /\ srv.fd = NoFd
  /\ Settled \/ Uses("relisten")
  /\ calls' = calls + 1

\* Without arguments, or on a port of an address, which dns.lookup() passes on at once.
\* Without a descriptor socket() throws, in the program.
ListenPort ==
  /\ "port" \in program.kinds /\ MayListen /\ Free > 0
  /\ \E p \in doListen([srv EXCEPT !.type = "tcp", !.fd = NewFd], WithFd(os), stack) :
       /\ srv' = p.srv /\ os' = p.os /\ stack' = p.st
       /\ ticks' = ticks + p.tick
  /\ UNCHANGED <<lookups, reqs, rejected, cur, wrong, clients>>

ListenName ==
  /\ "name" \in program.kinds /\ MayListen
  /\ lookups' = lookups + 1
  /\ UNCHANGED <<srv, os, stack, ticks, reqs, rejected, cur, wrong, clients>>

ListenPath ==
  /\ "path" \in program.kinds /\ MayListen /\ Free > 0
  /\ srv' = [srv EXCEPT !.type = "unix", !.fd = NewFd] /\ os' = WithFd(os)
  /\ reqs' = reqs \cup {Request("stat")}
  /\ UNCHANGED <<stack, ticks, lookups, rejected, cur, wrong, clients>>

\* listenFD() of a descriptor that is already listening.
ListenFD ==
  /\ "fd" \in program.kinds /\ MayListen /\ Free > 0
  /\ LET o == [WithFd(os) EXCEPT !.listening = @ \cup {NewFd}]
     IN Do(startWatcher([srv EXCEPT !.type = "tcp", !.fd = NewFd], o, stack))
  /\ UNCHANGED <<loop, rejected, cur, clients>>

CloseServer ==
  /\ InUser /\ (Settled \/ Uses("early")) /\ calls' = calls + 1
  /\ LET p == Close(srv, os, stack)
     IN /\ srv' = p.srv /\ os' = p.os /\ stack' = p.st
        /\ reqs' = Asks(p, reqs)
  /\ UNCHANGED <<ticks, lookups, rejected, cur, wrong, clients>>

PauseServer ==
  /\ InUser /\ Uses("pause") /\ srv.fd \in os.listening /\ calls' = calls + 1
  /\ srv' = pause(srv)
  /\ UNCHANGED <<os, stack, loop, rejected, cur, wrong, clients>>

\* A variant of destroy() that does not tell the server.
Uncount_Not(s) == s
Uncount(s) == [s EXCEPT !.connections = @ - 1]

\* destroy() of an accepted socket by the program or, between callbacks, by an event
\* of the socket.  The socket may be the one just accepted.
Destroyed(c) ==
  /\ os.open > 0
  /\ c \in (IF cur # "open" THEN {cur} ELSE IF os.open = 1 THEN {"closed"} ELSE {"open", "closed"})
  /\ os' = [os EXCEPT !.open = @ - 1, !.gone = @ + 1]
  /\ srv' = Uncount(srv)
  /\ cur' = c

DestroySocket ==
  /\ (InUser /\ calls' = calls + 1) \/ (Idle /\ UNCHANGED calls)
  /\ \E c \in {"none", "open", "closed"} : Destroyed(c)
  /\ UNCHANGED <<stack, loop, rejected, wrong, clients>>

\* connect() on an accepted socket that was closed, and its destroy(): initSocket()
\* has reset "destroyed", and the socket still has its server.
ReuseSocket ==
  /\ InUser /\ Uses("reuse") /\ os.gone > 0 /\ calls' = calls + 1
  /\ srv' = Uncount(srv) /\ os' = [os EXCEPT !.gone = @ - 1]
  /\ UNCHANGED <<stack, loop, rejected, cur, wrong, clients>>

\* User code returns; after 'connect' the accept loop goes on.
Return ==
  /\ stack # << >> /\ Head(stack) = "user"
  /\ stack' = IF Len(stack) > 1 /\ stack[2] = "inConnect" THEN SubSeq(stack, 3, Len(stack))
              ELSE Tail(stack)
  /\ UNCHANGED <<srv, os, loop, rejected, cur, wrong, calls, clients>>

\* A listener of 'connect' throws: the socket is destroyed unless it was.
ThrowInConnect ==
  /\ Len(stack) > 1 /\ stack[1] = "user" /\ stack[2] = "inConnect"
  /\ IF cur = "open" THEN Destroyed("closed") ELSE UNCHANGED <<srv, os, cur>>
  /\ stack' = << >>
  /\ UNCHANGED <<loop, rejected, wrong, calls, clients>>

-----------------------------------------------------------------------------
(* The accept loop.                                                         *)

\* The watcher's callback up to the loop.
OnAcceptable ==
  /\ Idle /\ srv.watcher = "on" /\ os.pending > 0
  /\ os' = getDummyFD(os)
  /\ srv' = IF srv.paused THEN [srv EXCEPT !.watcher = "off"] ELSE srv
  /\ stack' = <<"accept">>
  /\ UNCHANGED <<loop, rejected, cur, wrong, calls, clients>>

Accepting == stack # << >> /\ Head(stack) = "accept" /\ srv.fd # NoFd

AtMax == program.maxConnections > 0 /\ srv.connections >= program.maxConnections

\* The server was closed by a listener, no client is left, or the first one has gone.
AcceptClosed ==
  /\ stack # << >> /\ Head(stack) = "accept" /\ srv.fd = NoFd
  /\ stack' = Tail(stack)
  /\ UNCHANGED <<srv, os, loop, rejected, cur, wrong, calls, clients>>

AcceptNothing ==
  /\ Accepting /\ os.pending = 0
  /\ stack' = Tail(stack)
  /\ UNCHANGED <<srv, os, loop, rejected, cur, wrong, calls, clients>>

AcceptAborted ==
  /\ Accepting /\ Free > 0 /\ os.pending > 0
  /\ os' = [os EXCEPT !.pending = @ - 1]
  /\ stack' = Tail(stack)
  /\ UNCHANGED <<srv, loop, rejected, cur, wrong, calls, clients>>

\* accept() fails in the loop or in _rejectPending, not with EMFILE: the error is thrown.
AcceptError ==
  /\ "accept" \in program.faults
  /\ Accepting \/ (stack # << >> /\ Head(stack) = "reject")
  /\ stack' = << >> /\ wrong' = "accept"
  /\ UNCHANGED <<srv, os, loop, rejected, cur, calls, clients>>

\* EMFILE: give up the reserve to reject the clients, if there is one.
AcceptEMFILE ==
  /\ Accepting /\ Free = 0
  /\ IF os.dummy
     THEN /\ os' = [os EXCEPT !.dummy = FALSE]
          /\ stack' = <<"reject", "getDummyFD">> \o Tail(stack)
     ELSE UNCHANGED os /\ stack' = Tail(stack)
  /\ rejected' = 0
  /\ UNCHANGED <<srv, loop, cur, wrong, calls, clients>>

AcceptTooMany ==
  /\ Accepting /\ Free > 0 /\ os.pending > 0 /\ AtMax
  /\ os' = [os EXCEPT !.pending = @ - 1]
  /\ stack' = <<"reject">> \o Tail(stack)
  /\ rejected' = 0
  /\ UNCHANGED <<srv, loop, cur, wrong, calls, clients>>

Accept ==
  /\ Accepting /\ Free > 0 /\ os.pending > 0 /\ ~AtMax
  /\ os' = [os EXCEPT !.pending = @ - 1, !.open = @ + 1]
  /\ srv' = [srv EXCEPT !.connections = @ + 1]
  /\ cur' = "open"
  /\ stack' = <<"user", "emitConnect">> \o stack
  /\ UNCHANGED <<loop, rejected, wrong, calls, clients>>

EmitConnect ==
  /\ stack # << >> /\ Head(stack) = "emitConnect"
  /\ stack' = <<"user", "inConnect">> \o Tail(stack)
  /\ UNCHANGED <<srv, os, loop, rejected, cur, wrong, calls, clients>>

TooManyRejected(n) == n > RejectLimit

\* One turn of the loop of _rejectPending.
Reject ==
  /\ stack # << >> /\ Head(stack) = "reject"
  /\ IF Free = 0
     THEN /\ stack' = << >> /\ wrong' = "EMFILE"
          /\ UNCHANGED <<srv, os, rejected>>
     ELSE /\ UNCHANGED wrong
          /\ \/ os.pending = 0 /\ stack' = Tail(stack) /\ UNCHANGED <<srv, os, rejected>>
             \/ /\ os.pending > 0
                /\ os' = [os EXCEPT !.pending = @ - 1]
                /\ rejected' = rejected + 1
                /\ IF TooManyRejected(rejected + 1)
                   THEN srv' = pause(srv) /\ stack' = Tail(stack)
                   ELSE UNCHANGED <<srv, stack>>
  /\ UNCHANGED <<loop, cur, calls, clients>>

\* The end of rescueEMFILE.
Reserve ==
  /\ stack # << >> /\ Head(stack) = "getDummyFD"
  /\ os' = getDummyFD(os) /\ stack' = Tail(stack)
  /\ UNCHANGED <<srv, loop, rejected, cur, wrong, calls, clients>>

\* The 'error' event of _doListen, after close().
EmitError ==
  /\ stack # << >> /\ Head(stack) = "emitError"
  /\ stack' = <<"user">> \o Tail(stack)
  /\ UNCHANGED <<srv, os, loop, rejected, cur, wrong, calls, clients>>

-----------------------------------------------------------------------------
(* Callbacks.                                                               *)

\* A variant of the nextTick callback of _doListen.
Bail_Never == FALSE
Bail == srv.fd = NoFd

\* The nextTick callback of _doListen; listen(2) may fail.
OnTick ==
  /\ Idle /\ ticks > 0
  /\ ticks' = ticks - 1
  /\ IF Bail THEN UNCHANGED <<srv, os, stack, reqs, wrong>>
     ELSE \E p \in {startWatcher(srv, [os EXCEPT !.listening = @ \cup {srv.fd}], << >>),
                    Close(srv, os, <<"emitError">>)} :
            Do(p) /\ reqs' = Asks(p, reqs)
  /\ UNCHANGED <<lookups, rejected, cur, calls, clients>>

\* The callback of dns.lookup(): socket() throws if there is no descriptor.
OnLookup ==
  /\ Idle /\ lookups > 0
  /\ lookups' = lookups - 1
  /\ IF Free = 0
     THEN /\ srv' = [srv EXCEPT !.type = "tcp"] /\ wrong' = "socket"
          /\ UNCHANGED <<os, stack, ticks>>
     ELSE \E p \in doListen([srv EXCEPT !.type = "tcp", !.fd = NewFd], WithFd(os), << >>) :
            Do(p) /\ ticks' = ticks + p.tick
  /\ UNCHANGED <<reqs, rejected, cur, calls, clients>>

OnLookupError ==
  /\ Idle /\ lookups > 0
  /\ lookups' = lookups - 1 /\ stack' = <<"user">>
  /\ UNCHANGED <<srv, os, ticks, reqs, rejected, cur, wrong, calls, clients>>

\* The callback of stat(): bind, or remove the socket file first; any other error is thrown,
\* and one for a file that is no socket.
OnStat ==
  /\ Idle
  /\ \E r \in reqs :
       /\ r.op = "stat"
       /\ \/ /\ r.result = "ENOENT"
             /\ \E p \in doListen(srv, os, << >>) :
                  Do(p) /\ ticks' = ticks + p.tick /\ reqs' = Asks(p, reqs \ {r})
          \/ /\ r.result = "socket"
             /\ reqs' = (reqs \ {r}) \cup {Request("unlink")}
             /\ UNCHANGED <<srv, os, stack, ticks, wrong>>
          \/ /\ r.result \in {"file", "error"}
             /\ reqs' = reqs \ {r} /\ wrong' = "stat"
             /\ UNCHANGED <<srv, os, stack, ticks>>
  /\ UNCHANGED <<lookups, rejected, cur, calls, clients>>

\* The callback of unlink() in listen(): an error is thrown.
OnUnlink ==
  /\ Idle
  /\ \E r \in reqs :
       /\ r.op = "unlink" /\ r.result # "none"
       /\ IF r.result = "ok"
          THEN \E p \in doListen(srv, os, << >>) :
                 Do(p) /\ ticks' = ticks + p.tick /\ reqs' = Asks(p, reqs \ {r})
          ELSE /\ reqs' = reqs \ {r} /\ wrong' = "unlink"
               /\ UNCHANGED <<srv, os, stack, ticks>>
  /\ UNCHANGED <<lookups, rejected, cur, calls, clients>>

\* The callback of unlink() in close(): emit 'close'.
OnClosed ==
  /\ Idle
  /\ \E r \in reqs : r.op = "close" /\ r.result # "none" /\ reqs' = reqs \ {r}
  /\ stack' = <<"user">>
  /\ UNCHANGED <<srv, os, ticks, lookups, rejected, cur, wrong, calls, clients>>

TimerFires(s) == [s EXCEPT !.paused = FALSE, !.watcher = "on"]

\* The timer of pause(), with its assertion.  Ticks run long before a timer.
OnPauseTimer ==
  /\ Idle /\ srv.paused /\ ticks = 0
  /\ IF srv.fd = NoFd THEN wrong' = "timer" /\ UNCHANGED srv
     ELSE srv' = TimerFires(srv) /\ UNCHANGED wrong
  /\ UNCHANGED <<os, stack, loop, rejected, cur, calls, clients>>

\* The program runs for a reason of its own.
OnOther ==
  /\ Idle /\ calls < program.calls
  /\ stack' = <<"user">>
  /\ UNCHANGED <<srv, os, loop, rejected, cur, wrong, calls, clients>>

-----------------------------------------------------------------------------
(* The rest of the process and of the world, at any time.                   *)

ClientConnects ==
  /\ clients < program.clients /\ os.listening # {}
  /\ clients' = clients + 1
  /\ os' = [os EXCEPT !.pending = @ + 1]
  /\ UNCHANGED <<srv, stack, loop, rejected, cur, wrong, calls>>

FileOpened ==
  /\ os.files < program.files /\ Free > 0
  /\ os' = [os EXCEPT !.files = @ + 1]
  /\ UNCHANGED <<srv, stack, loop, rejected, cur, wrong, calls, clients>>

FileClosed ==
  /\ os.files > 0
  /\ os' = [os EXCEPT !.files = @ - 1]
  /\ UNCHANGED <<srv, stack, loop, rejected, cur, wrong, calls, clients>>

\* A thread of the pool runs a request on the socket file.
Result(op) ==
  IF op = "stat"
  THEN IF os.path = NoFd THEN "ENOENT" ELSE IF os.path = OtherFile THEN "file" ELSE "socket"
  ELSE IF os.path = NoFd THEN "error" ELSE "ok"

RequestRuns ==
  /\ \E r \in reqs, x \in {"ENOENT", "file", "socket", "error", "ok"} :
       /\ r.result = "none"
       /\ x = Result(r.op) \/ (x = "error" /\ "path" \in program.faults)
       /\ reqs' = (reqs \ {r}) \cup {[r EXCEPT !.result = x]}
       /\ os' = IF x = "ok" THEN [os EXCEPT !.path = NoFd] ELSE os
  /\ UNCHANGED <<srv, stack, ticks, lookups, rejected, cur, wrong, calls, clients>>

-----------------------------------------------------------------------------
Init ==
  /\ srv = [fd |-> NoFd, type |-> "none", watcher |-> "off", wfd |-> NoFd,
            connections |-> 0, paused |-> FALSE]
  /\ program \in Programs
  /\ \E path \in {NoFd} \cup (IF "path" \in program.kinds THEN {OldSocket} ELSE {})
                          \cup (IF "file" \in program.faults THEN {OtherFile} ELSE {}) :
       os = [fds |-> {}, opened |-> 0, listening |-> {}, pending |-> 0, open |-> 0,
             gone |-> 0, files |-> 0, dummy |-> FALSE, path |-> path]
  /\ stack = <<"user">> /\ ticks = 0 /\ lookups = 0 /\ reqs = {}
  /\ rejected = 0 /\ cur = "none" /\ calls = 0 /\ clients = 0
  /\ wrong = "none"

Calls ==
  \/ ListenPort \/ ListenName \/ ListenPath \/ ListenFD \/ CloseServer \/ PauseServer
  \/ DestroySocket \/ ReuseSocket \/ ThrowInConnect

Code ==
  \/ Return \/ AcceptClosed \/ AcceptNothing \/ AcceptAborted \/ AcceptError
  \/ AcceptEMFILE \/ AcceptTooMany \/ Accept \/ EmitConnect
  \/ Reject \/ Reserve \/ EmitError

Callbacks ==
  \/ OnAcceptable \/ OnTick \/ OnLookup \/ OnLookupError \/ OnStat \/ OnUnlink \/ OnClosed
  \/ OnPauseTimer \/ OnOther

World == ClientConnects \/ FileOpened \/ FileClosed \/ RequestRuns

Next == (Calls \/ Code \/ Callbacks \/ World) /\ UNCHANGED program

Spec == Init /\ [][Next]_vars

\* Code that runs finishes, the loop serves every watcher and timer in turn.
Fair(A) == A /\ UNCHANGED program

FairSpec ==
  /\ Spec /\ WF_vars(Fair(Code)) /\ SF_vars(Fair(OnAcceptable))
  /\ SF_vars(Fair(OnPauseTimer)) /\ SF_vars(Fair(OnTick))

-----------------------------------------------------------------------------
\* The server never holds more than one descriptor, and none when it is closed.  The
\* watcher is active only on that descriptor, when it is listening, unless listen() is
\* called before the callbacks of the last one; so a closed server accepts nothing.
TypeOK ==
  /\ srv.fd \in 0..os.opened /\ srv.connections \in Int
  /\ srv.watcher \in {"off", "on"} /\ srv.paused \in BOOLEAN
  /\ os.pending \in Nat /\ os.listening \subseteq os.fds
  /\ stack \in Seq({"user", "accept", "reject", "getDummyFD", "emitConnect", "inConnect",
                    "emitError"})
  /\ os.fds = (IF srv.fd = NoFd THEN {} ELSE {srv.fd})
  /\ ~Uses("relisten") /\ srv.watcher = "on" => srv.wfd = srv.fd /\ srv.fd \in os.listening

\* The program lets the callbacks of listen() and close() run before it goes on, and
\* has the descriptors of the process to itself.
Orderly == program.uses \cap {"early", "relisten"} = {} /\ program.files = 0

\* server.connections is the number of accepted sockets that are not destroyed, if no
\* socket is used again, and never exceeds maxConnections.
ConnectionsExact ==
  ~Uses("reuse") =>
    /\ srv.connections = os.open
    /\ program.maxConnections > 0 => os.open <= program.maxConnections

\* No exception or failed assertion leaves a callback of an orderly program's server but
\* those that listen() and the accept loop throw on purpose, for a path that is not its own
\* and an accept() that fails for no want of descriptors (lines 910, 1042, 1046 and 1049).
\* If it listens on a path it can be reached there.
NoneThrown ==
  Orderly =>
    /\ \/ wrong = "none"
       \/ wrong \in {"stat", "unlink"} /\ program.faults \cap {"path", "file"} # {}
       \/ wrong = "accept" /\ "accept" \in program.faults
    /\ srv.type = "unix" /\ srv.fd \in os.listening => os.path = srv.fd

\* Clients that wait are accepted or rejected, also if the server pauses, unless it is
\* closed or there is no descriptor left, not even the reserve.
Pending == Orderly /\ "accept" \notin program.faults /\ os.pending > 0
Served == os.pending = 0 \/ (Free = 0 /\ ~os.dummy)
=============================================================================
