---------------------------- MODULE SecurePair ----------------------------
(***************************************************************************)
(* SecurePair of lib/tls.js: a cleartext stream ("c") for the application, *)
(* an encrypted one ("e") piped to and from a socket, and between them a   *)
(* connection of OpenSSL that _cycle() moves data through.  Listeners call *)
(* back into the streams, and so into _cycle(), from inside of it; four    *)
(* locks keep each direction from being entered twice.                     *)
(*                                                                         *)
(* The calls in progress are a stack of frames, the innermost first.       *)
(* OpenSSL is modelled by how the code uses it: records come in, a         *)
(* handshake needs some of them before data can pass, a bad record is an   *)
(* error when it is read.  A chunk that is written is a sequence of        *)
(* records.                                                                *)
(***************************************************************************)
EXTENDS Integers, Sequences

CONSTANTS
  HS,        \* handshake records the peer must send
  Pool,      \* chunks that fit the buffer of _push()
  Programs   \* what the peer and the application may do

VARIABLES
  program,   \* [peer, ends, slow, calls, writes, pauses, from]
  pair,      \* _done, _secureEstablished, _writeCalled and the four locks
  streams,   \* writable, _writeState, _pending, _destroyAfterPush, _doneFlag
  ssl,       \* the connection; open while pair._ssl is not null, shut once shutdown() was
             \* called, notified when that had OpenSSL send its close_notify
  stack,
  ticks,     \* functions given to process.nextTick
  socket,    \* the net.Socket: left to arrive, ended, paused, full
  sent, got, \* data emitted by the encrypted and by the cleartext stream
  writes, pauses,   \* calls of write() and pause() so far
  left,      \* why the pair was destroyed
  closed     \* how often 'close' was emitted

vars == <<program, pair, streams, ssl, stack, ticks, socket, sent, got, writes, pauses, left,
          closed>>

\* Records: data are positive numbers.
Hello == 0
Bad == -1
CloseNotify == -2
END_OF_FILE == <<-42>>
Stages == {"pull_e", "pull_c", "push_c", "push_e"}
NextStage == [pull_e |-> "pull_c", pull_c |-> "push_c", push_c |-> "push_e", push_e |-> "end"]
Side == [pull_e |-> "e", pull_c |-> "c", push_c |-> "c", push_e |-> "e"]
Other == [e |-> "c", c |-> "e"]

Min2(a, b) == IF a < b THEN a ELSE b

\* The data among some records is a + 1, .., b in this order.
Carries(q, a, b) ==
  /\ a <= b
  /\ \A i \in 1..Len(q) : q[i] > 0 => a < q[i] /\ q[i] <= b
  /\ \A n \in a + 1..b : \E i \in 1..Len(q) : q[i] = n
  /\ \A i, j \in 1..Len(q) : i < j /\ q[i] > 0 /\ q[j] > 0 => q[i] < q[j]

\* There is a handshake.  The data of a peer is numbered, and OpenSSL gives nothing of what
\* follows a bad record.
ASSUME PairAssumption ==
  /\ HS \in Nat \ {0} /\ Pool \in Nat \ {0}
  /\ \A p \in Programs :
       /\ p.peer \in Seq(Int)
       /\ \A i \in 1..Len(p.peer) : p.peer[i] >= CloseNotify
       /\ \E n \in 0..Len(p.peer) : Carries(p.peer, 0, n)
       /\ \A i \in 1..Len(p.peer) : p.peer[i] = Bad => i = Len(p.peer)

-----------------------------------------------------------------------------
Init ==
  /\ program \in Programs
  /\ pair = [done |-> FALSE, established |-> FALSE, writeCalled |-> FALSE,
             lock |-> [s \in Stages |-> FALSE]]
  /\ streams = [s \in {"c", "e"} |->
       [writable |-> TRUE, writeState |-> TRUE, pending |-> << >>, destroyAfterPush |-> FALSE,
        doneFlag |-> FALSE]]
  /\ ssl = [open |-> TRUE, started |-> FALSE, error |-> FALSE, need |-> HS, in |-> << >>,
            out |-> << >>, shut |-> FALSE, notified |-> FALSE]
  /\ stack = << >>
  /\ ticks = <<"start">>
  /\ socket = [left |-> program.peer, ended |-> FALSE, paused |-> FALSE, full |-> FALSE]
  /\ sent = << >> /\ got = << >>
  /\ writes = 0 /\ pauses = 0
  /\ left = "no" /\ closed = 0

-----------------------------------------------------------------------------
(* OpenSSL.                                                                 *)

\* SSL_accept or SSL_connect: the first call says hello, and handshake records are answered.
Hellos(q) ==
  CHOOSE n \in 0..Len(q) : (\A i \in 1..n : q[i] = Hello) /\ (n < Len(q) => q[n + 1] # Hello)
Handshake(s) ==
  LET n == Min2(s.need, Hellos(s.in))
      t == [s EXCEPT !.need = @ - n, !.in = SubSeq(@, n + 1, Len(@)), !.started = TRUE,
                     !.out = IF s.started /\ n = 0 THEN @ ELSE Append(@, Hello)]
  IN IF t.need > 0 /\ t.in # << >> THEN [t EXCEPT !.error = TRUE] ELSE t

\* SSL_is_init_finished.
Finished(s) == s.need = 0

\* A call that moves data first goes on with the handshake.
Ready(s) == IF s.need > 0 THEN Handshake(s) ELSE s

\* SSL_read: the chunk it gives, if any, is taken from in.
CanRead(s) == s.need = 0 /\ s.in # << >> /\ Head(s.in) > 0
clearOut(s) ==
  LET t == Ready(s)
  IN CASE CanRead(t) -> [t EXCEPT !.in = Tail(@)]
       [] t.need = 0 /\ t.in # << >> /\ Head(t.in) = Bad -> [t EXCEPT !.in = Tail(@), !.error = TRUE]
       [] OTHER -> t

clearIn(s, x) ==
  LET t == Ready(s) IN IF t.need = 0 THEN [t EXCEPT !.out = @ \o x] ELSE t

encIn(s, records) == [s EXCEPT !.in = @ \o records]
encOut(s) == IF s.out = << >> THEN s ELSE [s EXCEPT !.out = Tail(@)]

\* SSL_shutdown does nothing during the handshake.
shutdown(s) ==
  [s EXCEPT !.shut = TRUE, !.notified = Finished(s),
            !.out = IF Finished(s) THEN Append(@, CloseNotify) ELSE @]

-----------------------------------------------------------------------------
(* Frames.                                                                  *)

Top == stack[1]
Below == Tail(stack)
At(a) == [Top EXCEPT !.at = a]

CycleFrame(depth, est) == [fn |-> "cycle", at |-> "pull_e", depth |-> depth, est |-> est]
PullFrame(side) ==
  [fn |-> "pull", at |-> "loop", side |-> side, have |-> streams[side].pending # << >>]
PushFrame(side) == [fn |-> "push", at |-> "start", side |-> side, buf |-> << >>]
UserFrame(event) == [fn |-> "user", at |-> event]

\* _cycle() is called, with rest below it.
Cycle(p, rest) ==
  IF p.done THEN pair' = p /\ stack' = rest
  ELSE /\ pair' = [p EXCEPT !.writeCalled = FALSE]
       /\ stack' = <<CycleFrame(0, p.established)>> \o rest

\* _destroy() is called.
Destroyed(p) == [p EXCEPT !.done = TRUE]
NoSsl(s) == [s EXCEPT !.open = FALSE, !.error = FALSE, !.in = << >>, !.out = << >>]
NotWritable(ss) == [s \in {"c", "e"} |-> [ss[s] EXCEPT !.writable = FALSE]]

Destroy(why, ss, rest) ==
  /\ pair' = Destroyed(pair)
  /\ ssl' = NoSsl(ssl)
  /\ streams' = NotWritable(ss)
  /\ ticks' = Append(ticks, "close")
  /\ left' = why
  /\ stack' = rest

\* The pair goes when one of them is.
Done_Either(side, rest) ==
  LET ss == [streams EXCEPT ![side].doneFlag = TRUE]
  IN IF ~pair.done THEN Destroy("done", ss, rest)
     ELSE streams' = ss /\ stack' = rest /\ UNCHANGED <<pair, ssl, ticks, left>>

\* _done() of a stream: the pair goes when both are done.
Done(side, rest) ==
  LET ss == [streams EXCEPT ![side].doneFlag = TRUE]
  IN IF ss["c"].doneFlag /\ ss["e"].doneFlag /\ ~pair.done
     THEN Destroy("done", ss, rest)
     ELSE streams' = ss /\ stack' = rest /\ UNCHANGED <<pair, ssl, ticks, left>>

-----------------------------------------------------------------------------
(* _cycle().                                                                *)

Quiet == <<program, socket, sent, got, writes, pauses, closed>>

\* The locks are not looked at.
CycleStage_NoLock ==
  /\ stack # << >> /\ Top.fn = "cycle" /\ Top.at \in Stages
  /\ pair' = [pair EXCEPT !.lock[Top.at] = TRUE]
  /\ stack' = <<IF Top.at \in {"pull_e", "pull_c"} THEN PullFrame(Side[Top.at])
                ELSE PushFrame(Side[Top.at])>> \o stack
  /\ UNCHANGED <<Quiet, streams, ssl, ticks, left>>

\* One of the four: entered unless it is being executed further out.
CycleStage ==
  /\ stack # << >> /\ Top.fn = "cycle" /\ Top.at \in Stages
  /\ IF pair.lock[Top.at]
     THEN stack' = <<At(NextStage[Top.at])>> \o Below /\ UNCHANGED pair
     ELSE /\ pair' = [pair EXCEPT !.lock[Top.at] = TRUE]
          /\ stack' = <<IF Top.at \in {"pull_e", "pull_c"} THEN PullFrame(Side[Top.at])
                        ELSE PushFrame(Side[Top.at])>> \o stack
  /\ UNCHANGED <<Quiet, streams, ssl, ticks, left>>

\* It returns to _cycle(), which frees the lock and goes on.
Return ==
  /\ stack # << >> /\ Top.fn \in {"pull", "push"} /\ Top.at = "ret"
  /\ pair' = [pair EXCEPT !.lock[Below[1].at] = FALSE]
  /\ stack' = <<[Below[1] EXCEPT !.at = NextStage[@]]>> \o Tail(Below)
  /\ UNCHANGED <<Quiet, streams, ssl, ticks, left>>

\* Whether to cycle again.
Again(f) == (~f.est /\ pair.established) \/ (f.depth = 0 /\ pair.writeCalled)

CycleEnd ==
  /\ stack # << >> /\ Top.fn = "cycle" /\ Top.at = "end"
  /\ stack' = IF ~pair.done /\ Again(Top)
              THEN <<CycleFrame(Top.depth + 1, pair.established)>> \o Below
              ELSE Below
  /\ UNCHANGED <<Quiet, pair, streams, ssl, ticks, left>>

-----------------------------------------------------------------------------
(* _pull() and _push().                                                     *)

Pulling(at) == stack # << >> /\ Top.fn = "pull" /\ Top.at = at
Pushing(at) == stack # << >> /\ Top.fn = "push" /\ Top.at = at
Mine == streams[Top.side]

\* What follows a call of OpenSSL that has left it as s, with the streams ss: _error(), or
\* 'secure' when the handshake has ended, and then the frame f.  (_error() would
\* destroy the pair for a peer without a certificate, by the text of the error.  It never is
\* that text: HandleSSLError formats the number that SSL_get_error returned.)
AfterCall(s, ss, f) ==
  IF s.error
  THEN IF ~pair.established
       THEN Destroy("error", ss, <<[f EXCEPT !.at = "ret"]>> \o Below)
       ELSE /\ ssl' = [s EXCEPT !.error = FALSE]
            /\ streams' = ss
            /\ stack' = <<UserFrame("error"), [f EXCEPT !.at = "ret"]>> \o Below
            /\ UNCHANGED <<pair, ticks, left>>
  ELSE /\ ssl' = s
       /\ streams' = ss
       /\ IF Finished(s) /\ ~pair.established
          THEN /\ pair' = [pair EXCEPT !.established = TRUE]
               /\ stack' = <<UserFrame("secure"), f>> \o Below
          ELSE stack' = <<f>> \o Below /\ UNCHANGED pair
       /\ UNCHANGED <<ticks, left>>

PullNothing ==
  /\ Pulling("loop")
  /\ Mine.pending = << >> \/ ~ssl.open
  /\ stack' = <<At("end")>> \o Below
  /\ UNCHANGED <<Quiet, pair, streams, ssl, ticks, left>>

PullEnd ==
  /\ Pulling("loop") /\ ssl.open
  /\ Mine.pending # << >> /\ Head(Mine.pending) = END_OF_FILE
  /\ streams' = [streams EXCEPT ![Top.side].pending = Tail(@),
                                ![Other[Top.side]].destroyAfterPush = TRUE]
  /\ ssl' = IF Top.side = "c" THEN shutdown(ssl) ELSE ssl
  /\ Cycle(pair, <<At("eof")>> \o Below)
  /\ UNCHANGED <<Quiet, ticks, left>>

\* The stream that was ended is not done.
PullDone_Not ==
  /\ Pulling("eof")
  /\ stack' = <<At("ret")>> \o Below
  /\ UNCHANGED <<Quiet, pair, streams, ssl, ticks, left>>

\* After the nested _cycle().
PullDone ==
  /\ Pulling("eof")
  /\ Done(Top.side, <<At("ret")>> \o Below)
  /\ UNCHANGED Quiet

\* Data goes into OpenSSL; what it does not take stays first.
PullData ==
  /\ Pulling("loop") /\ ssl.open
  /\ Mine.pending # << >> /\ Head(Mine.pending) # END_OF_FILE
  /\ LET x == Head(Mine.pending)
         s == IF Top.side = "e" THEN encIn(ssl, x) ELSE clearIn(ssl, x)
         taken == Top.side = "e" \/ Finished(s)
     IN AfterCall(s,
          IF taken \/ s.error THEN [streams EXCEPT ![Top.side].pending = Tail(@)] ELSE streams,
          At(IF taken THEN "cb" ELSE "end"))
  /\ UNCHANGED Quiet

\* The callback of write().
PullCallback ==
  /\ Pulling("cb")
  /\ stack' = (IF Top.side = "c" THEN <<UserFrame("cb")>> ELSE << >>) \o <<At("loop")>> \o Below
  /\ UNCHANGED <<Quiet, pair, streams, ssl, ticks, left>>

\* 'drain', which makes the pipe resume the socket.
PullDrain ==
  /\ Pulling("end")
  /\ IF Top.have /\ Mine.pending = << >>
     THEN /\ stack' = (IF Top.side = "c" THEN <<UserFrame("drain")>> ELSE << >>)
                      \o <<At("ret")>> \o Below
          /\ socket' = IF Top.side = "e" THEN [socket EXCEPT !.paused = FALSE] ELSE socket
     ELSE stack' = <<At("ret")>> \o Below /\ UNCHANGED socket
  /\ UNCHANGED <<program, sent, got, writes, pauses, closed, pair, streams, ssl, ticks, left>>

\* 'If the encrypted side got EOF, we do not attempt to write out data anymore'.
PushStart ==
  /\ Pushing("start")
  /\ stack' = <<At(IF Top.side = "e" /\ ~Mine.writable THEN "ret" ELSE "loop")>> \o Below
  /\ UNCHANGED <<Quiet, pair, streams, ssl, ticks, left>>

PushLoop ==
  /\ Pushing("loop")
  /\ stack' = <<IF Mine.writeState THEN [Top EXCEPT !.at = "read", !.buf = << >>] ELSE At("ret")>>
              \o Below
  /\ UNCHANGED <<Quiet, pair, streams, ssl, ticks, left>>

\* _pusher: one read into the pool.
PushRead ==
  /\ Pushing("read")
  /\ IF ~ssl.open
     THEN /\ stack' = <<At("emit")>> \o Below
          /\ UNCHANGED <<pair, streams, ssl, ticks, left>>
     ELSE LET before == Ready(ssl)
              s == IF Top.side = "e" THEN encOut(ssl) ELSE clearOut(ssl)
              x == IF Top.side = "e" THEN SubSeq(ssl.out, 1, Min2(1, Len(ssl.out)))
                   ELSE IF CanRead(before) THEN <<Head(before.in)>> ELSE << >>
              f == [Top EXCEPT !.buf = @ \o x,
                               !.at = IF x # << >> /\ Len(Top.buf) + 1 < Pool THEN "read" ELSE "emit"]
          IN AfterCall(s, streams, f)
  /\ UNCHANGED Quiet

\* No data: the stream may be done.
PushNothing ==
  /\ Pushing("emit") /\ Top.buf = << >>
  /\ LET bytes == IF Top.side = "c" THEN ssl.in ELSE ssl.out
     IN IF bytes = << >> /\ Mine.destroyAfterPush
        THEN Done(Top.side, <<At("ret")>> \o Below)
        ELSE /\ stack' = <<At("ret")>> \o Below
             /\ UNCHANGED <<pair, streams, ssl, ticks, left>>
  /\ UNCHANGED Quiet

\* 'data' of the cleartext stream.
PushClear ==
  /\ Pushing("emit") /\ Top.buf # << >> /\ Top.side = "c"
  /\ got' = got \o Top.buf
  /\ stack' = <<UserFrame("data"), At("loop")>> \o Below
  /\ UNCHANGED <<program, socket, sent, writes, pauses, closed, pair, streams, ssl, ticks, left>>

\* 'data' of the encrypted stream: the pipe writes to the socket, and pauses the stream
\* when the socket does not take all at once.
PushEncrypted ==
  /\ Pushing("emit") /\ Top.buf # << >> /\ Top.side = "e"
  /\ sent' = sent \o Top.buf
  /\ stack' = <<At("loop")>> \o Below
  /\ \/ UNCHANGED <<socket, streams>>
     \/ /\ program.slow
        /\ socket' = [socket EXCEPT !.full = TRUE]
        /\ streams' = [streams EXCEPT !["e"].writeState = FALSE]
  /\ UNCHANGED <<program, got, writes, pauses, closed, pair, ssl, ticks, left>>
-----------------------------------------------------------------------------
(* The application, from its listeners and between events.  It does not use *)
(* a pair before the tick that starts it, nor write() after end().          *)

Listening == stack # << >> /\ Top.fn = "user"
Free == stack = << >> /\ "start" \notin {ticks[i] : i \in 1..Len(ticks)}
MayCall(call) ==
  /\ call \in program.calls
  /\ Free \/ (Listening /\ Top.at \in program.from)

Write ==
  /\ MayCall("write") /\ streams["c"].writable /\ writes < program.writes
  /\ writes' = writes + 1
  /\ streams' = [streams EXCEPT !["c"].pending = Append(@, <<writes + 1>>)]
  /\ Cycle([pair EXCEPT !.writeCalled = TRUE], stack)
  /\ UNCHANGED <<program, socket, sent, got, pauses, closed, ssl, ticks, left>>

End ==
  /\ MayCall("end") /\ streams["c"].writable
  /\ streams' = [streams EXCEPT !["c"].pending = Append(@, END_OF_FILE), !["c"].writable = FALSE]
  /\ Cycle(pair, stack)
  /\ UNCHANGED <<Quiet, ssl, ticks, left>>

DestroyPair ==
  /\ MayCall("destroy") /\ ~pair.done
  /\ Destroy("destroy", streams, stack)
  /\ UNCHANGED Quiet

Pause ==
  /\ MayCall("pause") /\ streams["c"].writeState /\ pauses < program.pauses
  /\ pauses' = pauses + 1
  /\ streams' = [streams EXCEPT !["c"].writeState = FALSE]
  /\ UNCHANGED <<program, socket, sent, got, writes, closed, pair, ssl, stack, ticks, left>>

\* The pair is not cycled.
Resume_Still ==
  /\ MayCall("pause") /\ ~streams["c"].writeState
  /\ streams' = [streams EXCEPT !["c"].writeState = TRUE]
  /\ UNCHANGED <<Quiet, pair, stack, ssl, ticks, left>>

Resume ==
  /\ MayCall("pause") /\ ~streams["c"].writeState
  /\ streams' = [streams EXCEPT !["c"].writeState = TRUE]
  /\ Cycle(pair, stack)
  /\ UNCHANGED <<Quiet, ssl, ticks, left>>

UserReturns ==
  /\ Listening
  /\ stack' = Below
  /\ UNCHANGED <<Quiet, pair, streams, ssl, ticks, left>>

-----------------------------------------------------------------------------
(* The event loop.                                                          *)

\* The tick of the constructor: the handshake starts.  There is nothing to start, and an
\* exception, when records that came before it were bad.
OnStart ==
  /\ stack = << >> /\ ticks # << >> /\ Head(ticks) = "start"
  /\ ticks' = Tail(ticks)
  /\ IF ssl.open THEN ssl' = Handshake(ssl) /\ Cycle(pair, << >>)
     ELSE UNCHANGED <<ssl, pair, stack>>
  /\ UNCHANGED <<Quiet, streams, left>>

\* The tick of _destroy(): 'end' and 'close' of both streams, and the pipe ends the socket.
OnClose ==
  /\ stack = << >> /\ ticks # << >> /\ Head(ticks) = "close"
  /\ ticks' = Tail(ticks)
  /\ closed' = closed + 1
  /\ UNCHANGED <<program, socket, sent, got, writes, pauses, pair, streams, ssl, stack, left>>

\* Data of the peer, in pieces: the pipe calls encrypted.write().
OnSocketData(n) ==
  /\ stack = << >>
  /\ ~socket.paused /\ socket.left # << >> /\ n <= Len(socket.left)
  /\ streams["e"].writable
  /\ socket' = [socket EXCEPT !.left = SubSeq(@, n + 1, Len(@))]
  /\ streams' = [streams EXCEPT !["e"].pending = Append(@, SubSeq(socket.left, 1, n))]
  /\ Cycle([pair EXCEPT !.writeCalled = TRUE], <<[fn |-> "write", at |-> "ret"]>>)
  /\ UNCHANGED <<program, sent, got, writes, pauses, closed, ssl, ticks, left>>

\* write() returns _writeState, and the pipe pauses the socket when it is false.
Written ==
  /\ stack # << >> /\ Top.fn = "write"
  /\ stack' = Below
  /\ socket' = IF streams["e"].writeState THEN socket ELSE [socket EXCEPT !.paused = TRUE]
  /\ UNCHANGED <<program, sent, got, writes, pauses, closed, pair, streams, ssl, ticks, left>>

\* The peer has closed: the pipe calls encrypted.end().
OnSocketEnd ==
  /\ stack = << >>
  /\ program.ends /\ ~socket.paused /\ socket.left = << >> /\ ~socket.ended
  /\ streams["e"].writable
  /\ socket' = [socket EXCEPT !.ended = TRUE]
  /\ streams' = [streams EXCEPT !["e"].pending = Append(@, END_OF_FILE), !["e"].writable = FALSE]
  /\ Cycle(pair, << >>)
  /\ UNCHANGED <<program, sent, got, writes, pauses, closed, ssl, ticks, left>>

\* The socket has written what it held: the pipe resumes the encrypted stream.
OnSocketDrain ==
  /\ stack = << >>
  /\ socket.full
  /\ socket' = [socket EXCEPT !.full = FALSE]
  /\ IF pair.done THEN UNCHANGED <<streams, pair, stack>>
     ELSE /\ streams' = [streams EXCEPT !["e"].writeState = TRUE]
          /\ Cycle(pair, << >>)
  /\ UNCHANGED <<program, sent, got, writes, pauses, closed, ssl, ticks, left>>

Code ==
  \/ CycleStage \/ Return \/ CycleEnd
  \/ PullNothing \/ PullEnd \/ PullDone \/ PullData \/ PullCallback \/ PullDrain
  \/ PushStart \/ PushLoop \/ PushRead \/ PushNothing \/ PushClear \/ PushEncrypted
  \/ Written \/ UserReturns

User == Write \/ End \/ DestroyPair \/ Pause \/ Resume

Events ==
  OnStart \/ OnClose \/ OnSocketEnd \/ OnSocketDrain \/ \E n \in 1..2 : OnSocketData(n)

Next == Code \/ User \/ Events

\* JavaScript runs to its end, ticks and socket events come, and a paused application resumes.
Fairness == WF_vars(Code) /\ SF_vars(Events) /\ SF_vars(Free /\ Resume)

Spec == Init /\ [][Next]_vars /\ Fairness
-----------------------------------------------------------------------------
Healthy == \A i \in 1..Len(program.peer) : program.peer[i] # Bad

(* Whatever listeners call from inside of _cycle(), none of the four is entered twice: *)
(* the application gets the peer's data in the order it was sent and the socket gets   *)
(* what write() was given in the order of the calls, nothing after the end, and the    *)
(* events of _destroy() once.                                                          *)
InOrder ==
  /\ \A i, j \in 1..Len(stack) :
       /\ stack[i].fn \in {"pull", "push"} /\ stack[j].fn = stack[i].fn
       /\ stack[j].side = stack[i].side
       => i = j
  /\ \A i \in 1..Len(got) : got[i] = i
  /\ \A i \in 1..Len(got) : \E j \in 1..Len(program.peer) : program.peer[j] = got[i]
  /\ \E n \in 0..writes : Carries(sent, 0, n)
  /\ \A i, j \in 1..Len(sent) : i < j /\ sent[i] = CloseNotify => sent[j] <= 0
  /\ closed = (IF pair.done /\ \A i \in 1..Len(ticks) : ticks[i] # "close" THEN 1 ELSE 0)
  /\ \A i, j \in 1..Len(ticks) : ticks[i] = "close" /\ ticks[j] = "close" => pair.done /\ i = j

(* A pair that goes because both its streams are done has lost nothing of the side   *)
(* that was open: all data of a peer that closed was emitted, paused or not, and all *)
(* that was written before end() was sent.  A close_notify follows it: end() waits    *)
(* for what was written, so for the handshake, and only an end() of a connection that *)
(* has written nothing can come before OpenSSL has one to send.                       *)
Graceful ==
  left = "done" =>
    /\ socket.ended /\ ~ssl.shut /\ Healthy
         => \A j \in 1..Len(program.peer) :
              program.peer[j] > 0 => \E i \in 1..Len(got) : got[i] = program.peer[j]
    /\ ssl.shut /\ ~socket.ended
         => /\ Carries(sent, 0, writes)
            /\ ssl.notified \/ writes > 0 => \E i \in 1..Len(sent) : sent[i] = CloseNotify

Idle == stack = << >> /\ ~pair.done /\ ticks = << >>

(* When _cycle() has returned to the event loop no lock is left and nothing is left  *)
(* that could move: no data in OpenSSL for a stream that is not paused, no input not *)
(* yet given to OpenSSL, no stream that has ended and is not done.  (What is written  *)
(* by a listener of 'drain' is the exception: its own _cycle() finds the pull locked  *)
(* and has reset _writeCalled.)                                                      *)
Quiescent ==
  Idle =>
    /\ \A st \in Stages : ~pair.lock[st]
    /\ streams["e"].pending = << >>
    /\ pair.established /\ "drain" \notin program.from => streams["c"].pending = << >>
    /\ streams["c"].writeState => ~CanRead(ssl) /\ (streams["c"].destroyAfterPush /\ Healthy => streams["c"].doneFlag)
    /\ streams["e"].writeState /\ streams["e"].writable =>
         ssl.out = << >> /\ (streams["e"].destroyAfterPush => streams["e"].doneFlag)

(* A pair whose socket has ended, or whose application has called end(), is closed,   *)
(* unless there was an error, which the application has to destroy it for.           *)
Closes == (Healthy /\ (socket.ended \/ ssl.shut)) ~> (closed = 1)

(* A write() that returned false is followed by 'drain'.                             *)
DrainFollows == socket.paused ~> (~socket.paused \/ pair.done)

=============================================================================
