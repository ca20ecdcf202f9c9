---------------------------- MODULE FsWriteStream ----------------------------
(***************************************************************************)
(* fs.WriteStream of lib/fs.js: writes, and the open and the close of the   *)
(* file, wait in a queue from which one request at a time goes to the       *)
(* threads of the pool; destroy() sends its close past the queue.           *)
(*                                                                          *)
(* The program writes the numbers 1, 2, ...; a write of the kernel may      *)
(* fail, or take a part only of what it was given (here: nothing of it)     *)
(* without an error.  "stack" is as in FsReadStream.                        *)
(***************************************************************************)
EXTENDS Integers, Sequences, FiniteSets, Functions

CONSTANT
  Programs    \* the programs, see below

\* A program writes to the descriptor "fd" of the options, or opens a file if that is
\* "none".  "uses" says what it does besides: "destroy", it destroys the stream; "again",
\* it ends it more than once.  "faults" says what the kernel does: "error", opens and writes
\* may fail; "short", writes may be short.  "calls" bounds the calls of the program.
WriteAssumption ==
  Programs \subseteq [fd : {"none", "zero", "other"}, uses : SUBSET {"destroy", "again"},
                     faults : SUBSET {"error", "short"}, calls : Nat]

VARIABLES
  ws,       \* the stream
  file,     \* the descriptor's state; what was written; whether used when closed
  reqs,     \* requests at the threads
  stack,    \* what is still to be done
  seen,     \* history: what was accepted, whose callbacks were called, events
  calls,    \* counter for the bound
  program   \* the program that runs

vars == <<ws, file, reqs, stack, seen, calls, program>>

Uses(u) == u \in program.uses

\* A request of the stream's queue: op is "open", "write" or "close"; of destroy(): "destroy".
Request(op, n) == [op |-> op, n |-> n, run |-> FALSE, ok |-> TRUE]

-----------------------------------------------------------------------------
(* The methods, on a stream s, requests R and events E.  flush() may end in *)
(* an event, whose listeners run next: the result has the frames to push.   *)

\* The first test of flush().  A variant sends although a request is under way.
Busy_Never(s) == FALSE
Busy(s) == s.busy

\* A write or a close without a descriptor, after an open that failed: the binding throws,
\* and the stream stays busy.
flush(s, R, E) ==
  IF Busy(s) THEN [s |-> s, R |-> R, E |-> E, frames |-> << >>]
  ELSE IF s.queue = << >>
  THEN IF s.drainable
       THEN [s |-> s, R |-> R, frames |-> <<"user">>,
             E |-> [E EXCEPT !.drains = E.accepted]]
       ELSE [s |-> s, R |-> R, E |-> E, frames |-> << >>]
  ELSE IF s.fd = "none" /\ Head(s.queue).op # "open"
  THEN [s |-> [s EXCEPT !.busy = TRUE, !.queue = Tail(@)], R |-> R, frames |-> << >>,
        E |-> [E EXCEPT !.thrown = TRUE]]
  ELSE [s |-> [s EXCEPT !.busy = TRUE, !.queue = Tail(@)], R |-> R \cup {Head(s.queue)},
        E |-> E, frames |-> << >>]

\* The outcome of a method that ends in flush().
Flushed(s, R, E, rest) ==
  LET f == flush(s, R, E) IN
  ws' = f.s /\ reqs' = f.R /\ seen' = f.E /\ stack' = f.frames \o rest

\* A variant of the queue is a stack.
Push_Front(s, r) == [s EXCEPT !.queue = <<r>> \o @]
Push(s, r) == [s EXCEPT !.queue = Append(@, r)]

Idle == stack = << >>
InUser == stack # << >> /\ Head(stack) = "user"
MayCall == InUser /\ calls < program.calls

-----------------------------------------------------------------------------
(* Calls by the program.                                                    *)

Refuses(s) == ~s.writable

\* write(): the data is queued, and the answer is always false.
Write ==
  /\ MayCall /\ calls' = calls + 1 /\ ~Refuses(ws)
  /\ LET n == seen.accepted + 1 IN
     Flushed(Push([ws EXCEPT !.drainable = TRUE], Request("write", n)), reqs,
             [seen EXCEPT !.accepted = n], stack)
  /\ UNCHANGED file

WriteRefused ==
  /\ MayCall /\ calls' = calls + 1 /\ Refuses(ws)
  /\ seen' = [seen EXCEPT !.errors = TRUE]
  /\ stack' = <<"user">> \o stack
  /\ UNCHANGED <<ws, file, reqs>>

\* end() and destroySoon(): the close is queued behind the writes.
End ==
  /\ MayCall /\ calls' = calls + 1 /\ (Uses("again") \/ ~seen.ended)
  /\ Flushed(Push([ws EXCEPT !.writable = FALSE], Request("close", 0)), reqs,
             [seen EXCEPT !.ended = TRUE], stack)
  /\ UNCHANGED file

\* destroy(): closes at once, or when 'open' comes.
Destroy ==
  /\ MayCall /\ calls' = calls + 1 /\ Uses("destroy") /\ ~seen.destroyed
  /\ IF ws.fd = "other"
     THEN reqs' = reqs \cup {Request("destroy", 0)} /\ ws' = [ws EXCEPT !.writable = FALSE]
     ELSE ws' = [ws EXCEPT !.writable = FALSE, !.onopen = TRUE] /\ UNCHANGED reqs
  /\ seen' = [seen EXCEPT !.destroyed = TRUE]
  /\ UNCHANGED <<file, stack>>

Return ==
  /\ InUser /\ stack' = Tail(stack)
  /\ UNCHANGED <<ws, file, reqs, seen, calls>>

-----------------------------------------------------------------------------
(* The callbacks of flush() and of destroy().                               *)

Done(r, ops) == Idle /\ r \in reqs /\ r.op \in ops /\ r.run
Idled(s) == [s EXCEPT !.busy = FALSE]

\* An error: the stream is not writable, and nothing more is sent until someone flushes.
\* A variant stays busy.
Failed_Busy(s) == [s EXCEPT !.writable = FALSE]
Failed(s) == [Idled(s) EXCEPT !.writable = FALSE]
OnError ==
  /\ \E r \in reqs : Done(r, {"open", "write", "close"}) /\ ~r.ok /\ reqs' = reqs \ {r}
  /\ ws' = Failed(ws) /\ seen' = [seen EXCEPT !.errors = TRUE] /\ stack' = <<"user">>
  /\ UNCHANGED <<file, calls>>

\* Flushing stops after close.
OnClose ==
  /\ \E r \in reqs : Done(r, {"close"}) /\ r.ok /\ reqs' = reqs \ {r}
  /\ ws' = Idled(ws) /\ seen' = [seen EXCEPT !.closed = TRUE] /\ stack' = <<"user">>
  /\ UNCHANGED <<file, calls>>

\* The callback of open(): 'open' runs the listeners, destroy()'s close among them.
OnOpen ==
  /\ \E r \in reqs :
       /\ Done(r, {"open"}) /\ r.ok
       /\ reqs' = (reqs \ {r}) \cup (IF ws.onopen THEN {Request("destroy", 0)} ELSE {})
  /\ ws' = [Idled(ws) EXCEPT !.fd = "other"]
  /\ stack' = <<"user", "flush">>
  /\ UNCHANGED <<file, seen, calls>>

\* The callback of a write, whose own callback runs before flush().
OnWritten ==
  /\ \E r \in reqs :
       /\ Done(r, {"write"}) /\ r.ok /\ reqs' = reqs \ {r}
       /\ seen' = [seen EXCEPT !.called = Append(@, r.n)]
  /\ ws' = Idled(ws) /\ stack' = <<"user", "flush">>
  /\ UNCHANGED <<file, calls>>

\* The flush() at the end of the callback.  A variant forgets it.
FlushOn_Not ==
  /\ stack # << >> /\ Head(stack) = "flush" /\ stack' = Tail(stack)
  /\ UNCHANGED <<ws, reqs, seen, file, calls>>
FlushOn ==
  /\ stack # << >> /\ Head(stack) = "flush"
  /\ Flushed(ws, reqs, seen, Tail(stack))
  /\ UNCHANGED <<file, calls>>

OnDestroyed ==
  /\ \E r \in reqs :
       /\ Done(r, {"destroy"}) /\ reqs' = reqs \ {r}
       /\ seen' = IF r.ok THEN [seen EXCEPT !.closed = TRUE] ELSE [seen EXCEPT !.errors = TRUE]
  /\ stack' = <<"user">>
  /\ UNCHANGED <<ws, file, calls>>

\* The program runs for a reason of its own.
OnOther ==
  /\ Idle /\ calls < program.calls /\ stack' = <<"user">>
  /\ UNCHANGED <<ws, file, reqs, seen, calls>>

-----------------------------------------------------------------------------
(* The threads.                                                             *)

Runs(r, ok) == reqs' = (reqs \ {r}) \cup {[r EXCEPT !.run = TRUE, !.ok = ok]}

ThreadOpens ==
  \E r \in reqs, ok \in {TRUE} \cup (IF "error" \in program.faults THEN {FALSE} ELSE {}) :
    /\ r.op = "open" /\ ~r.run /\ Runs(r, ok)
    /\ file' = IF ok THEN [file EXCEPT !.state = "open"] ELSE file
    /\ UNCHANGED <<ws, stack, seen, calls>>

\* A write: whole, short or failed; on a closed descriptor it fails.
ThreadWrites ==
  \E r \in reqs, result \in {"whole"} \cup program.faults :
    /\ r.op = "write" /\ ~r.run
    /\ Runs(r, file.state = "open" /\ result # "error")
    /\ file' = IF file.state # "open" THEN [file EXCEPT !.again = @ \/ file.state = "closed"]
               ELSE IF result = "whole" THEN [file EXCEPT !.content = Append(@, r.n)] ELSE file
    /\ UNCHANGED <<ws, stack, seen, calls>>

ThreadCloses ==
  \E r \in reqs :
    /\ r.op \in {"close", "destroy"} /\ ~r.run
    /\ Runs(r, file.state = "open")
    /\ file' = IF file.state = "open" THEN [file EXCEPT !.state = "closed"]
               ELSE [file EXCEPT !.again = @ \/ file.state = "closed"]
    /\ UNCHANGED <<ws, stack, seen, calls>>

-----------------------------------------------------------------------------
\* The constructor queues the open, and sends it.
Init ==
  /\ program \in Programs
  /\ ws = [fd |-> program.fd, writable |-> TRUE, busy |-> program.fd = "none", drainable |-> FALSE,
           queue |-> << >>, onopen |-> FALSE]
  /\ reqs = IF program.fd = "none" THEN {Request("open", 0)} ELSE {}
  /\ file = [state |-> IF program.fd = "none" THEN "none" ELSE "open", content |-> << >>,
             again |-> FALSE]
  /\ stack = <<"user">> /\ calls = 0
  /\ seen = [accepted |-> 0, called |-> << >>, drains |-> 0, ended |-> FALSE, destroyed |-> FALSE,
             closed |-> FALSE, errors |-> FALSE, thrown |-> FALSE]

Code == Return \/ FlushOn
Callbacks == OnError \/ OnClose \/ OnOpen \/ OnWritten \/ OnDestroyed
Threads == ThreadOpens \/ ThreadWrites \/ ThreadCloses

Next ==
  /\ Write \/ WriteRefused \/ End \/ Destroy \/ Code \/ Callbacks \/ OnOther \/ Threads
  /\ UNCHANGED program

Spec == Init /\ [][Next]_vars

\* Code that runs finishes, threads run requests, and the loop calls back; the program may do
\* something in every turn of the loop.
Fair(A) == A /\ UNCHANGED program

FairSpec ==
  Spec /\ WF_vars(Fair(Code)) /\ SF_vars(Fair(Callbacks)) /\ WF_vars(Fair(Threads))

-----------------------------------------------------------------------------
\* At most one request of the queue is at the threads, exactly when the stream is busy.
TypeOK ==
  /\ ws.writable \in BOOLEAN /\ ws.drainable \in BOOLEAN
  /\ ws.busy = (seen.thrown \/ \E r \in reqs : r.op # "destroy")
  /\ seen.thrown => ws.fd = "none" /\ seen.errors
  /\ Cardinality({r \in reqs : r.op # "destroy"}) <= 1

Upto(n) == [k \in 1..n |-> k]
Increasing(q) == \A k \in 2..Len(q) : q[k - 1] < q[k]
NoFaults == program.faults = {}

\* The file is what was accepted, in order and without repetition; there is no gap unless
\* writes fail.  Callbacks of writes are called once, in the order of the writes, and for
\* what is in the file, unless a write was short.
ContentInOrder ==
  /\ Increasing(file.content) /\ Increasing(seen.called)
  /\ NoFaults => file.content = Upto(Len(file.content))
  /\ "short" \notin program.faults => Range(seen.called) \subseteq Range(file.content)

\* At 'drain' everything that was accepted by then has been written, and at the close
\* everything.  No request is run on the descriptor after it was closed, whatever fails,
\* if the program ends its stream once.
ClosedWhole ==
  /\ NoFaults /\ ~Uses("destroy") =>
       /\ seen.drains <= Len(file.content)
       /\ file.state = "closed" => Len(file.content) = seen.accepted
  /\ program.uses = {} => ~file.again

\* What was accepted is written, in the end (the bound on calls lets the queue run empty),
\* and the file of a stream that was ended is closed.
Written ==
  NoFaults => /\ Uses("destroy") \/ Len(file.content) = seen.accepted
              /\ seen.ended => file.state = "closed"
=============================================================================
