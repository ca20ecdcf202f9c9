---------------------------- MODULE FsReadStream ----------------------------
(***************************************************************************)
(* fs.ReadStream of lib/fs.js: a file read chunk by chunk by the threads of *)
(* the pool, by a program that may pause, resume and destroy the stream.    *)
(*                                                                          *)
(* The file is the sequence of the numbers 1, 2, ..., len.   A request   *)
(* is run by a thread at some time and called back later; two requests may  *)
(* be run and called back in any order.  "stack" holds what JavaScript      *)
(* still has to do: "user" is a listener, the rest continues a method.      *)
(***************************************************************************)
EXTENDS Integers, Sequences, FiniteSets

CONSTANT
  Programs    \* the programs, see below

\* A program reads a file of "len" units, with "range" = <<start, end>> of the options or
\* << >>, on the descriptor "fd" of the options ("none" if there is none); one read asks for
\* "chunk" at most: bufferSize, or what is left of the pool.  "uses" says what it does:
\* "pause", it pauses and resumes at any time; "destroy", it destroys the stream at any
\* time.  Without "pause" it keeps to what Stream.pipe does: it pauses from 'data'
\* listeners, and resumes from elsewhere.  "calls" bounds its calls.
ReadAssumption ==
  \A p \in Programs :
    /\ p.len \in Nat /\ p.chunk \in Nat \ {0} /\ p.calls \in Nat
    /\ p.fd \in {"none", "zero", "other"} /\ p.uses \subseteq {"pause", "destroy"}
    /\ p.range = << >> \/ (Len(p.range) = 2 /\ p.range[1] <= p.range[2])

VARIABLES
  rs,       \* the stream
  file,     \* the descriptor: "opening", "open", "closed"; its position; whether used when closed
  reqs,     \* requests: reads and closes
  stack,    \* what is still to be done
  data,     \* history: units emitted
  seen,     \* history: 'end', 'error' and 'close' events
  calls,    \* counter for the bound and the numbering of requests
  program   \* the program that runs

vars == <<rs, file, reqs, stack, data, seen, calls, program>>

Min2(a, b) == IF a <= b THEN a ELSE b
Range == program.range
Ranged == Range # << >>
Uses(u) == u \in program.uses

-----------------------------------------------------------------------------
(* Requests.                                                                *)

\* A request has a number of its own.
Ask(R, r) == R \cup {r}
ReadRequest(n, pos, len) == [op |-> "read", n |-> n, pos |-> pos, len |-> len, run |-> FALSE,
                             ok |-> TRUE, got |-> << >>]
CloseRequest(n) == [op |-> "close", n |-> n, pos |-> 0, len |-> 0, run |-> FALSE, ok |-> TRUE,
                    got |-> << >>]

-----------------------------------------------------------------------------
(* The methods.                                                             *)

\* A variant of the test at the beginning of _read().
MayRead_Paused(s) == s.readable
MayRead(s) == s.readable /\ ~s.paused

\* What _read() asks for: no more than is left of the range.
toRead(s) == IF Ranged THEN Min2(Range[2] - s.pos + 1, program.chunk) ELSE program.chunk

\* The position moves by what is asked for.  A variant leaves it.
Advance_Not(s) == s
Advance(s) == IF Ranged THEN [s EXCEPT !.pos = @ + toRead(s)] ELSE s

\* _read(): at most one more request.
Read ==
  IF MayRead(rs)
  THEN /\ reqs' = Ask(reqs, ReadRequest(seen.requests, rs.pos, toRead(rs)))
       /\ rs' = Advance(rs)
       /\ seen' = [seen EXCEPT !.requests = @ + 1]
  ELSE UNCHANGED <<reqs, rs, seen>>

\* destroy(): close now, or when 'open' comes.  The test is "if (this.fd)", which descriptor
\* 0 fails.
Destroy(s, se) ==
  IF s.fd = "other"
  THEN /\ rs' = [s EXCEPT !.readable = FALSE]
       /\ reqs' = Ask(reqs, CloseRequest(se.requests))
       /\ seen' = [se EXCEPT !.requests = @ + 1]
  ELSE /\ rs' = [s EXCEPT !.readable = FALSE, !.onopen = @ + 1]
       /\ reqs' = reqs /\ seen' = se

Emit(d) == data' = data \o d

\* An event of the stream other than 'data'.
Event(e) == [seen EXCEPT ![e] = @ + 1]

Top(frame) == stack # << >> /\ Head(stack) = frame
Idle == stack = << >>

-----------------------------------------------------------------------------
(* Calls by the program.                                                    *)

\* A stream on a given descriptor waits for its first resume().
Unstarted == program.fd # "none" /\ seen.requests = 0

InUser == stack # << >> /\ Head(stack) \in {"user", "onData"} /\ calls < program.calls

Pause ==
  /\ InUser /\ calls' = calls + 1
  /\ Uses("pause") \/ Head(stack) = "onData"
  /\ rs' = [rs EXCEPT !.paused = TRUE]
  /\ UNCHANGED <<file, reqs, stack, data, seen>>

\* resume(): emit what was read while paused, then go on.
Resume ==
  /\ InUser /\ calls' = calls + 1
  /\ rs.paused \/ Unstarted
  /\ Uses("pause") \/ Head(stack) = "user"
  /\ rs' = [rs EXCEPT !.paused = FALSE]
  /\ IF rs.buffer = << >>
     THEN stack' = <<"resume">> \o stack /\ UNCHANGED data
     ELSE Emit(rs.buffer) /\ stack' = <<"onData", "unbuffer", "resume">> \o stack
  /\ UNCHANGED <<file, reqs, seen>>

DestroyStream ==
  /\ InUser /\ calls' = calls + 1 /\ Uses("destroy")
  /\ Destroy(rs, seen)
  /\ UNCHANGED <<file, stack, data>>

Return ==
  /\ stack # << >> /\ Head(stack) \in {"user", "onData"}
  /\ stack' = Tail(stack)
  /\ UNCHANGED <<rs, file, reqs, data, seen, calls>>

-----------------------------------------------------------------------------
(* The rest of a method.                                                    *)

Unbuffer ==
  /\ Top("unbuffer") /\ stack' = Tail(stack)
  /\ rs' = [rs EXCEPT !.buffer = << >>]
  /\ UNCHANGED <<file, reqs, data, seen, calls>>

\* resume() after the buffer, if the file is open.
Resumed ==
  /\ Top("resume") /\ stack' = Tail(stack)
  /\ IF rs.fd # "none" THEN Read ELSE UNCHANGED <<rs, reqs, seen>>
  /\ UNCHANGED <<file, data, calls>>

\* After 'open' or 'data'.  A variant forgets to read on.
ReadOn_Not ==
  /\ Top("read") /\ stack' = Tail(stack)
  /\ UNCHANGED <<rs, reqs, seen, file, data, calls>>
ReadOn ==
  /\ Top("read") /\ stack' = Tail(stack)
  /\ Read
  /\ UNCHANGED <<file, data, calls>>

\* After 'end'.
DestroyOn ==
  /\ Top("destroy") /\ stack' = Tail(stack)
  /\ Destroy(rs, seen)
  /\ UNCHANGED <<file, data, calls>>

\* After 'error'.
Unreadable ==
  /\ Top("unreadable") /\ stack' = Tail(stack)
  /\ rs' = [rs EXCEPT !.readable = FALSE]
  /\ UNCHANGED <<file, reqs, data, seen, calls>>

-----------------------------------------------------------------------------
(* Callbacks.                                                               *)

\* The callback of open(): the listeners that destroy() has added close the file.
OnOpen ==
  /\ Idle /\ file.state = "opening"
  /\ file' = [file EXCEPT !.state = "open"]
  /\ rs' = [rs EXCEPT !.fd = "other", !.onopen = 0]
  /\ reqs' = reqs \cup {CloseRequest(seen.requests + k) : k \in 0..(rs.onopen - 1)}
  /\ seen' = [seen EXCEPT !.requests = @ + rs.onopen]
  /\ stack' = <<"user", "read">>
  /\ UNCHANGED <<data, calls>>

OnOpenError ==
  /\ Idle /\ file.state = "opening"
  /\ file' = [file EXCEPT !.state = "closed"]
  /\ seen' = Event("errors")
  /\ stack' = <<"user", "unreadable">>
  /\ UNCHANGED <<rs, reqs, data, calls>>

Done(r, op) == Idle /\ r \in reqs /\ r.op = op /\ r.run /\ reqs' = reqs \ {r}

\* The tests of afterRead().  A variant does not look whether the stream is paused.
AtEnd(r) == r.got = << >>
Buffers_Never(s) == FALSE
Buffers(s) == s.paused

\* afterRead() with an error, at the end of the file, or with data.
AfterReadError ==
  /\ \E r \in reqs : Done(r, "read") /\ ~r.ok
  /\ seen' = Event("errors") /\ stack' = <<"user", "unreadable">>
  /\ UNCHANGED <<rs, file, data, calls>>

AfterReadEnd ==
  /\ \E r \in reqs : Done(r, "read") /\ r.ok /\ AtEnd(r)
  /\ seen' = Event("ends") /\ stack' = <<"user", "destroy">>
  /\ UNCHANGED <<rs, file, data, calls>>

AfterRead ==
  /\ \E r \in reqs :
       /\ Done(r, "read") /\ r.ok /\ ~AtEnd(r)
       /\ IF Buffers(rs)
          THEN rs' = [rs EXCEPT !.buffer = r.got] /\ UNCHANGED <<data, stack>>
          ELSE /\ UNCHANGED rs
               /\ IF ~rs.readable THEN UNCHANGED <<data, stack>>
                  ELSE Emit(r.got) /\ stack' = <<"onData", "read">>
  /\ UNCHANGED <<file, seen, calls>>

AfterClose ==
  /\ \E r \in reqs : Done(r, "close") /\ seen' = [seen EXCEPT ![IF r.ok THEN "closes" ELSE "errors"] = @ + 1]
  /\ stack' = <<"user">>
  /\ UNCHANGED <<rs, file, data, calls>>

\* The program runs for a reason of its own.
OnOther ==
  /\ Idle /\ calls < program.calls /\ stack' = <<"user">>
  /\ UNCHANGED <<rs, file, reqs, data, seen, calls>>

-----------------------------------------------------------------------------
(* The threads.                                                             *)

Units(from, n) == [k \in 1..n |-> from + k]

\* read(2), or pread(2) in a range: all that is there, up to what is asked for.
ThreadReads ==
  /\ \E r \in reqs :
       LET from == IF Ranged THEN r.pos ELSE file.pos
           n == IF from >= program.len THEN 0 ELSE Min2(r.len, program.len - from)
       IN /\ r.op = "read" /\ ~r.run
          /\ reqs' = (reqs \ {r}) \cup
               {[r EXCEPT !.run = TRUE, !.ok = (file.state = "open"),
                          !.got = IF file.state = "open" THEN Units(from, n) ELSE << >>]}
          /\ file' = IF file.state # "open" THEN [file EXCEPT !.again = TRUE]
                     ELSE IF Ranged THEN file ELSE [file EXCEPT !.pos = @ + n]
  /\ UNCHANGED <<rs, stack, data, seen, calls>>

ThreadCloses ==
  /\ \E r \in reqs :
       /\ r.op = "close" /\ ~r.run
       /\ reqs' = (reqs \ {r}) \cup {[r EXCEPT !.run = TRUE, !.ok = (file.state = "open")]}
  /\ file' = [file EXCEPT !.state = "closed", !.again = @ \/ file.state = "closed"]
  /\ UNCHANGED <<rs, stack, data, seen, calls>>

-----------------------------------------------------------------------------
\* A stream on a given descriptor reads nothing before resume().
Init ==
  /\ program \in Programs
  /\ rs = [fd |-> program.fd, readable |-> TRUE, paused |-> FALSE, buffer |-> << >>,
           pos |-> IF Ranged THEN Range[1] ELSE 0, onopen |-> 0]
  /\ file = [state |-> IF program.fd # "none" THEN "open" ELSE "opening", pos |-> 0, again |-> FALSE]
  /\ reqs = {} /\ stack = <<"user">> /\ data = << >> /\ calls = 0
  /\ seen = [ends |-> 0, errors |-> 0, closes |-> 0, requests |-> 0]

Code == Return \/ Unbuffer \/ Resumed \/ ReadOn \/ DestroyOn \/ Unreadable

Callbacks ==
  \/ OnOpen \/ OnOpenError \/ AfterReadError \/ AfterReadEnd \/ AfterRead \/ AfterClose

Threads == ThreadReads \/ ThreadCloses

Next ==
  /\ Pause \/ Resume \/ DestroyStream \/ Code \/ Callbacks \/ OnOther \/ Threads
  /\ UNCHANGED program

Spec == Init /\ [][Next]_vars

\* Code that runs finishes, threads run requests and the loop calls back.
Fair(A) == A /\ UNCHANGED program

FairSpec ==
  Spec /\ WF_vars(Fair(Code)) /\ SF_vars(Fair(Callbacks)) /\ WF_vars(Fair(Threads))

-----------------------------------------------------------------------------
Piped == program.uses = {}

\* At most one read is in flight, unless the program resumes at any time, and no request
\* is run on the descriptor after it was closed, when its number may belong to another
\* file, unless the program destroys the stream as well.
TypeOK ==
  /\ rs.fd \in {"none", "zero", "other"} /\ rs.readable \in BOOLEAN /\ rs.paused \in BOOLEAN
  /\ rs.buffer \in Seq(1..program.len) /\ data \in Seq(1..program.len)
  /\ file.state \in {"opening", "open", "closed"} /\ file.pos \in 0..program.len
  /\ IF Ranged THEN rs.pos \in Range[1]..(Range[2] + 1) ELSE rs.pos = 0
  /\ ~Uses("pause") => Cardinality({r \in reqs : r.op = "read"}) <= 1
  /\ Piped => ~file.again

First == IF Ranged THEN Range[1] ELSE 0
Wanted == IF First >= program.len THEN 0
          ELSE (IF Ranged THEN Min2(Range[2] + 1, program.len) ELSE program.len) - First

Ordered == \A k \in 1..Len(data) : data[k] = First + k

\* What is emitted is the file, from its beginning or the start of the range, in order,
\* without gap or repetition, also if the stream is destroyed; and 'end' comes once, after
\* all of it.
DataInOrder ==
  /\ ~Uses("pause") => Ordered
  /\ Piped => seen.ends <= 1 /\ (seen.ends = 1 => Len(data) = Wanted)

\* No 'data' event while the stream is paused, whatever the program does.
PausedQuiet == [][data' # data => ~rs'.paused]_vars

\* A stream that is left alone reads on to its end.  Once it has ended its descriptor is
\* closed; descriptor 0, which destroy() takes for none, is not.
Ended == seen.ends > 0 \/ seen.errors > 0
Waiting == rs.paused \/ Unstarted \/ ~rs.readable
ToClose == seen.ends > 0 /\ rs.fd # "zero"
Closed == file.state = "closed" /\ seen.closes > 0
Completes == <>(Ended \/ []Waiting) /\ (ToClose ~> Closed)
=============================================================================
