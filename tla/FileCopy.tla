------------------------------ MODULE FileCopy ------------------------------
(***************************************************************************)
(* A file copied with fs.createReadStream(a).pipe(fs.createWriteStream(b)): *)
(* the ReadStream and the WriteStreams of lib/fs.js tied together by        *)
(* Stream.prototype.pipe of lib/stream.js, over the threads of the pool.    *)
(* The only other listeners are for 'error', and do nothing, so that every   *)
(* callback is one step: its listeners write, pause, resume and end before   *)
(* it returns.                                                              *)
(*                                                                          *)
(* The file is the sequence 1, 2, ..., len of units.  The copy implements   *)
(* the abstract streams of module StreamPipe.                               *)
(***************************************************************************)
EXTENDS Integers, Sequences, FiniteSets

CONSTANT Programs   \* the copies, see below

\* A copy of "len" units goes to every stream of "dests", read by "chunk" units.  "faults":
\* "open", the file to read cannot be opened; "read" and "write", these may fail.
CopyAssumption ==
  \A p \in Programs :
    /\ p.len \in Nat /\ p.chunk \in Nat \ {0}
    /\ IsFiniteSet(p.dests) /\ p.faults \subseteq {"open", "read", "write"}

VARIABLES
  rs,       \* the ReadStream; "n" numbers its requests
  file,     \* the descriptor it reads: its state and position
  reads,    \* its requests at the threads
  ws,       \* the WriteStreams, each with its request at the threads
  disk,     \* the files they write
  sent,     \* history: the chunks emitted, and whether 'end' was
  program

vars == <<rs, file, reads, ws, disk, sent, program>>

Dests == program.dests
Fault(f) == f \in program.faults
Min2(a, b) == IF a <= b THEN a ELSE b

-----------------------------------------------------------------------------
(* The WriteStreams.  A request is a write of a chunk, or an open or close. *)

Request(op, data) == [op |-> op, data |-> data, run |-> FALSE, ok |-> TRUE]
None == Request("none", << >>)

\* flush(), as far as it emits nothing.
flush(w) ==
  IF w.busy \/ w.queue = << >> THEN w
  ELSE [w EXCEPT !.busy = TRUE, !.at = Head(w.queue), !.queue = Tail(@)]

write(w, data) ==
  flush([w EXCEPT !.drainable = TRUE, !.queue = Append(@, Request("write", data))])

\* A variant of end() leaves the stream writable.
end_Writable(w) == flush([w EXCEPT !.queue = Append(@, Request("close", << >>))])
end(w) == flush([w EXCEPT !.writable = FALSE, !.queue = Append(@, Request("close", << >>))])

-----------------------------------------------------------------------------
(* The ReadStream and the listeners of pipe().                              *)

\* _read(): one more request.
AskRead(r, R) ==
  IF r.readable /\ ~r.paused /\ r.fd
  THEN [r |-> [r EXCEPT !.n = @ + 1],
        R |-> R \cup {[n |-> r.n, run |-> FALSE, ok |-> TRUE, got |-> << >>]}]
  ELSE [r |-> r, R |-> R]

\* A variant of ondata() that does not pause the source.
Paused_Not(r, W) == r
\* write() always answers false.
Paused(r, W) == [r EXCEPT !.paused = @ \/ \E d \in Dests : W[d].listens /\ W[d].writable]

\* ondata() of every pipe.
Ondata(r, W, data) ==
  [r |-> Paused(r, W),
   W |-> [d \in Dests |-> IF W[d].listens /\ W[d].writable THEN write(W[d], data) ELSE W[d]]]

Emitted(data) == [sent EXCEPT !.chunks = Append(@, data)]

\* resume(): what was read while the stream was paused, then _read().
Resume(r, W) ==
  LET s == [r EXCEPT !.paused = FALSE]
      e == IF r.buffer = << >> THEN [r |-> s, W |-> W]
           ELSE LET o == Ondata(s, W, r.buffer)
                IN [o EXCEPT !.r.buffer = << >>]
      a == AskRead(e.r, reads)
  IN /\ rs' = a.r /\ reads' = a.R /\ ws' = e.W
     /\ sent' = IF r.buffer = << >> THEN sent ELSE Emitted(r.buffer)

-----------------------------------------------------------------------------
(* Callbacks of the ReadStream.                                             *)

OnOpen ==
  /\ file.state = "opening"
  /\ \/ /\ LET a == AskRead([rs EXCEPT !.fd = TRUE], reads) IN rs' = a.r /\ reads' = a.R
        /\ file' = [file EXCEPT !.state = "open"]
     \/ /\ Fault("open")
        /\ rs' = [rs EXCEPT !.readable = FALSE] /\ file' = [file EXCEPT !.state = "closed"]
        /\ UNCHANGED reads
  /\ UNCHANGED <<ws, disk, sent>>

Done(r) == r \in reads /\ r.run

\* afterRead(): an error, or the end, or data.
AfterReadError ==
  /\ \E r \in reads : Done(r) /\ ~r.ok /\ reads' = reads \ {r}
  /\ rs' = [rs EXCEPT !.readable = FALSE]
  /\ UNCHANGED <<file, ws, disk, sent>>

\* onend() of every pipe, then destroy() of the stream.
AfterReadEnd ==
  /\ \E r \in reads : Done(r) /\ r.ok /\ r.got = << >> /\ reads' = reads \ {r}
  /\ ws' = [d \in Dests |-> IF ws[d].listens THEN end(ws[d]) ELSE ws[d]]
  /\ rs' = [rs EXCEPT !.readable = FALSE]
  /\ file' = [file EXCEPT !.state = "closing"]
  /\ sent' = [sent EXCEPT !.ended = TRUE]
  /\ UNCHANGED disk

AfterRead ==
  /\ \E r \in reads :
       /\ Done(r) /\ r.ok /\ r.got # << >>
       /\ IF rs.paused \/ ~rs.readable
          THEN /\ rs' = IF rs.paused THEN [rs EXCEPT !.buffer = r.got] ELSE rs
               /\ reads' = reads \ {r} /\ UNCHANGED <<ws, sent>>
          ELSE LET o == Ondata(rs, ws, r.got)
                   a == AskRead(o.r, reads \ {r})
               IN rs' = a.r /\ reads' = a.R /\ ws' = o.W /\ sent' = Emitted(r.got)
  /\ UNCHANGED <<file, disk>>

-----------------------------------------------------------------------------
(* Callbacks of a WriteStream.                                              *)

Idled(w) == [w EXCEPT !.busy = FALSE, !.at = None]
Returns(d, op) == ws[d].at.op = op /\ ws[d].at.run

OnWriteOpen(d) ==
  /\ Returns(d, "open")
  /\ ws' = [ws EXCEPT ![d] = flush(Idled(@))]
  /\ UNCHANGED <<rs, file, reads, disk, sent>>

\* A variant of ondrain() that does nothing.
Drained_Not(r, W) == rs' = r /\ ws' = W /\ UNCHANGED <<reads, sent>>
\* ondrain()
Drained(r, W) ==
  IF r.readable THEN Resume(r, W) ELSE rs' = r /\ ws' = W /\ UNCHANGED <<reads, sent>>

\* flush() sends what is next in the queue, or emits 'drain'.
OnWritten(d) ==
  /\ Returns(d, "write") /\ ws[d].at.ok
  /\ LET w == Idled(ws[d])
     IN IF w.queue # << >>
        THEN ws' = [ws EXCEPT ![d] = flush(w)] /\ UNCHANGED <<rs, reads, sent>>
        ELSE Drained(rs, [ws EXCEPT ![d] = w])
  /\ UNCHANGED <<file, disk>>

OnWriteError(d) ==
  /\ Returns(d, "write") /\ ~ws[d].at.ok
  /\ ws' = [ws EXCEPT ![d] = [Idled(@) EXCEPT !.writable = FALSE]]
  /\ UNCHANGED <<rs, file, reads, disk, sent>>

\* 'close' removes the listeners of the pipe.
OnWriteClose(d) ==
  /\ Returns(d, "close")
  /\ ws' = [ws EXCEPT ![d] = [Idled(@) EXCEPT !.listens = FALSE]]
  /\ UNCHANGED <<rs, file, reads, disk, sent>>

-----------------------------------------------------------------------------
(* The threads.                                                             *)

ThreadReads ==
  \E r \in reads, ok \in {TRUE} \cup (IF Fault("read") THEN {FALSE} ELSE {}) :
    LET n == Min2(program.chunk, program.len - file.pos)
        fine == ok /\ file.state = "open"
    IN /\ ~r.run
       /\ reads' = (reads \ {r}) \cup
            {[r EXCEPT !.run = TRUE, !.ok = fine,
                       !.got = IF fine THEN [k \in 1..n |-> file.pos + k] ELSE << >>]}
       /\ file' = IF fine THEN [file EXCEPT !.pos = @ + n] ELSE file
       /\ UNCHANGED <<rs, ws, disk, sent>>

ThreadClosesSource ==
  /\ file.state = "closing" /\ file' = [file EXCEPT !.state = "closed"]
  /\ UNCHANGED <<rs, reads, ws, disk, sent>>

Runs(d, ok) == ws' = [ws EXCEPT ![d].at.run = TRUE, ![d].at.ok = ok]

ThreadWrites(d) ==
  \E ok \in {TRUE} \cup (IF Fault("write") /\ ws[d].at.op = "write" THEN {FALSE} ELSE {}) :
    /\ ws[d].at.op # "none" /\ ~ws[d].at.run /\ Runs(d, ok)
    /\ disk' = IF ~ok THEN disk
               ELSE [disk EXCEPT ![d].content = @ \o ws[d].at.data,
                                 ![d].closed = @ \/ ws[d].at.op = "close"]
    /\ UNCHANGED <<rs, file, reads, sent>>

-----------------------------------------------------------------------------
\* createReadStream() and createWriteStream() have asked for their opens; then pipe().
Init ==
  /\ program \in Programs
  /\ rs = [fd |-> FALSE, readable |-> TRUE, paused |-> FALSE, buffer |-> << >>, n |-> 0]
  /\ file = [state |-> "opening", pos |-> 0]
  /\ reads = {}
  /\ ws = [d \in Dests |-> [writable |-> TRUE, busy |-> TRUE, drainable |-> FALSE,
                            queue |-> << >>, at |-> Request("open", << >>), listens |-> TRUE]]
  /\ disk = [d \in Dests |-> [content |-> << >>, closed |-> FALSE]]
  /\ sent = [chunks |-> << >>, ended |-> FALSE]

Callbacks ==
  \/ OnOpen \/ AfterReadError \/ AfterReadEnd \/ AfterRead
  \/ \E d \in Dests : OnWriteOpen(d) \/ OnWritten(d) \/ OnWriteError(d) \/ OnWriteClose(d)

Threads == ThreadReads \/ ThreadClosesSource \/ \E d \in Dests : ThreadWrites(d)

Next == (Callbacks \/ Threads) /\ UNCHANGED program

Spec == Init /\ [][Next]_vars

\* Threads run requests and the loop calls back.
FairSpec == Spec /\ WF_vars(Callbacks /\ UNCHANGED program) /\ WF_vars(Threads /\ UNCHANGED program)

-----------------------------------------------------------------------------
Upto(n) == [k \in 1..n |-> k]
Source == Upto(program.len)
One == Cardinality(Dests) = 1

Copies ==
  \A d \in Dests :
    /\ Len(disk[d].content) <= program.len /\ disk[d].content = Upto(Len(disk[d].content))
    /\ disk[d].closed /\ program.faults = {} => disk[d].content = Source

\* A file piped to one stream is copied: what is on the disk is its beginning, also after
\* an error, and all of it when the copy is closed.  The two streams are in sync: there is
\* never more than one chunk on its way, or one read.
CopyInOrder ==
  One =>
    /\ Copies
    /\ Cardinality(reads) <= 1
    /\ \A d \in Dests : Len(ws[d].queue) <= 1 /\ (reads # {} => ws[d].queue = << >>)

\* What streams.markdown says of pipe(), for any number of destinations: "The destination
\* and source streams are kept in sync by pausing and resuming as necessary."  Every file
\* is a copy.
InSync == Copies

\* A copy without faults gets done, and both files are closed.
AllClosed ==
  One /\ program.faults = {} => file.state = "closed" /\ \A d \in Dests : disk[d].closed

-----------------------------------------------------------------------------
(* The abstract streams.  A stream that has failed is closed; what a chunk  *)
(* is, its number, is all that they know of it.                             *)

Failed(d) == ~ws[d].writable /\ ~sent.ended
Gone(d) == ~ws[d].listens \/ Failed(d)
Full(d) ==
  Failed(d) \/ ws[d].at.op = "write" \/ \E i \in DOMAIN ws[d].queue : ws[d].queue[i].op = "write"

AbstractProgram(p) ==
  [pipes |-> [k \in 1..Cardinality(p.dests) |->
                [from |-> "file", to |-> CHOOSE d \in p.dests : TRUE, end |-> TRUE]],
   chunks |-> (p.len + p.chunk - 1) \div p.chunk,
   closing |-> p.dests]

Pipe == INSTANCE StreamPipe WITH
  Programs <- {AbstractProgram(p) : p \in Programs},
  src <- [f \in {"file"} |-> [readable |-> ~sent.ended, paused |-> rs.paused,
                              sent |-> Len(sent.chunks), ended |-> sent.ended]],
  dst <- [d \in Dests |-> [writable |-> ws[d].writable, full |-> Full(d), waiting |-> Full(d),
                           paused |-> FALSE, closed |-> Gone(d),
                           got |-> [k \in 1..Cardinality(Dests) |-> Upto(Len(sent.chunks))]]],
  on <- [e \in {"data", "drain", "end"} |->
           {k \in 1..Cardinality(Dests) : ~Gone(CHOOSE d \in Dests : TRUE)}],
  thrown <- FALSE,
  overflown <- {},
  program <- AbstractProgram(program)

\* With one destination the streams of lib/fs.js are streams as pipe() expects them: every
\* callback is a step of StreamPipe, data, 'end', 'drain' or 'close', or none of its business.
ImplementsPipe == Pipe!Spec
=============================================================================
