----------------------------- MODULE MC_Library -----------------------------
(***************************************************************************)
(* Small instances, in one state space, of the modules of the library that  *)
(* work on their own: the linked lists, pipes, the streams of lib/fs.js,    *)
(* a copy of a file, and the string decoder.  "part" says which of them     *)
(* runs; it never changes, and the variables of the others keep a value     *)
(* that means nothing.  Modules that never run together share variables.    *)
(***************************************************************************)
EXTENDS LinkList, Integers, TLC

CONSTANTS i1, i2, i3, i4, l1, l2    \* four items in two lists

VARIABLES
  part,       \* "list", "pipe", "read", "write", "copy" or "decode"
  source,     \* pipe: src; read, copy: rs; decode: text
  dest,       \* pipe: dst; write, copy: ws; decode: charBuffer
  file,       \* read, write, copy; decode: given
  reqs,       \* read, write; copy: reads; pipe: on; decode: charLength
  stack,      \* read, write; pipe: thrown
  seen,       \* read, write; copy: sent; pipe: overflown
  data,       \* read; copy: disk; decode: string
  calls,      \* read, write
  program     \* all but decode

sumvars == <<part, next, prev, ring, source, dest, file, reqs, stack, seen, data, calls, program>>

-----------------------------------------------------------------------------
(* The programs.                                                            *)

Pipe(s, t) == [from |-> s, to |-> t, end |-> TRUE]
PipeOpen(s, t) == [from |-> s, to |-> t, end |-> FALSE]

\* One pipe, pipes that share sources and destinations, pipes with and without end: false
\* into one destination, and one pipe twice.
PipePrograms ==
  {[pipes |-> <<Pipe("s1", "d1")>>, chunks |-> 4, closing |-> {"d1"}],
   [pipes |-> <<Pipe("s1", "d1"), Pipe("s1", "d2"), Pipe("s2", "d2")>>,
    chunks |-> 2, closing |-> {"d1", "d2"}],
   [pipes |-> <<PipeOpen("s1", "d1"), Pipe("s2", "d1")>>,
    chunks |-> 2, closing |-> {"d1"}],
   [pipes |-> <<Pipe("s1", "d1"), Pipe("s1", "d1")>>, chunks |-> 3, closing |-> {"d1"}]}

\* Files read as by Stream.pipe, whole and in ranges that end inside and outside the file,
\* and by programs that pause or destroy the stream at any time.
ReadPrograms ==
  {[len |-> 5, chunk |-> 2, range |-> r, fd |-> f, uses |-> {}, calls |-> 5]
     : r \in {<< >>, <<1, 3>>, <<2, 7>>, <<6, 6>>}, f \in {"none", "zero", "other"}} \cup
  {[len |-> 3, chunk |-> 1, range |-> << >>, fd |-> f, uses |-> {"pause", "destroy"},
    calls |-> 3] : f \in {"none", "other"}} \cup
  {[len |-> 3, chunk |-> 2, range |-> <<0, 2>>, fd |-> "none", uses |-> {"destroy"},
    calls |-> 4]}

\* Plain programs on every kind of descriptor, with and without faults, and programs that
\* destroy the stream or end it twice.
WritePrograms ==
  [fd : {"none", "zero", "other"}, uses : {{}}, faults : {{}, {"error", "short"}},
   calls : {5}] \cup
  [fd : {"none", "zero", "other"}, uses : {{"again"}, {"destroy"}, {"destroy", "again"}},
   faults : {{}, {"error"}}, calls : {4}]

\* An empty file, whole chunks, and a last chunk that is short.
CopyPrograms ==
  [dests : {{"d1"}}, len : {0, 4, 5}, chunk : {2}, faults : {{}, {"open", "read", "write"}}]

\* All texts of up to three characters.
DecoderTexts == UNION {[1..n -> 1..4] : n \in 0..3}

P == INSTANCE StreamPipe WITH
  Programs <- PipePrograms, src <- source, dst <- dest, on <- reqs, thrown <- stack,
  overflown <- seen
R == INSTANCE FsReadStream WITH Programs <- ReadPrograms, rs <- source
W == INSTANCE FsWriteStream WITH Programs <- WritePrograms, ws <- dest
C == INSTANCE FileCopy WITH
  Programs <- CopyPrograms, rs <- source, reads <- reqs, ws <- dest, disk <- data,
  sent <- seen
D == INSTANCE StringDecoder WITH
  Texts <- DecoderTexts, MaxBuffer <- 6, text <- source, given <- file,
  charBuffer <- dest, charLength <- reqs, string <- data

ASSUME
  P!PipeAssumption /\ R!ReadAssumption /\ W!WriteAssumption /\ C!CopyAssumption
    /\ D!DecoderAssumption

-----------------------------------------------------------------------------
(* The specification.                                                       *)

Unused(x) == x = 0

ListInit ==
  /\ part = "list"
  /\ Unused(source) /\ Unused(dest) /\ Unused(file) /\ Unused(reqs) /\ Unused(stack)
  /\ Unused(seen) /\ Unused(data) /\ Unused(calls) /\ Unused(program)
PipeInit == part = "pipe" /\ P!Init /\ Unused(file) /\ Unused(data) /\ Unused(calls)
ReadInit == part = "read" /\ R!Init /\ Unused(dest)
WriteInit == part = "write" /\ W!Init /\ Unused(source) /\ Unused(data)
CopyInit == part = "copy" /\ C!Init /\ Unused(stack) /\ Unused(calls)
DecodeInit ==
  part = "decode" /\ D!Init /\ Unused(stack) /\ Unused(seen) /\ Unused(calls) /\ Unused(program)

SumInit ==
  Init /\ (ListInit \/ PipeInit \/ ReadInit \/ WriteInit \/ CopyInit \/ DecodeInit)

ListNext ==
  /\ part = "list" /\ Next
  /\ UNCHANGED <<source, dest, file, reqs, stack, seen, data, calls, program>>
PipeNext == part = "pipe" /\ P!Next /\ UNCHANGED <<next, prev, ring, file, data, calls>>
ReadNext == part = "read" /\ R!Next /\ UNCHANGED <<next, prev, ring, dest>>
WriteNext == part = "write" /\ W!Next /\ UNCHANGED <<next, prev, ring, source, data>>
CopyNext == part = "copy" /\ C!Next /\ UNCHANGED <<next, prev, ring, stack, calls>>
DecodeNext ==
  part = "decode" /\ D!Next /\ UNCHANGED <<next, prev, ring, stack, seen, calls, program>>

SumNext ==
  (ListNext \/ PipeNext \/ ReadNext \/ WriteNext \/ CopyNext \/ DecodeNext) /\ UNCHANGED part

\* The fairness of every part.  Only one of them runs, so that one condition may serve
\* several parts.
Pipes(A) == part = "pipe" /\ A /\ PipeNext /\ UNCHANGED part
Reads(A) == part = "read" /\ A /\ ReadNext /\ UNCHANGED part
Writes(A) == part = "write" /\ A /\ WriteNext /\ UNCHANGED part
Copies(A) == part = "copy" /\ A /\ CopyNext /\ UNCHANGED part

FairSpec ==
  /\ SumInit /\ [][SumNext]_sumvars
  /\ WF_sumvars(Reads(R!Code) \/ Writes(W!Code) \/ Copies(C!Callbacks))
  /\ WF_sumvars(Reads(R!Threads) \/ Writes(W!Threads) \/ Copies(C!Threads))
  /\ SF_sumvars(Pipes(P!GoesOn("s1")) \/ Reads(R!Callbacks) \/ Writes(W!Callbacks))
  /\ SF_sumvars(Pipes(P!GoesOn("s2")))
  /\ SF_sumvars(Pipes(P!Empties("d1")))
  /\ SF_sumvars(Pipes(P!Empties("d2")))

-----------------------------------------------------------------------------
(* Properties.  Those of the lists are Consistent and Implements.           *)

\* pipe(): every pipe writes every chunk of its source in order to its open destination,
\* which is ended exactly by the sources that should; closing removes the listeners of the
\* closed one only; and a pipe on its own writes nothing between a write that returned
\* false and the next 'drain' or 'resume' of its destination.
Complete == part = "pipe" => P!TypeOK /\ P!Complete /\ P!NoOverflow

\* ReadStream: the data is the file or the range, in order, by one read at a time, and
\* whole before the only 'end'; nothing is asked of a closed descriptor.
DataInOrder == part = "read" => R!TypeOK /\ R!DataInOrder

\* ReadStream: no 'data' event while the stream is paused, whatever the program does.
PausedQuiet == [][part = "read" => (data' # data => ~source'.paused)]_sumvars

\* WriteStream: one request of the queue is under way at a time; the file is what was
\* accepted, in order; callbacks, 'drain' and the close come after what they stand for.
ContentInOrder == part = "write" => W!TypeOK /\ W!ContentInOrder /\ W!ClosedWhole

\* A file piped to one stream is copied, with one chunk or one read on its way at a time.
CopyInOrder == part = "copy" => C!CopyInOrder

\* The copy implements the abstract streams of StreamPipe: every callback is a step of it.
ImplementsPipe ==
  /\ part = "copy" => C!Pipe!Init
  /\ [][part = "copy" => C!Pipe!Next \/ UNCHANGED C!Pipe!vars]_sumvars

\* StringDecoder: however a text is cut, write() has returned the characters that were
\* received in whole, and nothing else.
Decoded == part = "decode" => D!Decoded

\* What must happen: a source with one open destination flows to its end; a ReadStream that
\* is left alone ends, and is then closed; what a WriteStream has accepted is written and its
\* file closed; a copy gets done.
Progress ==
  /\ \A s \in P!AllSources : <>(part = "pipe" => P!Flown(s))
  /\ <>((part = "read" => R!Ended) \/ [](part = "read" => R!Waiting))
  /\ (part = "read" /\ R!ToClose) ~> (part = "read" => R!Closed)
  /\ []<>(part = "write" => W!Written)
  /\ <>(part = "copy" => C!AllClosed)
=============================================================================
