------------------------------ MODULE StreamPipe ------------------------------
(***************************************************************************)
(* Stream.prototype.pipe of lib/stream.js: the listeners that tie sources   *)
(* to destinations.  The streams themselves are abstract: a source emits    *)
(* the chunks 1, 2, ... while it is not paused, then 'end'; a destination   *)
(* takes a chunk, says whether it is full, drains later, may say 'pause'    *)
(* and 'resume' at any time, and may close.                                 *)
(***************************************************************************)
EXTENDS Integers, Sequences, FiniteSets

CONSTANT
  Programs      \* the programs, see below

\* A program calls pipe() as in "pipes", in this order: from a source to a destination,
\* with the option end; two calls may be alike.  Its sources have "chunks" chunks; the
\* destinations of "closing" may close before they are ended.
PipeAssumption ==
  \A p \in Programs :
    /\ p.chunks \in Nat
    /\ \A k \in 1..Len(p.pipes) :
         DOMAIN p.pipes[k] = {"from", "to", "end"} /\ p.pipes[k].end \in BOOLEAN

VARIABLES
  src,       \* sources: readable, paused, sent (chunks emitted), ended ('end' emitted)
  dst,       \* destinations: writable, full ('drain' is due), paused, closed; waiting (a write
             \*   returned false, and no 'drain' or 'resume' came since); got (by each pipe)
  on,        \* listeners: for each event the pipes whose listener is registered
  thrown,    \* whether a listener threw
  overflown, \* history: the destinations that were written to when they were waiting
  program    \* the program that runs

vars == <<src, dst, on, thrown, overflown, program>>

Pipes == 1..Len(program.pipes)
From(k) == program.pipes[k].from
To(k) == program.pipes[k].to
Sources == {From(k) : k \in Pipes}
Dests == {To(k) : k \in Pipes}
Events == {"data", "drain", "end"}

AllSources == UNION {{p.pipes[k].from : k \in 1..Len(p.pipes)} : p \in Programs}
AllDests == UNION {{p.pipes[k].to : k \in 1..Len(p.pipes)} : p \in Programs}

-----------------------------------------------------------------------------
(* Events of a source.                                                      *)

\* The pipes whose listeners write what s emits.
Written(s) == {k \in on["data"] : From(k) = s /\ dst[To(k)].writable}

\* ondata() of every pipe: write, and pause the source when the answer is false.
\* A variant ignores the answer.
Paused_Not(s, answer) == src[s].paused
Paused(s, answer) == src[s].paused \/ \E k \in DOMAIN answer : ~answer[k]

Data(s) ==
  /\ src[s].readable /\ ~src[s].paused /\ src[s].sent < program.chunks
  /\ \E answer \in [Written(s) -> BOOLEAN] :
       /\ src' = [src EXCEPT ![s].sent = @ + 1, ![s].paused = Paused(s, answer)]
       /\ dst' = [d \in Dests |->
            LET no == \E k \in Written(s) : To(k) = d /\ ~answer[k]
            IN  [dst[d] EXCEPT !.full = @ \/ no, !.waiting = @ \/ no,
                               !.got = [k \in Pipes |->
                                          IF k \in Written(s) /\ To(k) = d
                                          THEN Append(@[k], src[s].sent + 1) ELSE @[k]]]]
  /\ overflown' = overflown \cup {d \in Dests : dst[d].waiting /\ \E k \in Written(s) : To(k) = d}
  /\ UNCHANGED <<on, thrown>>

\* 'end': onend() of every pipe that ends its destination.
End(s) ==
  /\ src[s].readable /\ ~src[s].paused
  /\ src' = [src EXCEPT ![s].readable = FALSE, ![s].ended = TRUE]
  /\ dst' = [d \in Dests |->
       [dst[d] EXCEPT !.writable = @ /\ ~\E k \in on["end"] : From(k) = s /\ To(k) = d]]
  /\ UNCHANGED <<on, thrown, overflown>>

-----------------------------------------------------------------------------
(* Events of a destination.                                                 *)

\* ondrain() and the listener for 'resume', of the pipes K.  A variant does nothing.
Resumed_Not(K) == src
Resumed(K) ==
  [s \in Sources |-> [src[s] EXCEPT !.paused = @ /\ ~(src[s].readable /\ \E k \in K : From(k) = s)]]

Into(d) == {k \in Pipes : To(k) = d}

\* 'drain': ondrain() of every pipe.
Drain(d) ==
  /\ dst[d].full /\ ~dst[d].closed
  /\ dst' = [dst EXCEPT ![d].full = FALSE, ![d].waiting = FALSE]
  /\ src' = Resumed(on["drain"] \cap Into(d))
  /\ UNCHANGED <<on, thrown, overflown>>

\* 'pause' and 'resume' of a destination that is a stream of its own, full or not: it says
\* so when what it is piped to does (lines 72 to 82).  These listeners stay.
Pause(d) ==
  /\ ~dst[d].closed
  /\ dst' = [dst EXCEPT ![d].paused = TRUE]
  /\ src' = [s \in Sources |-> [src[s] EXCEPT !.paused = @ \/ \E k \in Into(d) : From(k) = s]]
  /\ UNCHANGED <<on, thrown, overflown>>

Resume(d) ==
  /\ ~dst[d].closed
  /\ dst' = [dst EXCEPT ![d].paused = FALSE, ![d].waiting = FALSE]
  /\ src' = Resumed(Into(d))
  /\ UNCHANGED <<on, thrown, overflown>>

\* The listeners for 'close' run in the order of pipe().  onend is not bound in a pipe with
\* end: false, so the third removeListener() throws there, and the listeners of the pipes
\* after it do not run.
Throws(k) == ~program.pipes[k].end
Cleaned(d) == {k \in Into(d) : \A j \in Into(d) : j < k => ~Throws(j)}

\* Variants leave the listener for 'data', and remove those of all pipes.
Unpipe_All(d) == [on EXCEPT !["data"] = {}]
Unpipe_Data(d) == [e \in Events |-> IF e = "data" THEN on[e] ELSE on[e] \ Cleaned(d)]
Unpipe(d) == [e \in Events |-> on[e] \ Cleaned(d)]

Close(d) ==
  /\ ~dst[d].closed
  /\ d \in program.closing \/ ~dst[d].writable
  /\ dst' = [dst EXCEPT ![d].writable = FALSE, ![d].closed = TRUE]
  /\ on' = Unpipe(d)
  /\ thrown' = (thrown \/ \E k \in Into(d) : Throws(k))
  /\ UNCHANGED <<src, overflown>>

-----------------------------------------------------------------------------
\* The listeners that pipe() adds: onend only if the destination is to be ended.
Hooked(e) == IF e = "end" THEN {k \in Pipes : program.pipes[k].end} ELSE Pipes

Init ==
  /\ program \in Programs
  /\ src = [s \in Sources |-> [readable |-> TRUE, paused |-> FALSE, sent |-> 0, ended |-> FALSE]]
  /\ dst = [d \in Dests |-> [writable |-> TRUE, full |-> FALSE, waiting |-> FALSE, paused |-> FALSE,
                             closed |-> FALSE, got |-> [k \in Pipes |-> << >>]]]
  /\ on = [e \in Events |-> Hooked(e)]
  /\ thrown = FALSE /\ overflown = {}

Next ==
  /\ \/ \E s \in Sources : Data(s) \/ End(s)
     \/ \E d \in Dests : Drain(d) \/ Pause(d) \/ Resume(d) \/ Close(d)
  /\ UNCHANGED program

Spec == Init /\ [][Next]_vars

OfSource(s, A) == s \in Sources /\ A /\ UNCHANGED program
OfDest(d, A) == d \in Dests /\ A /\ UNCHANGED program

\* Sources go on, and end; destinations drain, and resume after a pause of their own.
GoesOn(s) == OfSource(s, Data(s) \/ End(s))
Empties(d) == OfDest(d, Drain(d) \/ (dst[d].paused /\ Resume(d)))

FairSpec ==
  /\ Spec
  /\ \A s \in AllSources : SF_vars(GoesOn(s))
  /\ \A d \in AllDests : SF_vars(Empties(d))

-----------------------------------------------------------------------------
\* A destination that has closed leaves no listener behind on its sources, unless one of
\* the listeners for 'close' threw.
TypeOK ==
  /\ \A s \in Sources : /\ src[s].readable \in BOOLEAN /\ src[s].paused \in BOOLEAN
                        /\ src[s].sent \in 0..program.chunks /\ src[s].readable = ~src[s].ended
  /\ \A e \in Events : on[e] \subseteq {k \in Pipes : dst[To(k)].closed => thrown}

Upto(n) == [k \in 1..n |-> k]

\* Every pipe writes every chunk of its source once, in order, from the first one on, until
\* its destination is not writable; the end or close of another destination takes nothing
\* from it.  A destination is writable until it closes or a source that is to end it has ended.
Complete ==
  \A k \in Pipes : LET got == dst[To(k)].got[k] IN
    /\ got = Upto(Len(got))
    /\ dst[To(k)].writable => Len(got) = src[From(k)].sent
    /\ dst[To(k)].writable <=>
         ~dst[To(k)].closed
           /\ \A j \in Into(To(k)) : program.pipes[j].end => ~src[From(j)].ended

\* A pipe that shares neither end keeps the two in sync: once a write has returned false,
\* no chunk is written before the destination emits 'drain' or 'resume'.  (A destination
\* that emits 'resume' while it is full is written to, by lines 88 to 90.)
NoOverflow ==
  \A k \in Pipes : (\A j \in Pipes \ {k} : From(j) # From(k) /\ To(j) # To(k))
                     => To(k) \notin overflown

\* A source with one destination flows on to its end, as long as that is open.
Flown(s) ==
  \/ s \notin Sources \/ src[s].ended
  \/ Cardinality({To(k) : k \in {j \in Pipes : From(j) = s}}) > 1
  \/ \E k \in Pipes : From(k) = s /\ dst[To(k)].closed
=============================================================================
