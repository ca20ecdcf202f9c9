--------------------------- MODULE StreamPipeProofs ---------------------------
(***************************************************************************)
(* Proofs about pipe() of lib/stream.js for any set of programs: any number *)
(* of sources, destinations, pipes between them and chunks, any answers of  *)
(* the destinations and any order of events.                                *)
(***************************************************************************)
EXTENDS StreamPipe, TLAPS

-----------------------------------------------------------------------------
(* The invariant.                                                           *)

SourceType == [readable : BOOLEAN, paused : BOOLEAN, sent : Nat, ended : BOOLEAN]
DestType == [writable : BOOLEAN, full : BOOLEAN, waiting : BOOLEAN, paused : BOOLEAN,
             closed : BOOLEAN, got : [Pipes -> Seq(Nat)]]

Types ==
  /\ program \in Programs
  /\ src \in [Sources -> SourceType] /\ dst \in [Dests -> DestType]
  /\ on \in [Events -> SUBSET Pipes] /\ thrown \in BOOLEAN

\* The listeners of a pipe are registered as long as its destination is open.
Registered ==
  /\ \A k \in Pipes : ~dst[To(k)].closed =>
       k \in on["data"] /\ (program.pipes[k].end => k \in on["end"])
  /\ \A k \in on["end"] : program.pipes[k].end

Alone(k) == \A j \in Pipes \ {k} : From(j) # From(k) /\ To(j) # To(k)

\* The source of a pipe that shares neither end is paused while its destination waits.
Held ==
  \A k \in Pipes : Alone(k) =>
    /\ dst[To(k)].waiting /\ dst[To(k)].writable => src[From(k)].paused
    /\ To(k) \notin overflown

PInv == Types /\ TypeOK /\ Registered /\ Complete /\ Held

-----------------------------------------------------------------------------
\* One more chunk behind the first n.
LEMMA UptoNext ==
  ASSUME NEW n \in Nat
  PROVE  /\ Upto(n) \in Seq(Nat) /\ Len(Upto(n)) = n
         /\ Append(Upto(n), n + 1) = Upto(n + 1)
  BY DEF Upto

\* The ends of a pipe are a source and a destination.
LEMMA Ends ==
  ASSUME NEW k \in Pipes
  PROVE  From(k) \in Sources /\ To(k) \in Dests
  BY DEF Sources, Dests

\* What a program is does not change.
LEMMA SameProgram ==
  ASSUME program' = program
  PROVE  /\ Pipes' = Pipes /\ Sources' = Sources /\ Dests' = Dests
         /\ SourceType' = SourceType /\ DestType' = DestType
         /\ \A k : From(k)' = From(k) /\ To(k)' = To(k)
         /\ \A d : Into(d)' = Into(d)
         /\ \A k : Alone(k)' = Alone(k)
  BY DEF Pipes, Sources, Dests, SourceType, DestType, From, To, Into, Alone

LEMMA InitPInv ==
  ASSUME PipeAssumption, Init
  PROVE  PInv
<1> USE Ends DEF Init
<1>1. program.chunks \in Nat /\ \A k \in Pipes : program.pipes[k].end \in BOOLEAN
  BY Zenon DEF PipeAssumption, Pipes
<1>2. Types
  <2>1. src \in [Sources -> SourceType]
    BY DEF SourceType
  <2>2. << >> \in Seq(Nat)
    OBVIOUS
  <2>3. [k \in Pipes |-> << >>] \in [Pipes -> Seq(Nat)]
    BY <2>2
  <2>4. dst \in [Dests -> DestType]
    BY <2>3 DEF DestType
  <2>5. on \in [Events -> SUBSET Pipes]
    BY DEF Hooked
  <2> QED
    BY <2>1, <2>4, <2>5, Zenon DEF Types
<1>3. TypeOK
  <2>1. \A s \in Sources : /\ src[s].readable = TRUE /\ src[s].paused = FALSE
                           /\ src[s].sent = 0 /\ src[s].ended = FALSE
    OBVIOUS
  <2>2. \A e \in Events : on[e] \subseteq Pipes
    BY DEF Hooked
  <2>3. \A k \in Pipes : ~dst[To(k)].closed
    OBVIOUS
  <2>4. \A s \in Sources : src[s].readable = ~src[s].ended
    BY <2>1, Zenon
  <2>5. \A s \in Sources : src[s].sent \in 0..program.chunks
    BY <1>1, <2>1
  <2> QED
    BY <2>1, <2>2, <2>3, <2>4, <2>5, Zenon DEF TypeOK
<1>4. Registered
  BY DEF Registered, Events, Hooked
<1>5. << >> = Upto(Len(<< >>))
  BY DEF Upto
<1>6. Complete
  BY <1>5 DEF Complete, Into
<1>7. Held
  BY DEF Held
<1> QED
  BY <1>2, <1>3, <1>4, <1>6, <1>7 DEF PInv

-----------------------------------------------------------------------------
(* One lemma for each event.                                                *)

LEMMA DataStep ==
  ASSUME PipeAssumption, PInv, NEW s \in Sources, Data(s), program' = program
  PROVE  PInv'
<1> USE Ends, SameProgram
<1>1. /\ src[s].readable /\ ~src[s].paused /\ src[s].sent < program.chunks
      /\ overflown' = overflown \cup
           {d \in Dests : dst[d].waiting /\ \E k \in Written(s) : To(k) = d}
      /\ on' = on /\ thrown' = thrown
  BY Zenon DEF Data
<1> DEFINE No(answer, d) == \E k \in Written(s) : To(k) = d /\ ~answer[k]
           Got(d) == [k \in Pipes |-> IF k \in Written(s) /\ To(k) = d
                                      THEN Append(dst[d].got[k], src[s].sent + 1)
                                      ELSE dst[d].got[k]]
<1>2. PICK answer \in [Written(s) -> BOOLEAN] :
        /\ src' = [src EXCEPT ![s].sent = @ + 1, ![s].paused = Paused(s, answer)]
        /\ dst' = [d \in Dests |->
             [dst[d] EXCEPT !.full = @ \/ No(answer, d), !.waiting = @ \/ No(answer, d),
                            !.got = Got(d)]]
  BY Zenon DEF Data
<1>3. program.chunks \in Nat
  BY DEF PInv, Types, PipeAssumption
<1>4. src \in [Sources -> SourceType] /\ dst \in [Dests -> DestType]
  BY DEF PInv, Types
<1>5. /\ src' \in [Sources -> SourceType]
      /\ \A t \in Sources : /\ src'[t].readable = src[t].readable
                            /\ src'[t].ended = src[t].ended
                            /\ t # s => src'[t] = src[t]
      /\ src'[s].sent = src[s].sent + 1
      /\ src'[s].paused = Paused(s, answer)
  <2> DEFINE n == src[s].sent + 1
             p == Paused(s, answer)
  <2>1. n \in Nat /\ p \in BOOLEAN
    BY <1>4 DEF SourceType, Paused
  <2>2. src[s] \in SourceType
    BY <1>4
  <2>3. src'[s] = [src[s] EXCEPT !.sent = n, !.paused = p]
    BY <1>2, <1>4, Zenon
  <2> HIDE DEF n, p
  <2>4. /\ src'[s] \in SourceType
        /\ src'[s].readable = src[s].readable /\ src'[s].ended = src[s].ended
        /\ src'[s].sent = n /\ src'[s].paused = p
    BY <2>1, <2>2, <2>3, Zenon DEF SourceType
  <2>5. \A t \in Sources : t # s => src'[t] = src[t]
    BY <1>2, <1>4, Zenon
  <2>6. src' = [t \in Sources |-> src'[t]]
    BY <1>2, <1>4, Zenon
  <2> QED
    BY <1>4, <2>4, <2>5, <2>6 DEF n, p
<1>6. Written(s) \subseteq Pipes
  BY DEF Written, PInv, Types, Events
<1>7. /\ dst' \in [Dests -> DestType]
      /\ \A d \in Dests : /\ dst'[d].writable = dst[d].writable
                          /\ dst'[d].closed = dst[d].closed
                          /\ dst'[d].waiting = (dst[d].waiting \/ No(answer, d))
                          /\ dst'[d].got = Got(d)
  <2> HIDE DEF No, Got
  <2>1. ASSUME NEW d \in Dests
        PROVE  /\ dst'[d] \in DestType
               /\ dst'[d].writable = dst[d].writable /\ dst'[d].closed = dst[d].closed
               /\ dst'[d].waiting = (dst[d].waiting \/ No(answer, d))
               /\ dst'[d].got = Got(d)
    <3> DEFINE f == dst[d].full \/ No(answer, d)
               w == dst[d].waiting \/ No(answer, d)
               g == Got(d)
    <3>1. dst'[d] = [dst[d] EXCEPT !.full = f, !.waiting = w, !.got = g]
      BY <1>2, Zenon
    <3>2. dst[d] \in DestType /\ src[s].sent + 1 \in Nat
      BY <1>4 DEF SourceType
    <3>3. \A k \in Pipes : Append(dst[d].got[k], src[s].sent + 1) \in Seq(Nat)
      BY <3>2 DEF DestType
    <3>4. \A k \in Pipes : dst[d].got[k] \in Seq(Nat)
      BY <3>2 DEF DestType
    <3>5. g \in [Pipes -> Seq(Nat)]
      BY <3>3, <3>4, Zenon DEF Got
    <3>6. f \in BOOLEAN /\ w \in BOOLEAN
      OBVIOUS
    <3> HIDE DEF f, w, g
    <3>7. /\ dst'[d] \in DestType
          /\ dst'[d].writable = dst[d].writable /\ dst'[d].closed = dst[d].closed
          /\ dst'[d].waiting = w /\ dst'[d].got = g
      BY <3>1, <3>2, <3>5, <3>6, Zenon DEF DestType
    <3> QED
      BY <3>7, Zenon DEF w, g
  <2>2. dst' = [d \in Dests |-> dst'[d]]
    BY <1>2, Zenon
  <2> QED
    BY <2>1, <2>2, Zenon
<1> HIDE DEF No
<1>8. Types'
  BY <1>1, <1>5, <1>7 DEF PInv, Types
<1>9. TypeOK'
  <2>1. \A t \in Sources : /\ src[t].sent \in 0..program.chunks
                           /\ src[t].readable = ~src[t].ended
    BY DEF PInv, TypeOK
  <2>2. \A t \in Sources : /\ src'[t].readable \in BOOLEAN /\ src'[t].paused \in BOOLEAN
                           /\ src'[t].sent \in Nat
    BY <1>5 DEF SourceType
  <2>3. \A t \in Sources : src'[t].sent \in 0..program.chunks
    BY <2>1, <2>2, <1>1, <1>3, <1>5
  <2>4. \A t \in Sources : src'[t].readable = ~src'[t].ended
    BY <2>1, <1>5
  <2>5. \A e \in Events : on[e] \subseteq {k \in Pipes : dst'[To(k)].closed => thrown}
    BY <1>7 DEF PInv, TypeOK
  <2> QED
    BY <2>2, <2>3, <2>4, <2>5, <1>1 DEF TypeOK
<1>10. Registered'
  BY <1>1, <1>7 DEF PInv, Types, Registered, Events
<1>11. Complete'
  <2> SUFFICES ASSUME NEW k \in Pipes
               PROVE  /\ dst'[To(k)].got[k] = Upto(Len(dst'[To(k)].got[k]))
                      /\ dst'[To(k)].writable =>
                            Len(dst'[To(k)].got[k]) = src'[From(k)].sent
                      /\ dst'[To(k)].writable <=>
                           ~dst'[To(k)].closed
                              /\ \A j \in Into(To(k)) :
                                    program.pipes[j].end => ~src'[From(j)].ended
    BY DEF Complete
  <2>1. /\ dst[To(k)].got[k] = Upto(Len(dst[To(k)].got[k]))
        /\ dst[To(k)].writable => Len(dst[To(k)].got[k]) = src[From(k)].sent
        /\ dst[To(k)].writable <=>
             ~dst[To(k)].closed
               /\ \A j \in Into(To(k)) : program.pipes[j].end => ~src[From(j)].ended
    BY DEF PInv, Complete
  <2>2. \A j \in Into(To(k)) : src'[From(j)].ended = src[From(j)].ended
    BY <1>5 DEF Into
  <2>3. dst'[To(k)].got = Got(To(k)) /\ dst'[To(k)].writable = dst[To(k)].writable
    BY <1>7, Zenon
  <2>4. dst'[To(k)].writable <=>
          ~dst'[To(k)].closed
             /\ \A j \in Into(To(k)) : program.pipes[j].end => ~src'[From(j)].ended
    BY <2>1, <2>2, <1>7, Zenon
  <2>5. CASE k \in Written(s)
    <3>1. From(k) = s /\ dst[To(k)].writable
      BY <2>5, Zenon DEF Written
    <3>2. src[s].sent \in Nat
      BY <1>4 DEF SourceType
    <3>3. dst[To(k)].got[k] = Upto(src[s].sent)
      BY <3>1, <2>1
    <3>4. dst'[To(k)].got[k] = Append(dst[To(k)].got[k], src[s].sent + 1)
      BY <2>3, <2>5, Zenon
    <3>5. dst'[To(k)].got[k] = Upto(src[s].sent + 1)
      BY <3>2, <3>3, <3>4, UptoNext
    <3>6. Len(Upto(src[s].sent + 1)) = src[s].sent + 1
      <4>1. src[s].sent + 1 \in Nat
        BY <3>2
      <4> QED
        BY <4>1, UptoNext, Zenon
    <3>7. src'[From(k)].sent = src[s].sent + 1
      BY <3>1, <1>5, Zenon
    <3> QED
      BY <3>5, <3>6, <3>7, <2>4, Zenon
  <2>6. CASE k \notin Written(s)
    <3>1. dst'[To(k)].got[k] = dst[To(k)].got[k]
      BY <2>3, <2>6, Zenon
    <3>2. dst[To(k)].writable => From(k) # s
      <4>1. dst[To(k)].writable => k \in on["data"]
        BY <2>1 DEF PInv, Registered
      <4> QED
        BY <4>1, <2>6, Zenon DEF Written
    <3>3. dst[To(k)].writable => src'[From(k)].sent = src[From(k)].sent
      BY <3>2, <1>5, Zenon
    <3> QED
      BY <3>1, <3>3, <2>1, <2>3, <2>4, Zenon
  <2> QED
    BY <2>5, <2>6
<1>12. Held'
  <2> SUFFICES ASSUME NEW k \in Pipes, Alone(k)
               PROVE  /\ dst'[To(k)].waiting /\ dst'[To(k)].writable => src'[From(k)].paused
                      /\ To(k) \notin overflown'
    BY DEF Held
  <2>1. /\ dst[To(k)].waiting /\ dst[To(k)].writable => src[From(k)].paused
        /\ To(k) \notin overflown
    BY DEF PInv, Held
  <2>2. \A j \in Written(s) : To(j) = To(k) => j = k
    BY <1>6 DEF Alone
  <2>3. /\ dst'[To(k)].waiting = (dst[To(k)].waiting \/ No(answer, To(k)))
        /\ dst'[To(k)].writable = dst[To(k)].writable
    BY <1>7, Zenon
  <2>4. CASE k \in Written(s)
    <3>1. From(k) = s /\ dst[To(k)].writable
      BY <2>4, Zenon DEF Written
    <3>2. ~dst[To(k)].waiting
      BY <3>1, <2>1, <1>1, Zenon
    <3>3. No(answer, To(k)) => src'[s].paused
      BY <1>2, <1>5, Zenon DEF Paused, No
    <3> QED
      BY <3>1, <3>2, <3>3, <2>1, <2>3, <1>1, Zenon
  <2>5. CASE k \notin Written(s)
    <3>1. \A j \in Written(s) : To(j) # To(k)
      BY <2>2, <2>5, Zenon
    <3>2. ~No(answer, To(k))
      BY <3>1, Zenon DEF No
    <3>3. src[From(k)].paused => src'[From(k)].paused
      BY <1>5, <1>1, Zenon
    <3> QED
      BY <3>1, <3>2, <3>3, <2>1, <2>3, <1>1, Zenon
  <2> QED
    BY <2>4, <2>5
<1> QED
  BY <1>8, <1>9, <1>10, <1>11, <1>12 DEF PInv

LEMMA EndStep ==
  ASSUME PipeAssumption, PInv, NEW s \in Sources, End(s), program' = program
  PROVE  PInv'
<1> USE Ends, SameProgram
<1>1. /\ src[s].readable /\ ~src[s].paused
      /\ src' = [src EXCEPT ![s].readable = FALSE, ![s].ended = TRUE]
      /\ dst' = [d \in Dests |->
           [dst[d] EXCEPT !.writable = @ /\ ~\E k \in on["end"] : From(k) = s /\ To(k) = d]]
      /\ on' = on /\ thrown' = thrown /\ overflown' = overflown
  BY DEF End
<1>2. src \in [Sources -> SourceType] /\ dst \in [Dests -> DestType]
  BY DEF PInv, Types
<1>3. /\ src' \in [Sources -> SourceType]
      /\ \A t \in Sources : /\ src'[t].paused = src[t].paused /\ src'[t].sent = src[t].sent
                            /\ t # s => src'[t] = src[t]
      /\ src'[s].readable = FALSE /\ src'[s].ended = TRUE
  BY <1>1, <1>2, Zenon DEF SourceType
<1> DEFINE Ended(d) == \E k \in on["end"] : From(k) = s /\ To(k) = d
<1>4. /\ dst' \in [Dests -> DestType]
      /\ \A d \in Dests : /\ dst'[d].waiting = dst[d].waiting /\ dst'[d].closed = dst[d].closed
                          /\ dst'[d].got = dst[d].got
                          /\ dst'[d].writable = (dst[d].writable /\ ~Ended(d))
  <2> HIDE DEF Ended
  <2>1. dst' = [d \in Dests |-> [dst[d] EXCEPT !.writable = @ /\ ~Ended(d)]]
    BY <1>1 DEF Ended
  <2>2. ASSUME NEW d \in Dests
        PROVE  /\ dst'[d] \in DestType
               /\ dst'[d].waiting = dst[d].waiting /\ dst'[d].closed = dst[d].closed
               /\ dst'[d].got = dst[d].got
               /\ dst'[d].writable = (dst[d].writable /\ ~Ended(d))
    <3> DEFINE w == dst[d].writable /\ ~Ended(d)
    <3>1. w \in BOOLEAN
      OBVIOUS
    <3>2. dst'[d] = [dst[d] EXCEPT !.writable = w]
      BY <2>1
    <3> HIDE DEF w
    <3> QED
      BY <3>1, <3>2, <1>2, Zenon DEF DestType, w
  <2> QED
    BY <2>1, <2>2, Zenon
<1>5. Types'
  BY <1>1, <1>3, <1>4 DEF PInv, Types
<1>6. TypeOK'
  <2>1. \A t \in Sources : /\ src[t].sent \in 0..program.chunks
                           /\ src[t].readable = ~src[t].ended
    BY DEF PInv, TypeOK
  <2>2. \A t \in Sources : src'[t].readable \in BOOLEAN /\ src'[t].paused \in BOOLEAN
    BY <1>3 DEF SourceType
  <2>3. \A t \in Sources : src'[t].sent \in 0..program.chunks
    BY <2>1, <1>3
  <2>4. \A t \in Sources : src'[t].readable = ~src'[t].ended
    BY <2>1, <1>3, Zenon
  <2>5. \A e \in Events : on[e] \subseteq {k \in Pipes : dst'[To(k)].closed => thrown}
    BY <1>4 DEF PInv, TypeOK
  <2> QED
    BY <2>2, <2>3, <2>4, <2>5, <1>1, Zenon DEF TypeOK
<1>7. Registered'
  BY <1>1, <1>4 DEF PInv, Types, Registered, Events
<1>8. Complete'
  <2> SUFFICES ASSUME NEW k \in Pipes
               PROVE  /\ dst'[To(k)].got[k] = Upto(Len(dst'[To(k)].got[k]))
                      /\ dst'[To(k)].writable =>
                            Len(dst'[To(k)].got[k]) = src'[From(k)].sent
                      /\ dst'[To(k)].writable <=>
                           ~dst'[To(k)].closed
                              /\ \A j \in Into(To(k)) :
                                    program.pipes[j].end => ~src'[From(j)].ended
    BY DEF Complete
  <2>1. /\ dst[To(k)].got[k] = Upto(Len(dst[To(k)].got[k]))
        /\ dst[To(k)].writable => Len(dst[To(k)].got[k]) = src[From(k)].sent
        /\ dst[To(k)].writable <=>
             ~dst[To(k)].closed
               /\ \A j \in Into(To(k)) : program.pipes[j].end => ~src[From(j)].ended
    BY DEF PInv, Complete
  <2>2. /\ dst'[To(k)].got = dst[To(k)].got /\ dst'[To(k)].closed = dst[To(k)].closed
        /\ dst'[To(k)].writable = (dst[To(k)].writable /\ ~Ended(To(k)))
        /\ src'[From(k)].sent = src[From(k)].sent
    BY <1>3, <1>4
  <2>3. \A j \in Into(To(k)) :
          src'[From(j)].ended = (src[From(j)].ended \/ From(j) = s)
    BY <1>2, <1>3 DEF Into, SourceType
  <2>4. ASSUME dst[To(k)].writable
        PROVE  Ended(To(k)) <=> \E j \in Into(To(k)) : program.pipes[j].end /\ From(j) = s
    <3>1. ~dst[To(k)].closed
      BY <2>4, <2>1
    <3>2. \A j \in Into(To(k)) : program.pipes[j].end => j \in on["end"]
      BY <3>1 DEF PInv, Registered, Into
    <3>3. \A j \in on["end"] : program.pipes[j].end /\ j \in Pipes
      BY DEF PInv, Registered, Types, Events
    <3> QED
      BY <3>2, <3>3 DEF Into
  <2> HIDE DEF Ended
  <2>5. dst'[To(k)].writable <=>
          ~dst'[To(k)].closed
             /\ \A j \in Into(To(k)) : program.pipes[j].end => ~src'[From(j)].ended
    BY <2>1, <2>2, <2>3, <2>4, Zenon
  <2> QED
    BY <2>1, <2>2, <2>5, Zenon
<1>9. Held'
  <2>1. \A k \in Pipes : /\ dst'[To(k)].waiting = dst[To(k)].waiting
                         /\ dst'[To(k)].writable => dst[To(k)].writable
                         /\ src'[From(k)].paused = src[From(k)].paused
    BY <1>3, <1>4, Zenon
  <2>2. \A k \in Pipes : Alone(k) =>
          /\ dst'[To(k)].waiting /\ dst'[To(k)].writable => src'[From(k)].paused
          /\ To(k) \notin overflown'
    BY <2>1, <1>1, Zenon DEF PInv, Held
  <2> QED
    BY <2>2 DEF Held
<1> QED
  BY <1>5, <1>6, <1>7, <1>8, <1>9 DEF PInv

\* 'drain', 'pause' and 'resume' change what is full or paused, and nothing else.
LEMMA FlowStep ==
  ASSUME PInv, program' = program, on' = on, thrown' = thrown, overflown' = overflown,
         src' \in [Sources -> SourceType], dst' \in [Dests -> DestType],
         \A t \in Sources : /\ src'[t].readable = src[t].readable /\ src'[t].sent = src[t].sent
                            /\ src'[t].ended = src[t].ended,
         \A d \in Dests : /\ dst'[d].writable = dst[d].writable
                          /\ dst'[d].closed = dst[d].closed /\ dst'[d].got = dst[d].got,
         \A k \in Pipes : Alone(k) /\ dst'[To(k)].waiting /\ dst'[To(k)].writable
                             => src'[From(k)].paused
  PROVE  PInv'
<1> USE Ends, SameProgram
<1>1. Types'
  BY DEF PInv, Types
<1>2. TypeOK'
  <2>1. \A t \in Sources : src'[t].paused \in BOOLEAN
    BY DEF SourceType
  <2>2. \A e \in Events : on[e] \subseteq {k \in Pipes : dst'[To(k)].closed => thrown}
    BY DEF PInv, TypeOK
  <2> QED
    BY <2>1, <2>2 DEF PInv, TypeOK
<1>3. Registered'
  BY DEF PInv, Types, Registered, Events
<1>4. Complete'
  BY DEF PInv, Complete, Into
<1>5. Held'
  <2>1. \A k \in Pipes : Alone(k) => To(k) \notin overflown
    BY DEF PInv, Held
  <2> QED
    BY <2>1 DEF Held
<1> QED
  BY <1>1, <1>2, <1>3, <1>4, <1>5 DEF PInv
\* What ondrain() and the listener for 'resume' leave of the sources.
LEMMA ResumedType ==
  ASSUME Types, NEW K
  PROVE  /\ Resumed(K) \in [Sources -> SourceType]
         /\ \A t \in Sources : /\ Resumed(K)[t].readable = src[t].readable
                               /\ Resumed(K)[t].sent = src[t].sent
                               /\ Resumed(K)[t].ended = src[t].ended
                               /\ (\A k \in K : From(k) # t) => Resumed(K)[t] = src[t]
<1>1. ASSUME NEW t \in Sources
      PROVE  /\ Resumed(K)[t] \in SourceType
             /\ Resumed(K)[t].readable = src[t].readable
             /\ Resumed(K)[t].sent = src[t].sent
             /\ Resumed(K)[t].ended = src[t].ended
             /\ (\A k \in K : From(k) # t) => Resumed(K)[t] = src[t]
  <2> DEFINE p == src[t].paused /\ ~(src[t].readable /\ \E k \in K : From(k) = t)
  <2>1. src[t] \in SourceType
    BY DEF Types
  <2>2. p \in BOOLEAN /\ ((\A k \in K : From(k) # t) => p = src[t].paused)
    BY <2>1 DEF SourceType
  <2>3. Resumed(K)[t] = [src[t] EXCEPT !.paused = p]
    BY DEF Resumed
  <2> HIDE DEF p
  <2> QED
    BY <2>1, <2>2, <2>3 DEF SourceType
<1>2. Resumed(K) = [t \in Sources |-> Resumed(K)[t]]
  BY DEF Resumed
<1> QED
  BY <1>1, <1>2

LEMMA DrainStep ==
  ASSUME PInv, NEW d \in Dests, Drain(d), program' = program
  PROVE  PInv'
<1> USE Ends
<1>1. /\ dst' = [dst EXCEPT ![d].full = FALSE, ![d].waiting = FALSE]
      /\ src' = Resumed(on["drain"] \cap Into(d))
      /\ on' = on /\ thrown' = thrown /\ overflown' = overflown
  BY DEF Drain
<1>2. dst \in [Dests -> DestType] /\ Types
  BY DEF PInv, Types
<1>3. /\ dst' \in [Dests -> DestType]
      /\ \A c \in Dests : /\ dst'[c].writable = dst[c].writable
                          /\ dst'[c].closed = dst[c].closed /\ dst'[c].got = dst[c].got
                          /\ c # d => dst'[c].waiting = dst[c].waiting
      /\ dst'[d].waiting = FALSE
  BY <1>1, <1>2, Zenon DEF DestType
<1>4. ASSUME NEW k \in Pipes, Alone(k), dst'[To(k)].waiting, dst'[To(k)].writable
      PROVE  src'[From(k)].paused
  <2>1. To(k) # d /\ src[From(k)].paused
    BY <1>3, <1>4 DEF PInv, Held
  <2>2. \A j \in on["drain"] \cap Into(d) : From(j) # From(k)
    BY <2>1, <1>4 DEF Alone, Into
  <2> QED
    BY <1>1, <1>2, <2>1, <2>2, ResumedType
<1>5. /\ src' \in [Sources -> SourceType]
      /\ \A t \in Sources : /\ src'[t].readable = src[t].readable
                            /\ src'[t].sent = src[t].sent /\ src'[t].ended = src[t].ended
  BY <1>1, <1>2, ResumedType
<1> QED
  BY <1>1, <1>3, <1>4, <1>5, FlowStep, Zenon

LEMMA PauseStep ==
  ASSUME PInv, NEW d \in Dests, Pause(d), program' = program
  PROVE  PInv'
<1> USE Ends
<1>1. /\ dst' = [dst EXCEPT ![d].paused = TRUE]
      /\ src' = [s \in Sources |->
                   [src[s] EXCEPT !.paused = @ \/ \E k \in Into(d) : From(k) = s]]
      /\ on' = on /\ thrown' = thrown /\ overflown' = overflown
  BY DEF Pause
<1>2. src \in [Sources -> SourceType] /\ dst \in [Dests -> DestType]
  BY DEF PInv, Types
<1>3. /\ dst' \in [Dests -> DestType]
      /\ \A c \in Dests : /\ dst'[c].writable = dst[c].writable
                          /\ dst'[c].closed = dst[c].closed /\ dst'[c].got = dst[c].got
                          /\ dst'[c].waiting = dst[c].waiting
  BY <1>1, <1>2, Zenon DEF DestType
<1>4. ASSUME NEW t \in Sources
      PROVE  /\ src'[t] \in SourceType
             /\ src'[t].readable = src[t].readable /\ src'[t].sent = src[t].sent
             /\ src'[t].ended = src[t].ended
             /\ src[t].paused => src'[t].paused
  <2> DEFINE p == src[t].paused \/ \E k \in Into(d) : From(k) = t
  <2>1. p \in BOOLEAN /\ (src[t].paused => p)
    OBVIOUS
  <2>2. src'[t] = [src[t] EXCEPT !.paused = p]
    BY <1>1
  <2> HIDE DEF p
  <2> QED
    BY <1>2, <2>1, <2>2 DEF SourceType
<1>5. src' \in [Sources -> SourceType]
  <2>1. src' = [t \in Sources |-> src'[t]]
    BY <1>1
  <2> QED
    BY <2>1, <1>4
<1>6. \A k \in Pipes : Alone(k) /\ dst'[To(k)].waiting /\ dst'[To(k)].writable
                         => src'[From(k)].paused
  BY <1>3, <1>4 DEF PInv, Held
<1> QED
  BY <1>1, <1>3, <1>4, <1>5, <1>6, FlowStep, Zenon

LEMMA ResumeStep ==
  ASSUME PInv, NEW d \in Dests, Resume(d), program' = program
  PROVE  PInv'
<1> USE Ends
<1>1. /\ dst' = [dst EXCEPT ![d].paused = FALSE, ![d].waiting = FALSE]
      /\ src' = Resumed(Into(d))
      /\ on' = on /\ thrown' = thrown /\ overflown' = overflown
  BY DEF Resume
<1>2. dst \in [Dests -> DestType] /\ Types
  BY DEF PInv, Types
<1>3. /\ dst' \in [Dests -> DestType]
      /\ \A c \in Dests : /\ dst'[c].writable = dst[c].writable
                          /\ dst'[c].closed = dst[c].closed /\ dst'[c].got = dst[c].got
                          /\ c # d => dst'[c].waiting = dst[c].waiting
      /\ dst'[d].waiting = FALSE
  BY <1>1, <1>2, Zenon DEF DestType
<1>4. ASSUME NEW k \in Pipes, Alone(k), dst'[To(k)].waiting, dst'[To(k)].writable
      PROVE  src'[From(k)].paused
  <2>1. To(k) # d /\ src[From(k)].paused
    BY <1>3, <1>4 DEF PInv, Held
  <2>2. \A j \in Into(d) : From(j) # From(k)
    BY <2>1, <1>4 DEF Alone, Into
  <2> QED
    BY <1>1, <1>2, <2>1, <2>2, ResumedType
<1>5. /\ src' \in [Sources -> SourceType]
      /\ \A t \in Sources : /\ src'[t].readable = src[t].readable
                            /\ src'[t].sent = src[t].sent /\ src'[t].ended = src[t].ended
  BY <1>1, <1>2, ResumedType
<1> QED
  BY <1>1, <1>3, <1>4, <1>5, FlowStep

LEMMA CloseStep ==
  ASSUME PInv, NEW d \in Dests, Close(d), program' = program
  PROVE  PInv'
<1> USE Ends, SameProgram
<1>1. /\ dst' = [dst EXCEPT ![d].writable = FALSE, ![d].closed = TRUE]
      /\ on' = [e \in Events |-> on[e] \ Cleaned(d)]
      /\ thrown' = (thrown \/ \E k \in Into(d) : Throws(k))
      /\ src' = src /\ overflown' = overflown
  BY DEF Close, Unpipe
<1>2. dst \in [Dests -> DestType] /\ on \in [Events -> SUBSET Pipes]
  BY DEF PInv, Types
<1>3. /\ dst' \in [Dests -> DestType]
      /\ \A c \in Dests : /\ dst'[c].waiting = dst[c].waiting /\ dst'[c].got = dst[c].got
                          /\ c # d => dst'[c] = dst[c]
      /\ dst'[d].writable = FALSE /\ dst'[d].closed = TRUE
  BY <1>1, <1>2, Zenon DEF DestType
<1>4. Cleaned(d) \subseteq Into(d)
  BY DEF Cleaned
<1>5. Types'
  <2>1. on' \in [Events -> SUBSET Pipes]
    BY <1>1, <1>2
  <2>2. thrown' \in BOOLEAN
    BY <1>1
  <2> QED
    BY <2>1, <2>2, <1>1, <1>3 DEF PInv, Types
<1>6. TypeOK'
  <2>1. ASSUME NEW e \in Events, NEW k \in on'[e], dst'[To(k)].closed
        PROVE  thrown'
    <3>1. k \in on[e] /\ k \notin Cleaned(d) /\ k \in Pipes
      BY <2>1, <1>1, <1>2
    <3>2. CASE To(k) = d
      BY <3>1, <3>2, <1>1, Zenon DEF Cleaned, Into
    <3>3. CASE To(k) # d
      BY <3>1, <3>3, <2>1, <1>1, <1>3, Zenon DEF PInv, TypeOK
    <3> QED
      BY <3>2, <3>3
  <2>2. \A e \in Events : on'[e] \subseteq Pipes
    BY <1>1, <1>2
  <2> QED
    BY <2>1, <2>2, <1>1, Zenon DEF PInv, TypeOK
<1>7. Registered'
  <2>1. \A k \in Pipes : ~dst'[To(k)].closed => ~dst[To(k)].closed /\ k \notin Cleaned(d)
    BY <1>3, <1>4 DEF Into
  <2> QED
    BY <2>1, <1>1, Zenon DEF PInv, Registered, Events
<1>8. Complete'
  BY <1>1, <1>3 DEF PInv, Complete, Into
<1>9. Held'
  <2>1. \A k \in Pipes : dst'[To(k)].writable => dst[To(k)].writable
    BY <1>3
  <2> QED
    BY <2>1, <1>1, <1>3 DEF PInv, Held
<1> QED
  BY <1>5, <1>6, <1>7, <1>8, <1>9 DEF PInv

-----------------------------------------------------------------------------
LEMMA NextPInv ==
  ASSUME PipeAssumption, PInv, [Next]_vars
  PROVE  PInv'
<1>1. ASSUME Next
      PROVE  PInv'
  <2>1. program' = program
    BY <1>1 DEF Next
  <2> QED
    BY <1>1, <2>1, DataStep, EndStep, DrainStep, PauseStep, ResumeStep, CloseStep DEF Next
<1>2. ASSUME UNCHANGED vars
      PROVE  PInv'
  <2>1. /\ src' = src /\ dst' = dst /\ on' = on /\ thrown' = thrown /\ overflown' = overflown
        /\ program' = program
    BY <1>2, Zenon DEF vars
  <2>2. Types'
    BY <2>1, SameProgram, Zenon DEF PInv, Types
  <2>3. TypeOK'
    BY <2>1, Zenon DEF PInv, TypeOK, Pipes, Sources, Dests, From, To
  <2>4. Registered'
    BY <2>1, Zenon DEF PInv, Registered, Pipes, From, To
  <2>5. Complete'
    BY <2>1, Zenon DEF PInv, Complete, Into, Pipes, Sources, Dests, From, To
  <2>6. Held'
    BY <2>1, Zenon DEF PInv, Held, Alone, Pipes, From, To
  <2> QED
    BY <2>2, <2>3, <2>4, <2>5, <2>6, Zenon DEF PInv
<1> QED
  BY <1>1, <1>2

\* pipe(), for any sources, destinations, pipes and chunks, also for two pipes between the
\* same ends: every pipe writes every chunk of its source to its open destination, in order,
\* whatever the other destinations do (ondata(), onend()); cleanup() leaves no listener of a
\* closed destination unless a listener threw; and where the two ends are piped to nothing
\* else, nothing is written between a write that returned false and the next 'drain' or
\* 'resume' of the destination, which may say 'pause' and 'resume' at any time.
THEOREM PipeCorrect ==
  ASSUME PipeAssumption
  PROVE  Spec => [](TypeOK /\ Complete /\ NoOverflow)
<1>1. Init => PInv
  BY InitPInv
<1>2. PInv /\ [Next]_vars => PInv'
  BY NextPInv
<1>3. PInv => TypeOK /\ Complete /\ NoOverflow
  BY DEF PInv, Held, NoOverflow, Alone
<1> QED
  BY <1>1, <1>2, <1>3, PTL DEF Spec
=============================================================================
