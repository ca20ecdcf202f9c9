------------------------- MODULE FsWriteStreamProofs -------------------------
(***************************************************************************)
(* Proofs about fs.WriteStream of lib/fs.js for any set of programs: any    *)
(* number of writes, any descriptor, and any faults of the kernel.          *)
(***************************************************************************)
EXTENDS FsWriteStream, FiniteSetTheorems, TLAPS

-----------------------------------------------------------------------------
(* The invariant, of a stream s, requests R at the threads, a file f,       *)
(* events E and a program p.                                                *)

RequestType ==
  [op : {"open", "write", "close", "destroy"}, n : Nat, run : BOOLEAN, ok : BOOLEAN]
StreamType ==
  [fd : {"none", "zero", "other"}, writable : BOOLEAN, busy : BOOLEAN, drainable : BOOLEAN,
   queue : Seq(RequestType), onopen : BOOLEAN]
FileType == [state : {"none", "open", "closed"}, content : Seq(Nat), again : BOOLEAN]
SeenType ==
  [accepted : Nat, called : Seq(Nat), drains : Nat, ended : BOOLEAN, destroyed : BOOLEAN,
   closed : BOOLEAN, errors : BOOLEAN, thrown : BOOLEAN]

Types(s, R, f, E, p) ==
  /\ s \in StreamType /\ R \subseteq RequestType /\ f \in FileType /\ E \in SeenType
  /\ p \in Programs

\* The queue has writes in the order in which they were accepted, and behind them closes,
\* if the program has ended the stream.
QueueOK(s, E) ==
  /\ \A i \in 1..Len(s.queue) :
       /\ s.queue[i].op \in {"write", "close"} /\ ~s.queue[i].run
       /\ s.queue[i].op = "write" => s.queue[i].n <= E.accepted
       /\ s.queue[i].op = "close" => E.ended
  /\ \A i, j \in 1..Len(s.queue) : i < j /\ s.queue[j].op = "write" =>
       s.queue[i].op = "write" /\ s.queue[i].n < s.queue[j].n
  /\ E.ended => ~s.writable

\* One request of the queue is at the threads, unless the binding threw; the open is the
\* first one.
SentOK(s, R, E, p) ==
  /\ \A r, t \in R : r.op # "destroy" /\ t.op # "destroy" => r = t
  /\ s.busy = (E.thrown \/ \E r \in R : r.op # "destroy")
  /\ E.thrown => E.errors /\ s.fd = "none" /\ R = {}
  /\ s.fd = "none" /\ ~s.busy => E.errors
  /\ \A r \in R : /\ r.op = "open" <=> s.fd = "none"
                  /\ r.op = "close" => /\ E.ended
                                       /\ \A i \in 1..Len(s.queue) : s.queue[i].op = "close"
                  /\ r.op = "destroy" => "destroy" \in p.uses
  /\ s.onopen => "destroy" \in p.uses

\* What is in the file, and whose callbacks were called, comes before the write at the
\* threads, and that before the queue.  There is no file before the open.
OrderOK(s, R, f, E, p) ==
  /\ Increasing(f.content) /\ Increasing(E.called)
  /\ \A k \in 1..Len(f.content) : f.content[k] <= E.accepted
  /\ \A k \in 1..Len(E.called) : E.called[k] <= E.accepted
  /\ \A i \in 1..Len(s.queue) : s.queue[i].op = "write" =>
       /\ \A k \in 1..Len(f.content) : f.content[k] < s.queue[i].n
       /\ \A k \in 1..Len(E.called) : E.called[k] < s.queue[i].n
  /\ \A r \in R : r.op = "write" =>
       /\ r.n <= E.accepted
       /\ \A i \in 1..Len(s.queue) : s.queue[i].op = "write" => r.n < s.queue[i].n
       /\ \A k \in 1..Len(f.content) : f.content[k] <= r.n /\ (~r.run => f.content[k] < r.n)
       /\ \A k \in 1..Len(E.called) : E.called[k] < r.n
       /\ r.run /\ r.ok /\ "short" \notin p.faults => r.n \in Range(f.content)
  /\ "short" \notin p.faults => Range(E.called) \subseteq Range(f.content)
  /\ \A r \in R : r.op = "open" /\ ~r.run => f.state = "none"

\* How many writes are in the file, or at a thread that has not run yet.
Gone(R, f) == Len(f.content) + (IF \E r \in R : r.op = "write" /\ ~r.run THEN 1 ELSE 0)

\* Without faults, and before the close, the writes that are not gone are in the queue.
Exact(s, R, f, E) ==
  LET g == Gone(R, f) IN
  /\ g <= E.accepted /\ E.accepted - g <= Len(s.queue)
  /\ \A i \in 1..Len(s.queue) :
       IF i <= E.accepted - g THEN s.queue[i].op = "write" /\ s.queue[i].n = g + i
       ELSE s.queue[i].op = "close"
  /\ \A r \in R : r.op = "write" /\ ~r.run => r.n = g
  /\ f.state = "none" => s.fd = "none" /\ \A r \in R : ~r.run

WholeOK(s, R, f, E, p) ==
  p.faults = {} =>
    /\ f.content = Upto(Len(f.content))
    /\ s.fd = "none" => \E r \in R : r.op = "open" /\ (r.run => r.ok)
    /\ f.state # "closed" => Exact(s, R, f, E)
    /\ "destroy" \notin p.uses =>
         /\ E.drains <= Len(f.content)
         /\ f.state = "closed" => E.ended /\ Len(f.content) = E.accepted

\* In a program that ends its stream once, the close is the last request.
OnceOK(s, R, f, E, p) ==
  p.uses = {} =>
    /\ ~f.again
    /\ f.state = "closed" => E.ended /\ s.queue = << >> /\ \A r \in R : r.run
    /\ \A r \in R : r.op = "close" => s.queue = << >>
    /\ \A i \in 1..Len(s.queue) : s.queue[i].op = "close" => i = Len(s.queue)

Inv(s, R, f, E, p) ==
  /\ Types(s, R, f, E, p) /\ QueueOK(s, E) /\ SentOK(s, R, E, p) /\ OrderOK(s, R, f, E, p)
  /\ WholeOK(s, R, f, E, p) /\ OnceOK(s, R, f, E, p)

WInv == Inv(ws, reqs, file, seen, program)

-----------------------------------------------------------------------------
(* flush().                                                                 *)

\* The first request of the queue leaves it.
LEMMA Shift ==
  ASSUME NEW a \in Nat, NEW g \in Nat, NEW i \in Int
  PROVE  /\ (i <= a - (g + 1)) <=> (i + 1 <= a - g)
         /\ g + 1 + i = g + (i + 1)
  OBVIOUS

LEMMA Shifted ==
  ASSUME NEW q \in Seq(RequestType), q # << >>
  PROVE  /\ Tail(q) \in Seq(RequestType) /\ Len(Tail(q)) = Len(q) - 1 /\ Len(q) >= 1
         /\ Head(q) = q[1] /\ q[1] \in RequestType
         /\ \A i \in 1..Len(Tail(q)) : Tail(q)[i] = q[i + 1] /\ i + 1 \in 1..Len(q)
  OBVIOUS

Take(s) == [s EXCEPT !.busy = TRUE, !.queue = Tail(@)]

LEMMA Taken ==
  ASSUME NEW s \in StreamType, s.queue # << >>
  PROVE  /\ Take(s) \in StreamType /\ Take(s).busy = TRUE
         /\ Take(s).fd = s.fd /\ Take(s).writable = s.writable /\ Take(s).onopen = s.onopen
         /\ Len(Take(s).queue) = Len(s.queue) - 1 /\ Len(s.queue) >= 1
         /\ Head(s.queue) = s.queue[1] /\ s.queue[1] \in RequestType
         /\ \A i \in 1..Len(Take(s).queue) :
              Take(s).queue[i] = s.queue[i + 1] /\ i + 1 \in 1..Len(s.queue)
<1> DEFINE q == Tail(s.queue)
           t == Take(s)
<1>1. s.queue \in Seq(RequestType)
  BY DEF StreamType
<1>2. q \in Seq(RequestType)
  BY <1>1, Shifted
<1>3. t = [s EXCEPT !.busy = TRUE, !.queue = q]
  BY DEF Take
<1>4. /\ Len(q) = Len(s.queue) - 1 /\ Len(s.queue) >= 1
      /\ Head(s.queue) = s.queue[1] /\ s.queue[1] \in RequestType
      /\ \A i \in 1..Len(q) : q[i] = s.queue[i + 1] /\ i + 1 \in 1..Len(s.queue)
  BY <1>1, Shifted
<1> HIDE DEF q, t
<1>5. /\ t \in StreamType /\ t.busy = TRUE /\ t.queue = q
      /\ t.fd = s.fd /\ t.writable = s.writable /\ t.onopen = s.onopen
  BY <1>2, <1>3, Zenon DEF StreamType
<1>6. /\ Len(t.queue) = Len(s.queue) - 1
      /\ \A i \in 1..Len(t.queue) : t.queue[i] = s.queue[i + 1] /\ i + 1 \in 1..Len(s.queue)
  BY <1>4, <1>5
<1> QED
  BY <1>4, <1>5, <1>6, Zenon DEF t

\* The binding throws: what was taken from the queue is lost.
LEMMA ThrowInv ==
  ASSUME NEW s, NEW R, NEW f, NEW E, NEW p, Inv(s, R, f, E, p),
         ~s.busy, s.queue # << >>, s.fd = "none"
  PROVE  Inv(Take(s), R, f, [E EXCEPT !.thrown = TRUE], p)
<1> DEFINE t == Take(s)
           F == [E EXCEPT !.thrown = TRUE]
<1>1. s \in StreamType /\ E \in SeenType
  BY DEF Inv, Types
<1>2. /\ t \in StreamType /\ t.busy = TRUE
      /\ t.fd = "none" /\ t.writable = s.writable /\ t.onopen = s.onopen
      /\ Len(t.queue) = Len(s.queue) - 1 /\ Len(s.queue) >= 1
      /\ \A i \in 1..Len(t.queue) : t.queue[i] = s.queue[i + 1] /\ i + 1 \in 1..Len(s.queue)
  BY <1>1, Taken, Zenon
<1> HIDE DEF t
<1>3. /\ F \in SeenType /\ F.thrown = TRUE /\ F.accepted = E.accepted /\ F.called = E.called
      /\ F.drains = E.drains /\ F.ended = E.ended /\ F.errors = E.errors
  BY <1>1, Zenon DEF SeenType
<1> HIDE DEF F
<1>4. R = {} /\ E.errors
  BY Zenon DEF Inv, SentOK
<1>5. Len(s.queue) \in Nat /\ Len(t.queue) \in Nat
  BY <1>1, <1>2 DEF StreamType
<1>6. Types(t, R, f, F, p)
  BY <1>2, <1>3 DEF Inv, Types
<1>7. QueueOK(t, F)
  <2>1. ASSUME NEW i \in 1..Len(t.queue)
        PROVE  /\ t.queue[i].op \in {"write", "close"} /\ ~t.queue[i].run
               /\ t.queue[i].op = "write" => t.queue[i].n <= F.accepted
               /\ t.queue[i].op = "close" => F.ended
    BY <1>2, <1>3 DEF Inv, QueueOK
  <2>2. ASSUME NEW i \in 1..Len(t.queue), NEW j \in 1..Len(t.queue), i < j,
               t.queue[j].op = "write"
        PROVE  t.queue[i].op = "write" /\ t.queue[i].n < t.queue[j].n
    <3>1. i + 1 < j + 1
      BY <2>2
    <3>2. /\ i + 1 \in 1..Len(s.queue) /\ j + 1 \in 1..Len(s.queue)
          /\ t.queue[i] = s.queue[i + 1] /\ t.queue[j] = s.queue[j + 1]
      BY <1>2
    <3> QED
      BY <2>2, <3>1, <3>2 DEF Inv, QueueOK
  <2>3. F.ended => ~t.writable
    BY <1>2, <1>3 DEF Inv, QueueOK
  <2> QED
    BY <2>1, <2>2, <2>3 DEF QueueOK
<1>8. SentOK(t, R, F, p)
  BY <1>2, <1>3, <1>4, Zenon DEF Inv, SentOK
<1>9. OrderOK(t, R, f, F, p)
  BY <1>2, <1>3, <1>4 DEF Inv, OrderOK
<1>10. WholeOK(t, R, f, F, p)
  BY <1>4 DEF Inv, WholeOK
<1>11. OnceOK(t, R, f, F, p)
  BY <1>2, <1>3, <1>4, <1>5 DEF Inv, OnceOK
<1> QED
  BY <1>6, <1>7, <1>8, <1>9, <1>10, <1>11, Zenon DEF Inv, t, F

\* The first request of the queue goes to the threads.
LEMMA SendInv ==
  ASSUME NEW s, NEW R, NEW f, NEW E, NEW p, Inv(s, R, f, E, p),
         ~s.busy, s.queue # << >>, s.fd # "none"
  PROVE  Inv(Take(s), R \cup {Head(s.queue)}, f, E, p)
<1> DEFINE t == Take(s)
           h == Head(s.queue)
           S == R \cup {h}
<1>1. s \in StreamType /\ E \in SeenType /\ f \in FileType /\ R \subseteq RequestType
  BY DEF Inv, Types
<1>2. /\ t \in StreamType /\ t.busy = TRUE
      /\ t.fd = s.fd /\ t.writable = s.writable /\ t.onopen = s.onopen
      /\ Len(t.queue) = Len(s.queue) - 1 /\ Len(s.queue) >= 1
      /\ h = s.queue[1] /\ h \in RequestType
      /\ \A i \in 1..Len(t.queue) : t.queue[i] = s.queue[i + 1] /\ i + 1 \in 1..Len(s.queue)
  BY <1>1, Taken, Zenon
<1> HIDE DEF t, h
<1>3. Len(s.queue) \in Nat /\ Len(t.queue) \in Nat /\ 1 \in 1..Len(s.queue)
  BY <1>1, <1>2 DEF StreamType
<1>4. /\ h.op \in {"write", "close"} /\ ~h.run
      /\ h.op = "write" => h.n <= E.accepted
      /\ h.op = "close" => E.ended /\ \A i \in 1..Len(t.queue) : t.queue[i].op = "close"
      /\ h.op = "write" => \A i \in 1..Len(t.queue) : t.queue[i].op = "write" => h.n < t.queue[i].n
  <2>1. /\ h.op \in {"write", "close"} /\ ~h.run
        /\ h.op = "write" => h.n <= E.accepted
        /\ h.op = "close" => E.ended
    BY <1>2, <1>3 DEF Inv, QueueOK
  <2>2. ASSUME NEW i \in 1..Len(t.queue), t.queue[i].op = "write"
        PROVE  h.op = "write" /\ h.n < t.queue[i].n
    <3>1. 1 < i + 1 /\ i + 1 \in 1..Len(s.queue) /\ t.queue[i] = s.queue[i + 1]
      BY <1>2
    <3> QED
      BY <2>2, <3>1, <1>2, <1>3 DEF Inv, QueueOK
  <2>3. \A i \in 1..Len(t.queue) : t.queue[i].op \in {"write", "close"}
    BY <1>2 DEF Inv, QueueOK
  <2> QED
    BY <2>1, <2>2, <2>3
<1>5. ~E.thrown /\ \A r \in R : r.op = "destroy"
  BY Zenon DEF Inv, SentOK
<1>6. Types(t, S, f, E, p)
  BY <1>1, <1>2 DEF Inv, Types
<1>7. QueueOK(t, E)
  <2>1. ASSUME NEW i \in 1..Len(t.queue)
        PROVE  /\ t.queue[i].op \in {"write", "close"} /\ ~t.queue[i].run
               /\ t.queue[i].op = "write" => t.queue[i].n <= E.accepted
               /\ t.queue[i].op = "close" => E.ended
    BY <1>2 DEF Inv, QueueOK
  <2>2. ASSUME NEW i \in 1..Len(t.queue), NEW j \in 1..Len(t.queue), i < j,
               t.queue[j].op = "write"
        PROVE  t.queue[i].op = "write" /\ t.queue[i].n < t.queue[j].n
    <3>1. i + 1 < j + 1
      BY <2>2
    <3>2. /\ i + 1 \in 1..Len(s.queue) /\ j + 1 \in 1..Len(s.queue)
          /\ t.queue[i] = s.queue[i + 1] /\ t.queue[j] = s.queue[j + 1]
      BY <1>2
    <3> QED
      BY <2>2, <3>1, <3>2 DEF Inv, QueueOK
  <2>3. E.ended => ~t.writable
    BY <1>2 DEF Inv, QueueOK
  <2> QED
    BY <2>1, <2>2, <2>3 DEF QueueOK
<1>8. SentOK(t, S, E, p)
  BY <1>2, <1>3, <1>4, <1>5, Zenon DEF Inv, SentOK
<1>9. OrderOK(t, S, f, E, p)
  <2>1. \A r \in S : r.op = "write" => r = h
    BY <1>5
  <2>2. h.op = "write" =>
          /\ \A k \in 1..Len(f.content) : f.content[k] < h.n
          /\ \A k \in 1..Len(E.called) : E.called[k] < h.n
    BY <1>2, <1>3 DEF Inv, OrderOK
  <2>3. \A k \in 1..Len(f.content) : f.content[k] \in Nat
    BY <1>1 DEF FileType
  <2>4. h.op = "write" => \A k \in 1..Len(f.content) : f.content[k] <= h.n
    BY <2>2, <2>3, <1>2 DEF RequestType
  <2> QED
    BY <1>2, <1>3, <1>4, <2>1, <2>2, <2>4 DEF Inv, OrderOK
<1>10. WholeOK(t, S, f, E, p)
  <2> SUFFICES ASSUME p.faults = {}, f.state # "closed"
               PROVE  Exact(t, S, f, E)
    BY <1>2 DEF Inv, WholeOK
  <2> DEFINE g == Gone(R, f)
  <2>1. Exact(s, R, f, E)
    BY DEF Inv, WholeOK
  <2>2. g = Len(f.content) /\ g \in Nat /\ E.accepted \in Nat
    BY <1>1, <1>5 DEF Gone, FileType, SeenType
  <2>3. /\ g <= E.accepted /\ E.accepted - g <= Len(s.queue)
        /\ \A i \in 1..Len(s.queue) :
             IF i <= E.accepted - g THEN s.queue[i].op = "write" /\ s.queue[i].n = g + i
             ELSE s.queue[i].op = "close"
        /\ f.state = "none" => s.fd = "none" /\ \A r \in R : ~r.run
    BY <2>1 DEF Exact
  <2> HIDE DEF g
  <2>4. CASE h.op = "write"
    <3>1. Gone(S, f) = g + 1
      BY <2>2, <2>4, <1>4, Zenon DEF Gone
    <3>2. E.accepted - g >= 1 /\ h.n = g + 1
      BY <2>2, <2>3, <2>4, <1>2, <1>3
    <3>3. \A i \in 1..Len(t.queue) :
             IF i <= E.accepted - (g + 1) THEN t.queue[i].op = "write" /\ t.queue[i].n = g + 1 + i
             ELSE t.queue[i].op = "close"
      <4> TAKE i \in 1..Len(t.queue)
      <4>1. t.queue[i] = s.queue[i + 1] /\ i + 1 \in 1..Len(s.queue)
        BY <1>2
      <4>2. /\ (i <= E.accepted - (g + 1)) <=> (i + 1 <= E.accepted - g)
            /\ g + 1 + i = g + (i + 1)
        <5>1. E.accepted \in Nat /\ g \in Nat
          BY <2>2
        <5>2. i \in Int
          BY <1>3
        <5> QED
          BY <5>1, <5>2, Shift, Zenon
      <4> QED
        BY <4>1, <4>2, <2>3
    <3>4. \A r \in S : r.op = "write" => r.n = g + 1
      BY <1>5, <3>2
    <3>5. g + 1 <= E.accepted /\ E.accepted - (g + 1) <= Len(t.queue)
      BY <3>2, <2>2, <2>3, <1>2, <1>3
    <3> HIDE DEF S
    <3> QED
      BY <3>1, <3>3, <3>4, <3>5, <2>3, <1>2 DEF Exact
  <2>5. CASE h.op = "close"
    <3>1. Gone(S, f) = g
      <4>1. ~\E r \in S : r.op = "write" /\ ~r.run
        BY <2>5, <1>5
      <4> HIDE DEF S
      <4> QED
        BY <4>1, <2>2, <1>1 DEF Gone, FileType
    <3>2. E.accepted - g = 0
      BY <2>2, <2>3, <2>5, <1>2, <1>3
    <3>3. \A i \in 1..Len(t.queue) : ~(i <= E.accepted - g)
      BY <3>2
    <3>4. \A r \in S : r.op # "write"
      BY <1>5, <2>5
    <3>5. g <= E.accepted /\ E.accepted - g <= Len(t.queue)
      BY <3>2, <2>2, <2>3, <1>3
    <3> HIDE DEF S
    <3> QED
      BY <3>1, <3>3, <3>4, <3>5, <2>3, <1>2, <1>4, <2>5 DEF Exact
  <2> QED
    BY <2>4, <2>5, <1>4
<1>11. OnceOK(t, S, f, E, p)
  <2> SUFFICES ASSUME p.uses = {}
               PROVE  OnceOK(t, S, f, E, p)
    BY DEF OnceOK
  <2>1. /\ ~f.again /\ f.state # "closed"
        /\ \A i \in 1..Len(s.queue) : s.queue[i].op = "close" => i = Len(s.queue)
    BY DEF Inv, OnceOK
  <2>2. \A r \in S : r.op = "close" => r = h
    BY <1>5
  <2>3. t.queue \in Seq(RequestType)
    BY <1>2 DEF StreamType
  <2>4. h.op = "close" => t.queue = << >>
    BY <2>1, <2>3, <1>2, <1>3
  <2>5. \A i \in 1..Len(t.queue) : t.queue[i].op = "close" => i = Len(t.queue)
    BY <2>1, <1>2, <1>3
  <2> QED
    BY <2>1, <2>2, <2>4, <2>5 DEF OnceOK
<1> QED
  BY <1>6, <1>7, <1>8, <1>9, <1>10, <1>11 DEF Inv, h, t
\* 'drain'.
LEMMA DrainInv ==
  ASSUME NEW s, NEW R, NEW f, NEW E, NEW p, Inv(s, R, f, E, p), ~s.busy, s.queue = << >>
  PROVE  Inv(s, R, f, [E EXCEPT !.drains = E.accepted], p)
<1> DEFINE F == [E EXCEPT !.drains = E.accepted]
<1>1. s \in StreamType /\ E \in SeenType /\ f \in FileType /\ R \subseteq RequestType
  BY DEF Inv, Types
<1>2. /\ F \in SeenType /\ F.thrown = E.thrown /\ F.accepted = E.accepted
      /\ F.called = E.called /\ F.drains = E.accepted /\ F.ended = E.ended
      /\ F.errors = E.errors
  BY <1>1 DEF SeenType
<1> HIDE DEF F
<1>3. Types(s, R, f, F, p)
  BY <1>2 DEF Inv, Types
<1>4. QueueOK(s, F)
  BY <1>2 DEF Inv, QueueOK
<1>5. SentOK(s, R, F, p)
  BY <1>2 DEF Inv, SentOK
<1>6. OrderOK(s, R, f, F, p)
  BY <1>2 DEF Inv, OrderOK
<1>7. WholeOK(s, R, f, F, p)
  <2> SUFFICES ASSUME p.faults = {}
               PROVE  WholeOK(s, R, f, F, p)
    BY DEF WholeOK
  <2>1. \A r \in R : r.op = "destroy"
    BY Zenon DEF Inv, SentOK
  <2>2. Gone(R, f) = Len(f.content) /\ Len(f.content) \in Nat /\ E.accepted \in Nat
    BY <2>1, <1>1 DEF Gone, FileType, SeenType
  <2>3. Len(s.queue) = 0
    OBVIOUS
  <2>4. f.state # "closed" => Exact(s, R, f, E)
    BY DEF Inv, WholeOK
  <2>5. f.state # "closed" => E.accepted = Len(f.content)
    BY <2>2, <2>3, <2>4 DEF Exact
  <2>6. f.state # "closed" => Exact(s, R, f, F)
    BY <2>4, <1>2 DEF Exact
  <2>7. "destroy" \notin p.uses => E.accepted = Len(f.content)
    BY <2>5 DEF Inv, WholeOK
  <2> QED
    BY <2>2, <2>6, <2>7, <1>2 DEF Inv, WholeOK
<1>8. OnceOK(s, R, f, F, p)
  BY <1>2 DEF Inv, OnceOK
<1> QED
  BY <1>3, <1>4, <1>5, <1>6, <1>7, <1>8, Zenon DEF Inv, F

LEMMA FlushInv ==
  ASSUME NEW s, NEW R, NEW f, NEW E, NEW p, Inv(s, R, f, E, p)
  PROVE  Inv(flush(s, R, E).s, flush(s, R, E).R, f, flush(s, R, E).E, p)
<1>1. CASE s.busy \/ (s.queue = << >> /\ ~s.drainable)
  <2>1. flush(s, R, E).s = s /\ flush(s, R, E).R = R /\ flush(s, R, E).E = E
    BY <1>1 DEF flush, Busy
  <2> QED
    BY <2>1, Zenon
<1>2. CASE ~s.busy /\ s.queue = << >> /\ s.drainable
  <2>1. /\ flush(s, R, E).s = s /\ flush(s, R, E).R = R
        /\ flush(s, R, E).E = [E EXCEPT !.drains = E.accepted]
    BY <1>2 DEF flush, Busy
  <2>2. Inv(s, R, f, [E EXCEPT !.drains = E.accepted], p)
    BY <1>2, DrainInv
  <2> QED
    BY <2>1, <2>2, Zenon
<1>3. CASE ~s.busy /\ s.queue # << >> /\ s.fd = "none"
  <2>1. Head(s.queue).op # "open"
    <3>1. s.queue \in Seq(RequestType)
      BY DEF Inv, Types, StreamType
    <3>2. 1 \in 1..Len(s.queue) /\ Head(s.queue) = s.queue[1]
      BY <3>1, <1>3
    <3> QED
      BY <3>2 DEF Inv, QueueOK
  <2>2. /\ flush(s, R, E).s = Take(s) /\ flush(s, R, E).R = R
        /\ flush(s, R, E).E = [E EXCEPT !.thrown = TRUE]
    BY <1>3, <2>1 DEF flush, Busy, Take
  <2>3. Inv(Take(s), R, f, [E EXCEPT !.thrown = TRUE], p)
    BY <1>3, ThrowInv
  <2> QED
    BY <2>2, <2>3, Zenon
<1>4. CASE ~s.busy /\ s.queue # << >> /\ s.fd # "none"
  <2>1. /\ flush(s, R, E).s = Take(s) /\ flush(s, R, E).R = R \cup {Head(s.queue)}
        /\ flush(s, R, E).E = E
    BY <1>4 DEF flush, Busy, Take
  <2>2. Inv(Take(s), R \cup {Head(s.queue)}, f, E, p)
    BY <1>4, SendInv
  <2> QED
    BY <2>1, <2>2, Zenon
<1>5. \/ s.busy \/ (s.queue = << >> /\ ~s.drainable)
      \/ ~s.busy /\ s.queue = << >> /\ s.drainable
      \/ ~s.busy /\ s.queue # << >> /\ s.fd = "none"
      \/ ~s.busy /\ s.queue # << >> /\ s.fd # "none"
  OBVIOUS
<1> QED
  BY <1>1, <1>2, <1>3, <1>4, <1>5, Zenon
-----------------------------------------------------------------------------
(* write() and end() put a request at the end of the queue.                 *)

LEMMA Appended ==
  ASSUME NEW q \in Seq(RequestType), NEW r \in RequestType
  PROVE  /\ Append(q, r) \in Seq(RequestType) /\ Len(q) \in Nat
         /\ Len(Append(q, r)) = Len(q) + 1
         /\ Append(q, r)[Len(q) + 1] = r
         /\ \A i \in 1..Len(q) : Append(q, r)[i] = q[i]
  OBVIOUS

LEMMA Pushed ==
  ASSUME NEW s \in StreamType, NEW r \in RequestType
  PROVE  /\ Push(s, r) \in StreamType
         /\ Push(s, r).fd = s.fd /\ Push(s, r).writable = s.writable
         /\ Push(s, r).onopen = s.onopen /\ Push(s, r).busy = s.busy
         /\ Len(s.queue) \in Nat /\ Len(Push(s, r).queue) = Len(s.queue) + 1
         /\ Push(s, r).queue[Len(s.queue) + 1] = r
         /\ \A i \in 1..Len(s.queue) : Push(s, r).queue[i] = s.queue[i]
<1> DEFINE q == Append(s.queue, r)
           t == Push(s, r)
<1>1. s.queue \in Seq(RequestType)
  BY DEF StreamType
<1>2. /\ q \in Seq(RequestType) /\ Len(s.queue) \in Nat /\ Len(q) = Len(s.queue) + 1
      /\ q[Len(s.queue) + 1] = r /\ \A i \in 1..Len(s.queue) : q[i] = s.queue[i]
  BY <1>1, Appended
<1>3. t = [s EXCEPT !.queue = q]
  BY DEF Push
<1> HIDE DEF q, t
<1>4. /\ t \in StreamType /\ t.queue = q /\ t.fd = s.fd /\ t.writable = s.writable
      /\ t.onopen = s.onopen /\ t.busy = s.busy
  BY <1>2, <1>3 DEF StreamType
<1>5. /\ Len(t.queue) = Len(s.queue) + 1 /\ t.queue[Len(s.queue) + 1] = r
      /\ \A i \in 1..Len(s.queue) : t.queue[i] = s.queue[i]
  BY <1>2, <1>4
<1> QED
  BY <1>2, <1>4, <1>5, Zenon DEF t

\* The places of the longer queue.
LEMMA Places ==
  ASSUME NEW n \in Nat, NEW i \in 1..(n + 1)
  PROVE  i \in 1..n \/ i = n + 1
  OBVIOUS

LEMMA Filled ==
  ASSUME NEW a \in Nat, NEW g \in Nat, NEW n \in Nat, g <= a, a - g <= n,
         \A i \in 1..n : i <= a - g
  PROVE  a - g = n
<1>1. CASE n = 0
  BY <1>1
<1>2. CASE n # 0
  <2>1. n \in 1..n
    BY <1>2
  <2> QED
    BY <2>1
<1> QED
  BY <1>1, <1>2

LEMMA WriteInv ==
  ASSUME NEW s, NEW R, NEW f, NEW E, NEW p, Inv(s, R, f, E, p), s.writable
  PROVE  Inv(Push([s EXCEPT !.drainable = TRUE], Request("write", E.accepted + 1)), R, f,
             [E EXCEPT !.accepted = E.accepted + 1], p)
<1> DEFINE u == [s EXCEPT !.drainable = TRUE]
           n == E.accepted + 1
           r == Request("write", n)
           t == Push(u, r)
           F == [E EXCEPT !.accepted = n]
           l == Len(s.queue)
<1>1. s \in StreamType /\ E \in SeenType /\ f \in FileType /\ R \subseteq RequestType
  BY DEF Inv, Types
<1>2. /\ u \in StreamType /\ u.fd = s.fd /\ u.writable = s.writable /\ u.busy = s.busy
      /\ u.queue = s.queue /\ u.onopen = s.onopen
  BY <1>1, Zenon DEF StreamType
<1>3. E.accepted \in Nat /\ n \in Nat /\ n = E.accepted + 1
  BY <1>1 DEF SeenType
<1> HIDE DEF u, n
<1>4. /\ r \in RequestType /\ r.op = "write" /\ r.n = n /\ r.run = FALSE
  BY <1>3 DEF RequestType, Request
<1>5. /\ F \in SeenType /\ F.thrown = E.thrown /\ F.accepted = n
      /\ F.called = E.called /\ F.drains = E.drains /\ F.ended = E.ended
      /\ F.errors = E.errors
  BY <1>1, <1>3 DEF SeenType
<1> HIDE DEF r, F
<1>6. /\ t \in StreamType /\ t.fd = s.fd /\ t.writable = s.writable /\ t.onopen = s.onopen
      /\ t.busy = s.busy /\ l \in Nat /\ Len(t.queue) = l + 1
      /\ t.queue[l + 1] = r /\ \A i \in 1..l : t.queue[i] = s.queue[i]
  <2>1. /\ t \in StreamType /\ t.fd = u.fd /\ t.writable = u.writable /\ t.onopen = u.onopen
        /\ t.busy = u.busy /\ Len(u.queue) \in Nat /\ Len(t.queue) = Len(u.queue) + 1
        /\ t.queue[Len(u.queue) + 1] = r /\ \A i \in 1..Len(u.queue) : t.queue[i] = u.queue[i]
    BY <1>2, <1>4, Pushed, Zenon
  <2> HIDE DEF t
  <2> QED
    BY <1>2, <2>1
<1> HIDE DEF t
<1>7. ~E.ended /\ \A i \in 1..l : s.queue[i].op = "write" /\ s.queue[i].n <= E.accepted
  BY DEF Inv, QueueOK
<1>8. \A i \in 1..l : s.queue[i].n \in Nat
  <2>1. s.queue \in Seq(RequestType)
    BY <1>1 DEF StreamType
  <2>2. \A i \in 1..l : s.queue[i] \in RequestType
    BY <2>1
  <2> QED
    BY <2>2 DEF RequestType
<1>9. \A i \in 1..Len(t.queue) :
        /\ t.queue[i].op = "write" /\ t.queue[i].n <= n /\ ~t.queue[i].run
        /\ \/ i \in 1..l /\ t.queue[i] = s.queue[i]
           \/ i = l + 1 /\ t.queue[i].n = n
  <2> TAKE i \in 1..Len(t.queue)
  <2>1. CASE i \in 1..l
    BY <2>1, <1>3, <1>6, <1>7, <1>8 DEF Inv, QueueOK
  <2>2. CASE i = l + 1
    BY <2>2, <1>3, <1>4, <1>6
  <2> QED
    BY <2>1, <2>2, <1>6, Places
<1> HIDE DEF l
<1>10. Types(t, R, f, F, p)
  BY <1>5, <1>6 DEF Inv, Types
<1>11. QueueOK(t, F)
  <2>1. ASSUME NEW i \in 1..Len(t.queue), NEW j \in 1..Len(t.queue), i < j
        PROVE  t.queue[i].n < t.queue[j].n
    <3>1. i \in 1..l
      BY <2>1, <1>6
    <3>2. CASE j \in 1..l
      BY <2>1, <3>1, <3>2, <1>6, <1>7 DEF Inv, QueueOK, l
    <3>3. CASE j = l + 1
      <4>1. /\ t.queue[i].n = s.queue[i].n /\ s.queue[i].n <= E.accepted
            /\ s.queue[i].n \in Nat
        BY <3>1, <1>6, <1>7, <1>8, Zenon
      <4>2. t.queue[j].n = n
        BY <3>3, <1>4, <1>6, Zenon
      <4> HIDE DEF t
      <4> QED
        BY <4>1, <4>2, <1>3
    <3> QED
      BY <3>2, <3>3, <1>6, Places
  <2> QED
    BY <2>1, <1>5, <1>6, <1>7, <1>9 DEF QueueOK
<1>12. SentOK(t, R, F, p)
  <2>1. \A x \in R : x.op # "close"
    BY <1>7 DEF Inv, SentOK
  <2> QED
    BY <2>1, <1>5, <1>6 DEF Inv, SentOK
<1>13. OrderOK(t, R, f, F, p)
  <2>1. /\ \A k \in 1..Len(f.content) : f.content[k] \in Nat /\ f.content[k] <= E.accepted
        /\ \A k \in 1..Len(E.called) : E.called[k] \in Nat /\ E.called[k] <= E.accepted
        /\ \A x \in R : x.n \in Nat /\ (x.op = "write" => x.n <= E.accepted)
    BY <1>1 DEF Inv, OrderOK, FileType, SeenType, RequestType
  <2>2. /\ \A k \in 1..Len(f.content) : f.content[k] < n /\ f.content[k] <= n
        /\ \A k \in 1..Len(E.called) : E.called[k] < n /\ E.called[k] <= n
        /\ \A x \in R : x.op = "write" => x.n < n /\ x.n <= n
    BY <2>1, <1>3
  <2>3. ASSUME NEW i \in 1..Len(t.queue)
        PROVE  /\ \A k \in 1..Len(f.content) : f.content[k] < t.queue[i].n
               /\ \A k \in 1..Len(E.called) : E.called[k] < t.queue[i].n
               /\ \A x \in R : x.op = "write" => x.n < t.queue[i].n
    <3>1. CASE i = l + 1 /\ t.queue[i].n = n
      BY <3>1, <2>2
    <3>2. CASE i \in 1..l /\ t.queue[i] = s.queue[i]
      BY <3>2, <1>7 DEF Inv, OrderOK, l
    <3> QED
      BY <3>1, <3>2, <1>9
  <2> QED
    BY <2>2, <2>3, <1>5 DEF Inv, OrderOK
<1>14. WholeOK(t, R, f, F, p)
  <2> SUFFICES ASSUME p.faults = {}
               PROVE  WholeOK(t, R, f, F, p)
    BY DEF WholeOK
  <2>1. ASSUME f.state # "closed"
        PROVE  Exact(t, R, f, F)
    <3> DEFINE g == Gone(R, f)
    <3>1. Exact(s, R, f, E)
      BY <2>1 DEF Inv, WholeOK
    <3>2. g \in Nat
      BY <1>1 DEF Gone, FileType
    <3>3. /\ g <= E.accepted /\ E.accepted - g <= l
          /\ \A i \in 1..l :
               IF i <= E.accepted - g THEN s.queue[i].op = "write" /\ s.queue[i].n = g + i
               ELSE s.queue[i].op = "close"
          /\ \A x \in R : x.op = "write" /\ ~x.run => x.n = g
          /\ f.state = "none" => s.fd = "none" /\ \A x \in R : ~x.run
      BY <3>1 DEF Exact, l
    <3> HIDE DEF g
    <3>4. \A i \in 1..l : i <= E.accepted - g
      BY <3>3, <1>7 DEF l
    <3>5. E.accepted - g = l
      BY <3>2, <3>3, <3>4, <1>3, <1>6, Filled, Zenon
    <3>6. n - g = l + 1 /\ n = g + (l + 1) /\ g <= n
      BY <3>2, <3>5, <1>3, <1>6
    <3>7. \A i \in 1..Len(t.queue) :
            i <= n - g /\ t.queue[i].op = "write" /\ t.queue[i].n = g + i
      <4> TAKE i \in 1..Len(t.queue)
      <4>1. i <= n - g
        BY <3>6, <1>6
      <4>2. ASSUME i \in 1..l, t.queue[i] = s.queue[i]
            PROVE  t.queue[i].n = g + i
        BY <4>2, <3>3, <3>4
      <4>3. ASSUME i = l + 1, t.queue[i].n = n
            PROVE  t.queue[i].n = g + i
        BY <4>3, <3>6
      <4> QED
        BY <4>1, <4>2, <4>3, <1>9
    <3>8. n - g <= Len(t.queue)
      BY <3>6, <1>6
    <3> QED
      BY <3>3, <3>6, <3>7, <3>8, <1>5, <1>6 DEF Exact, g
  <2>2. "destroy" \notin p.uses => f.state # "closed"
    BY <1>7 DEF Inv, WholeOK
  <2> QED
    BY <2>1, <2>2, <1>5, <1>6 DEF Inv, WholeOK
<1>15. OnceOK(t, R, f, F, p)
  <2>1. \A x \in R : x.op # "close"
    BY <1>7 DEF Inv, SentOK
  <2> QED
    BY <2>1, <1>7, <1>9 DEF Inv, OnceOK
<1> QED
  BY <1>10, <1>11, <1>12, <1>13, <1>14, <1>15, Zenon DEF Inv, t, r, u, F, n
LEMMA EndInv ==
  ASSUME NEW s, NEW R, NEW f, NEW E, NEW p, Inv(s, R, f, E, p),
         "again" \in p.uses \/ ~E.ended
  PROVE  Inv(Push([s EXCEPT !.writable = FALSE], Request("close", 0)), R, f,
             [E EXCEPT !.ended = TRUE], p)
<1> DEFINE u == [s EXCEPT !.writable = FALSE]
           r == Request("close", 0)
           t == Push(u, r)
           F == [E EXCEPT !.ended = TRUE]
           l == Len(s.queue)
<1>1. s \in StreamType /\ E \in SeenType /\ f \in FileType /\ R \subseteq RequestType
  BY DEF Inv, Types
<1>2. /\ u \in StreamType /\ u.fd = s.fd /\ u.writable = FALSE /\ u.busy = s.busy
      /\ u.queue = s.queue /\ u.onopen = s.onopen
  BY <1>1, Zenon DEF StreamType
<1>3. /\ r \in RequestType /\ r.op = "close" /\ r.run = FALSE
  BY DEF RequestType, Request
<1>4. /\ F \in SeenType /\ F.thrown = E.thrown /\ F.accepted = E.accepted
      /\ F.called = E.called /\ F.drains = E.drains /\ F.ended = TRUE
      /\ F.errors = E.errors
  BY <1>1, Zenon DEF SeenType
<1> HIDE DEF u, r, F
<1>5. /\ t \in StreamType /\ t.fd = s.fd /\ t.writable = FALSE /\ t.onopen = s.onopen
      /\ t.busy = s.busy /\ l \in Nat /\ Len(t.queue) = l + 1
      /\ t.queue[l + 1] = r /\ \A i \in 1..l : t.queue[i] = s.queue[i]
  <2>1. /\ t \in StreamType /\ t.fd = u.fd /\ t.writable = u.writable /\ t.onopen = u.onopen
        /\ t.busy = u.busy /\ Len(u.queue) \in Nat /\ Len(t.queue) = Len(u.queue) + 1
        /\ t.queue[Len(u.queue) + 1] = r /\ \A i \in 1..Len(u.queue) : t.queue[i] = u.queue[i]
    BY <1>2, <1>3, Pushed, Zenon
  <2> HIDE DEF t
  <2> QED
    BY <1>2, <2>1
<1> HIDE DEF t
<1>6. \A i \in 1..Len(t.queue) :
        \/ i \in 1..l /\ t.queue[i] = s.queue[i]
        \/ i = l + 1 /\ t.queue[i].op = "close" /\ ~t.queue[i].run
  BY <1>3, <1>5, Places
<1> HIDE DEF l
<1>7. Types(t, R, f, F, p)
  BY <1>4, <1>5 DEF Inv, Types
<1>8. QueueOK(t, F)
  <2>1. ASSUME NEW i \in 1..Len(t.queue)
        PROVE  /\ t.queue[i].op \in {"write", "close"} /\ ~t.queue[i].run
               /\ t.queue[i].op = "write" => t.queue[i].n <= E.accepted
    BY <1>6 DEF Inv, QueueOK, l
  <2>2. ASSUME NEW i \in 1..Len(t.queue), NEW j \in 1..Len(t.queue), i < j,
               t.queue[j].op = "write"
        PROVE  t.queue[i].op = "write" /\ t.queue[i].n < t.queue[j].n
    <3>1. j \in 1..l /\ t.queue[j] = s.queue[j]
      BY <2>2, <1>6
    <3>2. i \in 1..l /\ t.queue[i] = s.queue[i]
      BY <2>2, <3>1, <1>5
    <3> QED
      BY <2>2, <3>1, <3>2 DEF Inv, QueueOK, l
  <2> QED
    BY <2>1, <2>2, <1>4, <1>5 DEF QueueOK
<1>9. SentOK(t, R, F, p)
  <2>1. ASSUME NEW x \in R, x.op = "close"
        PROVE  \A i \in 1..Len(t.queue) : t.queue[i].op = "close"
    BY <2>1, <1>6 DEF Inv, SentOK, l
  <2> QED
    BY <2>1, <1>4, <1>5 DEF Inv, SentOK
<1>10. OrderOK(t, R, f, F, p)
  <2>1. \A i \in 1..Len(t.queue) :
          t.queue[i].op = "write" => i \in 1..Len(s.queue) /\ t.queue[i] = s.queue[i]
    BY <1>6 DEF l
  <2> QED
    BY <2>1, <1>4 DEF Inv, OrderOK
<1>11. WholeOK(t, R, f, F, p)
  <2> SUFFICES ASSUME p.faults = {}
               PROVE  WholeOK(t, R, f, F, p)
    BY DEF WholeOK
  <2>1. ASSUME f.state # "closed"
        PROVE  Exact(t, R, f, F)
    <3> DEFINE g == Gone(R, f)
    <3>1. Exact(s, R, f, E)
      BY <2>1 DEF Inv, WholeOK
    <3>2. g \in Nat /\ E.accepted \in Nat
      BY <1>1 DEF Gone, FileType, SeenType
    <3>3. /\ g <= E.accepted /\ E.accepted - g <= l
          /\ \A i \in 1..l :
               IF i <= E.accepted - g THEN s.queue[i].op = "write" /\ s.queue[i].n = g + i
               ELSE s.queue[i].op = "close"
          /\ \A x \in R : x.op = "write" /\ ~x.run => x.n = g
          /\ f.state = "none" => s.fd = "none" /\ \A x \in R : ~x.run
      BY <3>1 DEF Exact, l
    <3> HIDE DEF g
    <3>4. E.accepted - g <= Len(t.queue) /\ ~(l + 1 <= E.accepted - g)
      BY <3>2, <3>3, <1>5
    <3>5. \A i \in 1..Len(t.queue) :
             IF i <= E.accepted - g THEN t.queue[i].op = "write" /\ t.queue[i].n = g + i
             ELSE t.queue[i].op = "close"
      BY <3>3, <3>4, <1>6
    <3> QED
      BY <3>3, <3>4, <3>5, <1>4, <1>5 DEF Exact, g
  <2> QED
    BY <2>1, <1>4, <1>5 DEF Inv, WholeOK
<1>12. OnceOK(t, R, f, F, p)
  <2> SUFFICES ASSUME p.uses = {}
               PROVE  OnceOK(t, R, f, F, p)
    BY DEF OnceOK
  <2>1. ~E.ended
    OBVIOUS
  <2>2. f.state # "closed" /\ ~f.again /\ \A x \in R : x.op # "close"
    BY <2>1 DEF Inv, OnceOK, SentOK
  <2>3. \A i \in 1..l : s.queue[i].op # "close"
    BY <2>1 DEF Inv, QueueOK, l
  <2>4. \A i \in 1..Len(t.queue) : t.queue[i].op = "close" => i = Len(t.queue)
    BY <2>3, <1>5, <1>6
  <2> QED
    BY <2>2, <2>4 DEF OnceOK
<1> QED
  BY <1>7, <1>8, <1>9, <1>10, <1>11, <1>12, Zenon DEF Inv, t, r, u, F
-----------------------------------------------------------------------------
(* destroy() and the callbacks.                                             *)

\* destroy() sends a close past the queue, or leaves it to 'open'.
LEMMA DestroyInv ==
  ASSUME NEW s, NEW R, NEW f, NEW E, NEW p, Inv(s, R, f, E, p), "destroy" \in p.uses,
         NEW t \in StreamType, NEW D,
         t.fd = s.fd, t.writable => s.writable, t.busy = s.busy, t.queue = s.queue,
         D = {} \/ (D = {Request("destroy", 0)} /\ t.fd # "none"),
         NEW F \in SeenType,
         F.accepted = E.accepted, F.called = E.called, F.drains = E.drains,
         F.ended = E.ended, F.errors = E.errors, F.thrown = E.thrown
  PROVE  Inv(t, R \cup D, f, F, p)
<1>1. /\ D \subseteq RequestType
      /\ \A r \in D : r.op = "destroy" /\ t.fd # "none"
  <2>1. Request("destroy", 0) \in RequestType /\ Request("destroy", 0).op = "destroy"
    BY DEF RequestType, Request
  <2> QED
    BY <2>1
<1> DEFINE S == R \cup D
<1>2. /\ S \subseteq RequestType
      /\ \A r \in S : r.op # "destroy" => r \in R
      /\ \A r \in R : r \in S
      /\ \A r \in S : r \in R \/ (r.op = "destroy" /\ t.fd # "none")
  BY <1>1 DEF Inv, Types
<1>3. t.fd = "none" => S = R
  BY <1>1
<1> HIDE DEF S
<1>4. Types(t, S, f, F, p)
  BY <1>2 DEF Inv, Types
<1>5. QueueOK(t, F)
  BY DEF Inv, QueueOK
<1>6. SentOK(t, S, F, p)
  BY <1>2, <1>3 DEF Inv, SentOK
<1>7. OrderOK(t, S, f, F, p)
  BY <1>2 DEF Inv, OrderOK
<1>8. WholeOK(t, S, f, F, p)
  <2>1. Gone(S, f) = Gone(R, f)
    <3>1. (\E r \in S : r.op = "write" /\ ~r.run) <=> (\E r \in R : r.op = "write" /\ ~r.run)
      BY <1>2
    <3> QED
      BY <3>1, Zenon DEF Gone
  <2>2. Exact(s, R, f, E) => Exact(t, S, f, F)
    BY <2>1, <1>2, <1>3 DEF Exact
  <2> QED
    BY <2>2, <1>2 DEF Inv, WholeOK
<1>9. OnceOK(t, S, f, F, p)
  BY DEF OnceOK
<1> QED
  BY <1>4, <1>5, <1>6, <1>7, <1>8, <1>9, Zenon DEF Inv, S

\* One more number behind smaller ones.
LEMMA OneMore ==
  ASSUME NEW q \in Seq(Nat), NEW n \in Nat, Increasing(q), \A k \in 1..Len(q) : q[k] < n
  PROVE  /\ Append(q, n) \in Seq(Nat) /\ Len(Append(q, n)) = Len(q) + 1
         /\ Increasing(Append(q, n))
         /\ \A k \in 1..Len(Append(q, n)) : Append(q, n)[k] <= n
         /\ Range(Append(q, n)) = Range(q) \cup {n}
<1> DEFINE t == Append(q, n)
<1>1. /\ t \in Seq(Nat) /\ Len(t) = Len(q) + 1 /\ Len(q) \in Nat /\ t[Len(q) + 1] = n
      /\ \A k \in 1..Len(q) : t[k] = q[k]
      /\ DOMAIN t = 1..Len(t) /\ DOMAIN q = 1..Len(q)
  OBVIOUS
<1> HIDE DEF t
<1>2. \A k \in 1..Len(q) : q[k] \in Nat
  OBVIOUS
<1>3. \A k \in 1..Len(t) : k \in 1..Len(q) \/ k = Len(q) + 1
  BY <1>1
<1>4. Increasing(t)
  <2> SUFFICES ASSUME NEW k \in 2..Len(t)
               PROVE  t[k - 1] < t[k]
    BY DEF Increasing
  <2>1. k - 1 \in 1..Len(q) /\ k \in 1..Len(t)
    BY <1>1
  <2>2. CASE k \in 1..Len(q)
    <3>1. k \in 2..Len(q)
      BY <2>2
    <3>2. q[k - 1] < q[k]
      BY <3>1 DEF Increasing
    <3> QED
      BY <3>2, <2>1, <2>2, <1>1, Zenon
  <2>3. CASE k = Len(q) + 1
    <3>1. t[k] = n
      BY <2>3, <1>1
    <3>2. t[k - 1] = q[k - 1]
      BY <2>1, <1>1, Zenon
    <3> QED
      BY <3>1, <3>2, <2>1
  <2> QED
    BY <2>1, <2>2, <2>3, <1>3
<1>5. \A k \in 1..Len(t) : t[k] <= n
  BY <1>1, <1>2, <1>3
<1>6. Range(t) = Range(q) \cup {n}
  <2>1. \A k \in 1..Len(q) : k \in 1..Len(t)
    BY <1>1
  <2>2. Len(q) + 1 \in 1..Len(t)
    BY <1>1
  <2>3. Range(t) \subseteq Range(q) \cup {n}
    BY <1>1, <1>3 DEF Range
  <2>4. Range(q) \subseteq Range(t) /\ n \in Range(t)
    BY <2>1, <2>2, <1>1 DEF Range
  <2> QED
    BY <2>3, <2>4
<1> QED
  BY <1>1, <1>4, <1>5, <1>6, Zenon DEF t
\* A request of the queue comes back.
LEMMA BackInv ==
  ASSUME NEW s, NEW R, NEW f, NEW E, NEW p, Inv(s, R, f, E, p),
         NEW r \in R, r.run, r.op # "destroy",
         NEW t \in StreamType,
         t.busy = FALSE, t.queue = s.queue, t.onopen = s.onopen, t.writable => s.writable,
         NEW F \in SeenType,
         F.accepted = E.accepted, F.drains = E.drains, F.ended = E.ended,
         E.errors => F.errors, F.thrown = E.thrown,
         t.fd = "other" \/ (t.fd = s.fd /\ (s.fd = "none" => ~r.ok /\ F.errors)),
         r.op # "open" => t.fd = s.fd,
         \/ F.called = E.called
         \/ r.op = "write" /\ r.ok /\ F.called = Append(E.called, r.n)
  PROVE  Inv(t, R \ {r}, f, F, p)
<1> DEFINE S == R \ {r}
<1>1. E \in SeenType /\ f \in FileType /\ R \subseteq RequestType /\ r \in RequestType
  BY DEF Inv, Types
<1>2. ~E.thrown /\ \A x \in S : x \in R /\ x.op = "destroy"
  BY DEF Inv, SentOK
<1>3. r.op = "open" => S = {}
  BY <1>2 DEF Inv, SentOK
<1>4. S \subseteq RequestType
  BY <1>1
<1> HIDE DEF S
<1>5. Types(t, S, f, F, p)
  BY <1>4 DEF Inv, Types
<1>6. QueueOK(t, F)
  BY DEF Inv, QueueOK
<1>7. SentOK(t, S, F, p)
  <2>1. \A x \in S : t.fd # "none" /\ "destroy" \in p.uses
    BY <1>2, <1>3 DEF Inv, SentOK
  <2>2. t.fd = "none" => F.errors
    OBVIOUS
  <2> QED
    BY <1>2, <2>1, <2>2, ZenonT(40) DEF Inv, SentOK
<1>8. OrderOK(t, S, f, F, p)
  <2>1. CASE F.called = E.called
    BY <2>1, <1>2 DEF Inv, OrderOK
  <2>2. CASE r.op = "write" /\ r.ok /\ F.called = Append(E.called, r.n)
    <3>1. /\ E.called \in Seq(Nat) /\ r.n \in Nat /\ E.accepted \in Nat
          /\ Increasing(E.called) /\ r.n <= E.accepted
          /\ \A k \in 1..Len(E.called) : E.called[k] < r.n
      BY <1>1, <2>2 DEF Inv, OrderOK, SeenType, RequestType
    <3>2. /\ Increasing(F.called)
          /\ \A k \in 1..Len(F.called) : F.called[k] <= r.n
          /\ Range(F.called) = Range(E.called) \cup {r.n}
      BY <3>1, <2>2, OneMore, Zenon
    <3>3. \A k \in 1..Len(F.called) : F.called[k] \in Nat
      BY DEF SeenType
    <3>4. \A k \in 1..Len(F.called) : F.called[k] <= E.accepted
      BY <3>1, <3>2, <3>3
    <3>5. ASSUME NEW i \in 1..Len(s.queue), s.queue[i].op = "write",
                 NEW k \in 1..Len(F.called)
          PROVE  F.called[k] < s.queue[i].n
      <4>1. s.queue \in Seq(RequestType)
        BY DEF Inv, Types, StreamType
      <4>2. s.queue[i] \in RequestType
        BY <4>1
      <4>3. s.queue[i].n \in Nat
        BY <4>2 DEF RequestType
      <4>4. r.n < s.queue[i].n
        BY <2>2, <3>5 DEF Inv, OrderOK
      <4>5. F.called[k] <= r.n /\ F.called[k] \in Nat
        BY <3>2, <3>3
      <4>6. r.n \in Nat
        BY <3>1
      <4> QED
        BY <4>3, <4>4, <4>5, <4>6
    <3>6. "short" \notin p.faults => Range(F.called) \subseteq Range(f.content)
      BY <2>2, <3>2 DEF Inv, OrderOK
    <3> QED
      BY <1>2, <3>2, <3>4, <3>5, <3>6 DEF Inv, OrderOK
  <2> QED
    BY <2>1, <2>2
<1>9. WholeOK(t, S, f, F, p)
  <2> SUFFICES ASSUME p.faults = {}
               PROVE  WholeOK(t, S, f, F, p)
    BY DEF WholeOK
  <2>1. t.fd # "none"
    <3>1. s.fd = "none" => r.ok
      BY DEF Inv, WholeOK, SentOK
    <3> QED
      BY <3>1
  <2>2. ~(r.op = "write" /\ ~r.run)
    OBVIOUS
  <2>3. Gone(S, f) = Gone(R, f)
    <3>1. (\E x \in S : x.op = "write" /\ ~x.run) <=> (\E x \in R : x.op = "write" /\ ~x.run)
      BY <2>2, <1>2 DEF S
    <3> QED
      BY <3>1, Zenon DEF Gone
  <2>4. Exact(s, R, f, E) => Exact(t, S, f, F)
    BY <2>1, <2>3, <1>2 DEF Exact
  <2> QED
    BY <2>1, <2>4 DEF Inv, WholeOK
<1>10. OnceOK(t, S, f, F, p)
  BY <1>2 DEF Inv, OnceOK
<1> QED
  BY <1>5, <1>6, <1>7, <1>8, <1>9, <1>10, Zenon DEF Inv, S

\* The close of destroy() comes back.
LEMMA DestroyedInv ==
  ASSUME NEW s, NEW R, NEW f, NEW E, NEW p, Inv(s, R, f, E, p),
         NEW r \in R, r.op = "destroy",
         NEW F \in SeenType,
         F.accepted = E.accepted, F.called = E.called, F.drains = E.drains,
         F.ended = E.ended, E.errors => F.errors, F.thrown = E.thrown
  PROVE  Inv(s, R \ {r}, f, F, p)
<1> DEFINE S == R \ {r}
<1>1. /\ S \subseteq R /\ \A x \in R : x.op # "destroy" => x \in S
      /\ s.fd # "none" /\ "destroy" \in p.uses
  BY DEF Inv, SentOK
<1> HIDE DEF S
<1>2. Types(s, S, f, F, p)
  BY <1>1 DEF Inv, Types
<1>3. QueueOK(s, F)
  BY DEF Inv, QueueOK
<1>4. SentOK(s, S, F, p)
  BY <1>1 DEF Inv, SentOK
<1>5. OrderOK(s, S, f, F, p)
  BY <1>1, Zenon DEF Inv, OrderOK
<1>6. WholeOK(s, S, f, F, p)
  <2>1. Gone(S, f) = Gone(R, f)
    <3>1. (\E x \in S : x.op = "write" /\ ~x.run) <=> (\E x \in R : x.op = "write" /\ ~x.run)
      BY <1>1
    <3> QED
      BY <3>1, Zenon DEF Gone
  <2>2. Exact(s, R, f, E) => Exact(s, S, f, F)
    BY <2>1, <1>1 DEF Exact
  <2> QED
    BY <2>2, <1>1 DEF Inv, WholeOK
<1>7. OnceOK(s, S, f, F, p)
  BY <1>1 DEF OnceOK
<1> QED
  BY <1>2, <1>3, <1>4, <1>5, <1>6, <1>7, Zenon DEF Inv, S
-----------------------------------------------------------------------------
(* The threads run a request.                                               *)

Ran(R, r, ok) == (R \ {r}) \cup {[r EXCEPT !.run = TRUE, !.ok = ok]}

RanOK(S, R, r, ok) ==
  /\ S \subseteq RequestType
  /\ \A x \in S : \/ x \in R /\ x # r
                  \/ x.op = r.op /\ x.n = r.n /\ x.run = TRUE /\ x.ok = ok
  /\ \A x \in R : x # r => x \in S
  /\ \E x \in S : x.op = r.op /\ x.n = r.n /\ x.run = TRUE /\ x.ok = ok

LEMMA RanSet ==
  ASSUME NEW s, NEW R, NEW f, NEW E, NEW p, Inv(s, R, f, E, p),
         NEW r \in R, ~r.run, NEW ok \in BOOLEAN
  PROVE  RanOK(Ran(R, r, ok), R, r, ok) /\ SentOK(s, Ran(R, r, ok), E, p)
<1> DEFINE S == Ran(R, r, ok)
           y == [r EXCEPT !.run = TRUE, !.ok = ok]
<1>1. r \in RequestType /\ R \subseteq RequestType
  BY DEF Inv, Types
<1>2. y \in RequestType /\ y.op = r.op /\ y.n = r.n /\ y.run = TRUE /\ y.ok = ok
  BY <1>1, ZenonT(40) DEF RequestType
<1>3. S = (R \ {r}) \cup {y}
  BY DEF Ran
<1> HIDE DEF S, y
<1>4. RanOK(S, R, r, ok)
  BY <1>1, <1>2, <1>3 DEF RanOK
<1>5. SentOK(s, S, E, p)
  <2>1. \A x \in S : x = y \/ (x \in R /\ x # r)
    BY <1>3
  <2>2. ASSUME NEW x \in S, NEW z \in S, x.op # "destroy", z.op # "destroy"
        PROVE  x = z
    BY <2>1, <2>2, <1>2 DEF Inv, SentOK
  <2>3. (\E x \in S : x.op # "destroy") <=> (\E x \in R : x.op # "destroy")
    BY <1>2, <1>3
  <2>4. ~E.thrown
    BY DEF Inv, SentOK
  <2>5. \A x \in S : /\ x.op = "open" <=> s.fd = "none"
                     /\ x.op = "close" => /\ E.ended
                                          /\ \A i \in 1..Len(s.queue) : s.queue[i].op = "close"
                     /\ x.op = "destroy" => "destroy" \in p.uses
    BY <2>1, <1>2 DEF Inv, SentOK
  <2> QED
    BY <2>2, <2>3, <2>4, <2>5 DEF Inv, SentOK
<1> QED
  BY <1>4, <1>5, Zenon DEF S

LEMMA OpenRunInv ==
  ASSUME NEW s, NEW R, NEW f, NEW E, NEW p, Inv(s, R, f, E, p),
         NEW r \in R, ~r.run, r.op = "open", NEW ok \in BOOLEAN, p.faults = {} => ok,
         NEW g \in FileType, g.content = f.content, g.again = f.again,
         g.state = (IF ok THEN "open" ELSE f.state)
  PROVE  Inv(s, Ran(R, r, ok), g, E, p)
<1> DEFINE S == Ran(R, r, ok)
<1>0. RanOK(S, R, r, ok) /\ SentOK(s, S, E, p)
  BY RanSet
<1>1. /\ S \subseteq RequestType
      /\ \A x \in S : \/ x \in R /\ x # r
                      \/ x.op = r.op /\ x.n = r.n /\ x.run = TRUE /\ x.ok = ok
      /\ \A x \in R : x # r => x \in S
      /\ \E x \in S : x.op = r.op /\ x.n = r.n /\ x.run = TRUE /\ x.ok = ok
      /\ SentOK(s, S, E, p)
  BY <1>0 DEF RanOK
<1> HIDE DEF S
<1>2. s.fd = "none" /\ \A x \in S : x.op = "open"
  BY <1>1 DEF Inv, SentOK
<1>3. Types(s, S, g, E, p) /\ QueueOK(s, E)
  BY <1>1 DEF Inv, Types
<1>4. OrderOK(s, S, g, E, p)
  <2>1. \A x \in S : x.run
    BY <1>1, <1>2 DEF Inv, SentOK
  <2> QED
    BY <1>2, <2>1 DEF Inv, OrderOK
<1>5. WholeOK(s, S, g, E, p)
  <2> SUFFICES ASSUME p.faults = {}
               PROVE  WholeOK(s, S, g, E, p)
    BY DEF WholeOK
  <2>1. ok /\ g.state = "open"
    OBVIOUS
  <2>2. \A x \in R : x.op = "open"
    BY <1>2 DEF Inv, SentOK
  <2>3. Gone(S, g) = Gone(R, f)
    <3>1. (\E x \in S : x.op = "write" /\ ~x.run) <=> (\E x \in R : x.op = "write" /\ ~x.run)
      BY <1>2, <2>2
    <3> QED
      BY <3>1, ZenonT(40) DEF Gone
  <2>4. f.state = "none"
    BY DEF Inv, OrderOK
  <2>5. Exact(s, R, f, E)
    BY <2>4 DEF Inv, WholeOK
  <2>6. Exact(s, S, g, E)
    BY <2>1, <2>3, <2>5, <1>2 DEF Exact
  <2>7. \E x \in S : x.op = "open" /\ (x.run => x.ok)
    BY <2>1, <1>1, ZenonT(40)
  <2> QED
    BY <2>1, <2>6, <2>7 DEF Inv, WholeOK
<1>6. OnceOK(s, S, g, E, p)
  BY <1>1, <1>2 DEF Inv, OnceOK
<1> QED
  BY <1>1, <1>3, <1>4, <1>5, <1>6, Zenon DEF Inv, S
LEMMA CloseRunInv ==
  ASSUME NEW s, NEW R, NEW f, NEW E, NEW p, Inv(s, R, f, E, p),
         NEW r \in R, ~r.run, r.op \in {"close", "destroy"}, NEW ok \in BOOLEAN,
         NEW g \in FileType, g.content = f.content,
         g.state = (IF f.state = "open" THEN "closed" ELSE f.state),
         g.again = (f.again \/ f.state = "closed")
  PROVE  Inv(s, Ran(R, r, ok), g, E, p)
<1> DEFINE S == Ran(R, r, ok)
<1>0. RanOK(S, R, r, ok) /\ SentOK(s, S, E, p)
  BY RanSet
<1>1. /\ S \subseteq RequestType
      /\ \A x \in S : \/ x \in R /\ x # r
                      \/ x.op = r.op /\ x.n = r.n /\ x.run = TRUE /\ x.ok = ok
      /\ \A x \in R : x # r => x \in S
      /\ \E x \in S : x.op = r.op /\ x.n = r.n /\ x.run = TRUE /\ x.ok = ok
      /\ SentOK(s, S, E, p)
  BY <1>0 DEF RanOK
<1> HIDE DEF S
<1>2. s.fd # "none" /\ \A x \in S : x.op # "open"
  BY <1>1 DEF Inv, SentOK
<1>3. Types(s, S, g, E, p) /\ QueueOK(s, E)
  BY <1>1 DEF Inv, Types
<1>4. OrderOK(s, S, g, E, p)
  <2>1. \A x \in S : x.op = "write" => x \in R
    BY <1>1
  <2> QED
    BY <1>2, <2>1 DEF Inv, OrderOK
<1>5. WholeOK(s, S, g, E, p)
  <2> SUFFICES ASSUME p.faults = {}
               PROVE  WholeOK(s, S, g, E, p)
    BY DEF WholeOK
  <2>1. f.state # "closed" => Exact(s, R, f, E)
    BY DEF Inv, WholeOK
  <2>2. g.state = "closed"
    <3>1. f.state \in {"none", "open", "closed"}
      BY DEF Inv, Types, FileType
    <3> QED
      BY <3>1, <2>1, <1>2 DEF Exact
  <2>3. ASSUME "destroy" \notin p.uses, f.state # "closed"
        PROVE  E.ended /\ Len(f.content) = E.accepted
    <3>1. r.op = "close"
      BY <2>3 DEF Inv, SentOK
    <3>2. E.ended /\ \A j \in 1..Len(s.queue) : s.queue[j].op = "close"
      BY <3>1 DEF Inv, SentOK
    <3>3. ~\E x \in R : x.op = "write" /\ ~x.run
      BY <3>1 DEF Inv, SentOK
    <3>4. Gone(R, f) = Len(f.content) /\ Len(f.content) \in Nat /\ E.accepted \in Nat
      BY <3>3 DEF Gone, Inv, Types, FileType, SeenType
    <3> DEFINE m == Len(f.content)
    <3>5. /\ m <= E.accepted /\ E.accepted - m <= Len(s.queue)
          /\ \A j \in 1..Len(s.queue) : j <= E.accepted - m => s.queue[j].op = "write"
      BY <2>1, <2>3, <3>4 DEF Exact
    <3>6. Len(s.queue) \in Nat
      BY DEF Inv, Types, StreamType
    <3>7. ASSUME m < E.accepted
          PROVE  FALSE
      <4>1. 1 \in 1..Len(s.queue) /\ 1 <= E.accepted - m
        BY <3>4, <3>5, <3>6, <3>7
      <4> QED
        BY <4>1, <3>2, <3>5
    <3> QED
      BY <3>2, <3>4, <3>5, <3>7
  <2> QED
    BY <2>2, <2>3, <1>2 DEF Inv, WholeOK
<1>6. OnceOK(s, S, g, E, p)
  <2> SUFFICES ASSUME p.uses = {}
               PROVE  OnceOK(s, S, g, E, p)
    BY DEF OnceOK
  <2>1. f.state # "closed" /\ ~f.again
    BY DEF Inv, OnceOK
  <2>2. r.op = "close" /\ \A x \in R : x = r
    BY DEF Inv, SentOK
  <2>3. E.ended /\ s.queue = << >>
    BY <2>2 DEF Inv, SentOK, OnceOK
  <2>4. \A x \in S : x.run
    BY <2>2, <1>1
  <2>5. ~g.again /\ \A i \in 1..Len(s.queue) : s.queue[i].op = "close" => i = Len(s.queue)
    BY <2>1, ZenonT(40) DEF Inv, OnceOK
  <2> QED
    BY <2>3, <2>4, <2>5 DEF OnceOK
<1> QED
  BY <1>1, <1>3, <1>4, <1>5, <1>6, Zenon DEF Inv, S

LEMMA WriteRunInv ==
  ASSUME NEW s, NEW R, NEW f, NEW E, NEW p, Inv(s, R, f, E, p),
         NEW r \in R, ~r.run, r.op = "write", NEW ok \in BOOLEAN,
         NEW g \in FileType, g.state = f.state,
         \/ /\ f.state = "open" /\ g.again = f.again
            /\ g.content = Append(f.content, r.n)
         \/ /\ g.again = (f.again \/ f.state = "closed") /\ g.content = f.content
            /\ ok => "short" \in p.faults
            /\ p.faults = {} => f.state # "open"
  PROVE  Inv(s, Ran(R, r, ok), g, E, p)
<1> DEFINE S == Ran(R, r, ok)
<1>0. RanOK(S, R, r, ok) /\ SentOK(s, S, E, p)
  BY RanSet
<1>1. /\ S \subseteq RequestType
      /\ \A x \in S : \/ x \in R /\ x # r
                      \/ x.op = r.op /\ x.n = r.n /\ x.run = TRUE /\ x.ok = ok
      /\ \A x \in R : x # r => x \in S
      /\ \E x \in S : x.op = r.op /\ x.n = r.n /\ x.run = TRUE /\ x.ok = ok
      /\ SentOK(s, S, E, p)
  BY <1>0 DEF RanOK
<1> HIDE DEF S
<1>2. /\ s.fd # "none" /\ \A x \in S : x.op # "open"
      /\ \A x \in S : x.op = "write" => x.n = r.n /\ x.run /\ x.ok = ok
      /\ \A x \in R : x.op = "write" => x = r
  BY <1>1 DEF Inv, SentOK
<1>3. Types(s, S, g, E, p) /\ QueueOK(s, E)
  BY <1>1, Zenon DEF Inv, Types
<1>4. /\ f.content \in Seq(Nat) /\ Len(f.content) \in Nat /\ r.n \in Nat /\ E.accepted \in Nat
  BY DEF Inv, Types, FileType, RequestType, SeenType
<1>5. /\ Increasing(f.content) /\ r.n <= E.accepted
      /\ \A k \in 1..Len(f.content) : f.content[k] < r.n
      /\ \A j \in 1..Len(s.queue) : s.queue[j].op = "write" => r.n < s.queue[j].n
  BY DEF Inv, OrderOK
<1>6. ASSUME g.content = Append(f.content, r.n)
      PROVE  /\ Len(g.content) = Len(f.content) + 1 /\ Increasing(g.content)
             /\ \A k \in 1..Len(g.content) : g.content[k] <= r.n
             /\ Range(g.content) = Range(f.content) \cup {r.n}
  BY <1>4, <1>5, <1>6, OneMore, Zenon
<1>7. OrderOK(s, S, g, E, p)
  <2>1. CASE g.content = f.content /\ (ok => "short" \in p.faults)
    BY <2>1, <1>2, Zenon DEF Inv, OrderOK
  <2>2. CASE g.content = Append(f.content, r.n)
    <3>1. /\ Increasing(g.content) /\ Range(g.content) = Range(f.content) \cup {r.n}
          /\ \A k \in 1..Len(g.content) : g.content[k] <= r.n /\ g.content[k] \in Nat
      <4>1. \A k \in 1..Len(g.content) : g.content[k] \in Nat
        BY DEF FileType
      <4> QED
        BY <4>1, <2>2, <1>6
    <3>2. \A k \in 1..Len(g.content) : g.content[k] <= E.accepted
      BY <3>1, <1>4, <1>5
    <3>3. ASSUME NEW j \in 1..Len(s.queue), s.queue[j].op = "write",
                 NEW k \in 1..Len(g.content)
          PROVE  g.content[k] < s.queue[j].n
      <4>1. s.queue \in Seq(RequestType)
        BY DEF Inv, Types, StreamType
      <4>2. s.queue[j] \in RequestType
        BY <4>1
      <4>3. s.queue[j].n \in Nat
        BY <4>2 DEF RequestType
      <4>4. r.n < s.queue[j].n /\ r.n \in Nat
        BY <3>3, <1>4, <1>5
      <4>5. g.content[k] <= r.n /\ g.content[k] \in Nat
        BY <3>1
      <4> QED
        BY <4>3, <4>4, <4>5
    <3>4. \A x \in S : x.op = "write" =>
            /\ x.n <= E.accepted
            /\ \A j \in 1..Len(s.queue) : s.queue[j].op = "write" => x.n < s.queue[j].n
            /\ \A k \in 1..Len(g.content) : g.content[k] <= x.n
            /\ \A k \in 1..Len(E.called) : E.called[k] < x.n
            /\ x.n \in Range(g.content)
      BY <3>1, <1>2, <1>5, Zenon DEF Inv, OrderOK
    <3>5. "short" \notin p.faults => Range(E.called) \subseteq Range(g.content)
      BY <3>1, Zenon DEF Inv, OrderOK
    <3> QED
      BY <3>1, <3>2, <3>3, <3>4, <3>5, <1>2, Zenon DEF Inv, OrderOK
  <2> QED
    BY <2>1, <2>2
<1>8. WholeOK(s, S, g, E, p)
  <2> SUFFICES ASSUME p.faults = {}
               PROVE  WholeOK(s, S, g, E, p)
    BY DEF WholeOK
  <2>1. f.state # "closed" => Exact(s, R, f, E)
    BY DEF Inv, WholeOK
  <2>2. f.state \in {"open", "closed"}
    <3>1. f.state \in {"none", "open", "closed"}
      BY DEF Inv, Types, FileType
    <3> QED
      BY <3>1, <2>1, <1>2 DEF Exact
  <2>3. CASE f.state = "closed"
    BY <2>3, <1>2 DEF Inv, WholeOK
  <2>4. CASE f.state = "open"
    <3>1. g.content = Append(f.content, r.n)
      BY <2>4
    <3> DEFINE m == Len(f.content)
    <3>2. Gone(R, f) = m + 1
      <4>1. \E x \in R : x.op = "write" /\ ~x.run
        OBVIOUS
      <4> QED
        BY <4>1, ZenonT(40) DEF Gone
    <3>3. Gone(S, g) = m + 1
      <4>1. ~\E x \in S : x.op = "write" /\ ~x.run
        BY <1>2
      <4>2. Len(g.content) = m + 1
        BY <3>1, <1>6
      <4> QED
        BY <4>1, <4>2, <1>4 DEF Gone
    <3>4. r.n = m + 1
      BY <2>1, <2>4, <3>2 DEF Exact
    <3>5. g.content = Upto(Len(g.content))
      <4>1. f.content = Upto(m)
        BY DEF Inv, WholeOK
      <4>2. Append(Upto(m), m + 1) = Upto(m + 1)
        BY <1>4 DEF Upto
      <4>3. Len(g.content) = m + 1
        BY <3>1, <1>6
      <4> QED
        BY <4>1, <4>2, <4>3, <3>1, <3>4
    <3>6. Exact(s, S, g, E)
      BY <2>1, <2>4, <3>2, <3>3, <1>2 DEF Exact
    <3>7. "destroy" \notin p.uses => E.drains <= Len(g.content)
      <4>1. E.drains \in Nat
        BY DEF Inv, Types, SeenType
      <4>2. "destroy" \notin p.uses => E.drains <= Len(f.content)
        BY DEF Inv, WholeOK
      <4>3. Len(g.content) = m + 1
        BY <3>1, <1>6
      <4> QED
        BY <4>1, <4>2, <4>3, <1>4
    <3> QED
      BY <2>4, <3>5, <3>6, <3>7, <1>2 DEF WholeOK
  <2> QED
    BY <2>2, <2>3, <2>4
<1>9. OnceOK(s, S, g, E, p)
  <2> SUFFICES ASSUME p.uses = {}
               PROVE  OnceOK(s, S, g, E, p)
    BY DEF OnceOK
  <2>1. f.state # "closed" /\ ~f.again
    BY DEF Inv, OnceOK
  <2>2. \A x \in S : x.op = "close" => x \in R
    BY <1>1
  <2> QED
    BY <2>1, <2>2, ZenonT(40) DEF Inv, OnceOK
<1> QED
  BY <1>1, <1>3, <1>7, <1>8, <1>9, Zenon DEF Inv, S
-----------------------------------------------------------------------------
(* The specification.                                                       *)

LEMMA InitWInv ==
  ASSUME WriteAssumption, Init
  PROVE  WInv
<1> USE DEF Init
<1>1. program \in Programs /\ program.fd \in {"none", "zero", "other"}
  BY DEF WriteAssumption
<1>2. << >> \in Seq(Nat) /\ << >> \in Seq(RequestType)
  OBVIOUS
<1>3. /\ Request("open", 0) \in RequestType
      /\ Request("open", 0).op = "open" /\ ~Request("open", 0).run
  BY DEF RequestType, Request
<1>4. /\ ws \in StreamType /\ ws.fd = program.fd /\ ws.queue = << >> /\ ws.onopen = FALSE
      /\ ws.busy = (program.fd = "none") /\ ws.writable = TRUE
  <2>1. (program.fd = "none") \in BOOLEAN
    OBVIOUS
  <2> QED
    BY <1>1, <1>2, <2>1 DEF StreamType
<1>5. /\ file \in FileType /\ file.content = << >> /\ file.again = FALSE
      /\ file.state = IF program.fd = "none" THEN "none" ELSE "open"
  BY <1>2 DEF FileType
<1>6. /\ seen \in SeenType /\ seen.accepted = 0 /\ seen.called = << >> /\ seen.drains = 0
      /\ seen.ended = FALSE /\ seen.thrown = FALSE
  BY <1>2 DEF SeenType
<1>7. /\ reqs \subseteq RequestType
      /\ \A r \in reqs : r = Request("open", 0) /\ r.op = "open" /\ ~r.run /\ program.fd = "none"
      /\ program.fd = "none" => \E r \in reqs : r.op = "open" /\ ~r.run
  BY <1>3
<1>8. Types(ws, reqs, file, seen, program)
  BY <1>1, <1>4, <1>5, <1>6, <1>7 DEF Types
<1>9. QueueOK(ws, seen)
  BY <1>4, <1>6 DEF QueueOK
<1>10. SentOK(ws, reqs, seen, program)
  BY <1>4, <1>6, <1>7, Zenon DEF SentOK
<1>11. Increasing(<< >>) /\ Range(<< >>) = {} /\ << >> = Upto(0) /\ Len(<< >>) = 0
  BY DEF Increasing, Range, Upto
<1>12. OrderOK(ws, reqs, file, seen, program)
  BY <1>4, <1>5, <1>6, <1>7, <1>11 DEF OrderOK
<1>13. Gone(reqs, file) = 0
  BY <1>5, <1>7 DEF Gone
<1>14. Exact(ws, reqs, file, seen)
  BY <1>4, <1>5, <1>6, <1>7, <1>13 DEF Exact
<1>15. WholeOK(ws, reqs, file, seen, program)
  BY <1>4, <1>5, <1>6, <1>7, <1>11, <1>14 DEF WholeOK
<1>16. OnceOK(ws, reqs, file, seen, program)
  BY <1>4, <1>5, <1>7 DEF OnceOK
<1> QED
  BY <1>8, <1>9, <1>10, <1>12, <1>15, <1>16, Zenon DEF WInv, Inv
LEMMA FlushedInv ==
  ASSUME NEW s, NEW R, NEW E, NEW rest, Inv(s, R, file, E, program), Flushed(s, R, E, rest),
         file' = file, program' = program
  PROVE  WInv'
<1>1. ws' = flush(s, R, E).s /\ reqs' = flush(s, R, E).R /\ seen' = flush(s, R, E).E
  BY DEF Flushed
<1>2. Inv(flush(s, R, E).s, flush(s, R, E).R, file, flush(s, R, E).E, program)
  BY FlushInv
<1> QED
  BY <1>1, <1>2, Zenon DEF WInv

LEMMA ErrorInv ==
  ASSUME NEW s, NEW R, NEW f, NEW E, NEW p, Inv(s, R, f, E, p)
  PROVE  Inv(s, R, f, [E EXCEPT !.errors = TRUE], p)
<1> DEFINE F == [E EXCEPT !.errors = TRUE]
<1>1. E \in SeenType
  BY DEF Inv, Types
<1>2. /\ F \in SeenType /\ F.accepted = E.accepted /\ F.called = E.called
      /\ F.drains = E.drains /\ F.ended = E.ended /\ F.thrown = E.thrown /\ F.errors = TRUE
  BY <1>1, ZenonT(40) DEF SeenType
<1> HIDE DEF F
<1>3. Types(s, R, f, F, p) /\ QueueOK(s, F)
  BY <1>2, Zenon DEF Inv, Types, QueueOK
<1>4. SentOK(s, R, F, p)
  BY <1>2, Zenon DEF Inv, SentOK
<1>5. OrderOK(s, R, f, F, p)
  BY <1>2, Zenon DEF Inv, OrderOK
<1>6. WholeOK(s, R, f, F, p)
  BY <1>2, Zenon DEF Inv, WholeOK, Exact
<1>7. OnceOK(s, R, f, F, p)
  BY <1>2, Zenon DEF Inv, OnceOK
<1> QED
  BY <1>3, <1>4, <1>5, <1>6, <1>7, Zenon DEF Inv, F

LEMMA CallsStep ==
  ASSUME WInv, program' = program, Write \/ WriteRefused \/ End \/ Destroy
  PROVE  WInv'
<1>0. Inv(ws, reqs, file, seen, program) /\ ws \in StreamType /\ seen \in SeenType
  BY DEF WInv, Inv, Types
<1>1. CASE Write
  <2> DEFINE s == Push([ws EXCEPT !.drainable = TRUE], Request("write", seen.accepted + 1))
             E == [seen EXCEPT !.accepted = seen.accepted + 1]
  <2>1. ws.writable /\ Flushed(s, reqs, E, stack) /\ file' = file
    BY <1>1 DEF Write, Refuses
  <2>2. Inv(s, reqs, file, E, program)
    BY <1>0, <2>1, WriteInv
  <2> HIDE DEF s, E
  <2> QED
    BY <2>1, <2>2, FlushedInv
<1>2. CASE WriteRefused
  <2>1. ws' = ws /\ reqs' = reqs /\ file' = file /\ seen' = [seen EXCEPT !.errors = TRUE]
    BY <1>2 DEF WriteRefused
  <2>2. Inv(ws, reqs, file, [seen EXCEPT !.errors = TRUE], program)
    BY <1>0, ErrorInv
  <2> QED
    BY <2>1, <2>2, Zenon DEF WInv
<1>3. CASE End
  <2> DEFINE s == Push([ws EXCEPT !.writable = FALSE], Request("close", 0))
             E == [seen EXCEPT !.ended = TRUE]
  <2>1. /\ "again" \in program.uses \/ ~seen.ended
        /\ Flushed(s, reqs, E, stack) /\ file' = file
    BY <1>3 DEF End, Uses
  <2>2. Inv(s, reqs, file, E, program)
    BY <1>0, <2>1, EndInv
  <2> HIDE DEF s, E
  <2> QED
    BY <2>1, <2>2, FlushedInv
<1>4. CASE Destroy
  <2>1. /\ "destroy" \in program.uses /\ file' = file
        /\ seen' = [seen EXCEPT !.destroyed = TRUE]
        /\ \/ /\ ws.fd = "other" /\ reqs' = reqs \cup {Request("destroy", 0)}
              /\ ws' = [ws EXCEPT !.writable = FALSE]
           \/ reqs' = reqs /\ ws' = [ws EXCEPT !.writable = FALSE, !.onopen = TRUE]
    BY <1>4 DEF Destroy, Uses
  <2>2. /\ ws' \in StreamType /\ ws'.fd = ws.fd /\ ws'.writable = FALSE /\ ws'.busy = ws.busy
        /\ ws'.queue = ws.queue
    BY <1>0, <2>1, Zenon DEF StreamType
  <2>3. /\ seen' \in SeenType /\ seen'.accepted = seen.accepted /\ seen'.called = seen.called
        /\ seen'.drains = seen.drains /\ seen'.ended = seen.ended
        /\ seen'.errors = seen.errors /\ seen'.thrown = seen.thrown
    BY <1>0, <2>1, Zenon DEF SeenType
  <2>4. PICK D : /\ reqs' = reqs \cup D
                 /\ D = {} \/ (D = {Request("destroy", 0)} /\ ws'.fd # "none")
    <3>1. CASE reqs' = reqs
      <4>1. reqs' = reqs \cup {}
        BY <3>1
      <4> QED
        BY <4>1, Zenon
    <3>2. CASE ws.fd = "other" /\ reqs' = reqs \cup {Request("destroy", 0)}
      BY <3>2, <2>2, Zenon
    <3> QED
      BY <2>1, <3>1, <3>2
  <2>5. Inv(ws', reqs \cup D, file, seen', program)
    BY <1>0, <2>1, <2>2, <2>3, <2>4, DestroyInv, Zenon
  <2> QED
    BY <2>1, <2>4, <2>5, Zenon DEF WInv
<1> QED
  BY <1>1, <1>2, <1>3, <1>4
LEMMA CallbacksStep ==
  ASSUME WInv, program' = program, Callbacks
  PROVE  WInv'
<1>0. /\ Inv(ws, reqs, file, seen, program) /\ ws \in StreamType /\ seen \in SeenType
      /\ reqs \subseteq RequestType
  BY DEF WInv, Inv, Types
<1>1. CASE OnError
  <2>1. PICK r \in reqs : /\ r.op \in {"open", "write", "close"} /\ r.run /\ ~r.ok
                          /\ reqs' = reqs \ {r}
    BY <1>1 DEF OnError, Done
  <2>2. ws' = Failed(ws) /\ seen' = [seen EXCEPT !.errors = TRUE] /\ file' = file
    BY <1>1 DEF OnError
  <2>3. /\ ws' \in StreamType /\ ws'.busy = FALSE /\ ws'.queue = ws.queue /\ ws'.fd = ws.fd
        /\ ws'.onopen = ws.onopen /\ ws'.writable = FALSE
    BY <1>0, <2>2, Zenon DEF StreamType, Failed, Idled
  <2>4. /\ seen' \in SeenType /\ seen'.accepted = seen.accepted /\ seen'.called = seen.called
        /\ seen'.drains = seen.drains /\ seen'.ended = seen.ended
        /\ seen'.errors = TRUE /\ seen'.thrown = seen.thrown
    BY <1>0, <2>2, Zenon DEF SeenType
  <2>5. Inv(ws', reqs \ {r}, file, seen', program)
    BY <1>0, <2>1, <2>3, <2>4, BackInv, Zenon
  <2> QED
    BY <2>1, <2>2, <2>5, Zenon DEF WInv
<1>2. CASE OnClose
  <2>1. PICK r \in reqs : r.op = "close" /\ r.run /\ reqs' = reqs \ {r}
    BY <1>2 DEF OnClose, Done
  <2>2. ws' = Idled(ws) /\ seen' = [seen EXCEPT !.closed = TRUE] /\ file' = file
    BY <1>2 DEF OnClose
  <2>3. /\ ws' \in StreamType /\ ws'.busy = FALSE /\ ws'.queue = ws.queue /\ ws'.fd = ws.fd
        /\ ws'.onopen = ws.onopen /\ ws'.writable = ws.writable
    BY <1>0, <2>2, Zenon DEF StreamType, Idled
  <2>4. /\ seen' \in SeenType /\ seen'.accepted = seen.accepted /\ seen'.called = seen.called
        /\ seen'.drains = seen.drains /\ seen'.ended = seen.ended
        /\ seen'.errors = seen.errors /\ seen'.thrown = seen.thrown
    BY <1>0, <2>2, Zenon DEF SeenType
  <2>5. ws.fd # "none"
    BY <1>0, <2>1 DEF Inv, SentOK
  <2>6. Inv(ws', reqs \ {r}, file, seen', program)
    BY <1>0, <2>1, <2>3, <2>4, <2>5, BackInv, Zenon
  <2> QED
    BY <2>1, <2>2, <2>6, Zenon DEF WInv
<1>3. CASE OnOpen
  <2>1. PICK r \in reqs :
          /\ r.op = "open" /\ r.run /\ r.ok
          /\ reqs' = (reqs \ {r}) \cup (IF ws.onopen THEN {Request("destroy", 0)} ELSE {})
    BY <1>3 DEF OnOpen, Done
  <2>2. ws' = [Idled(ws) EXCEPT !.fd = "other"] /\ seen' = seen /\ file' = file
    BY <1>3 DEF OnOpen
  <2>3. /\ ws' \in StreamType /\ ws'.busy = FALSE /\ ws'.queue = ws.queue /\ ws'.fd = "other"
        /\ ws'.onopen = ws.onopen /\ ws'.writable = ws.writable
    BY <1>0, <2>2, Zenon DEF StreamType, Idled
  <2>4. Inv(ws', reqs \ {r}, file, seen, program)
    BY <1>0, <2>1, <2>3, BackInv, ZenonT(40)
  <2>5. CASE ~ws.onopen
    <3>1. reqs' = reqs \ {r}
      BY <2>1, <2>5
    <3> QED
      BY <2>2, <2>4, <3>1, Zenon DEF WInv
  <2>6. CASE ws.onopen
    <3>1. reqs' = (reqs \ {r}) \cup {Request("destroy", 0)}
      BY <2>1, <2>6
    <3>2. "destroy" \in program.uses
      BY <1>0, <2>6 DEF Inv, SentOK
    <3>3. Inv(ws', (reqs \ {r}) \cup {Request("destroy", 0)}, file, seen, program)
      BY <1>0, <2>3, <2>4, <3>2, DestroyInv, Zenon
    <3> QED
      BY <2>2, <3>1, <3>3, Zenon DEF WInv
  <2> QED
    BY <2>5, <2>6
<1>4. CASE OnWritten
  <2>1. PICK r \in reqs : /\ r.op = "write" /\ r.run /\ r.ok /\ reqs' = reqs \ {r}
                          /\ seen' = [seen EXCEPT !.called = Append(@, r.n)]
    BY <1>4, Zenon DEF OnWritten, Done
  <2>2. ws' = Idled(ws) /\ file' = file
    BY <1>4 DEF OnWritten
  <2>3. /\ ws' \in StreamType /\ ws'.busy = FALSE /\ ws'.queue = ws.queue /\ ws'.fd = ws.fd
        /\ ws'.onopen = ws.onopen /\ ws'.writable = ws.writable
    BY <1>0, <2>2, Zenon DEF StreamType, Idled
  <2>4. Append(seen.called, r.n) \in Seq(Nat)
    BY <1>0 DEF SeenType, RequestType
  <2>5. /\ seen' \in SeenType /\ seen'.accepted = seen.accepted
        /\ seen'.called = Append(seen.called, r.n)
        /\ seen'.drains = seen.drains /\ seen'.ended = seen.ended
        /\ seen'.errors = seen.errors /\ seen'.thrown = seen.thrown
    <3> DEFINE c == Append(seen.called, r.n)
    <3>1. seen' = [seen EXCEPT !.called = c] /\ c \in Seq(Nat)
      BY <2>1, <2>4
    <3> HIDE DEF c
    <3>2. /\ seen' \in SeenType /\ seen'.accepted = seen.accepted /\ seen'.called = c
          /\ seen'.drains = seen.drains /\ seen'.ended = seen.ended
          /\ seen'.errors = seen.errors /\ seen'.thrown = seen.thrown
      BY <1>0, <3>1, Zenon DEF SeenType
    <3> QED
      BY <3>2 DEF c
  <2>6. ws.fd # "none"
    BY <1>0, <2>1 DEF Inv, SentOK
  <2>7. Inv(ws', reqs \ {r}, file, seen', program)
    BY <1>0, <2>1, <2>3, <2>5, <2>6, BackInv, ZenonT(40)
  <2> QED
    BY <2>1, <2>2, <2>7, Zenon DEF WInv
<1>5. CASE OnDestroyed
  <2>1. PICK r \in reqs :
          /\ r.op = "destroy" /\ reqs' = reqs \ {r}
          /\ seen' = IF r.ok THEN [seen EXCEPT !.closed = TRUE] ELSE [seen EXCEPT !.errors = TRUE]
    BY <1>5 DEF OnDestroyed, Done
  <2>2. ws' = ws /\ file' = file
    BY <1>5 DEF OnDestroyed
  <2>3. /\ seen' \in SeenType /\ seen'.accepted = seen.accepted /\ seen'.called = seen.called
        /\ seen'.drains = seen.drains /\ seen'.ended = seen.ended
        /\ seen.errors => seen'.errors
    <3>1. CASE seen' = [seen EXCEPT !.closed = TRUE]
      BY <1>0, <3>1, Zenon DEF SeenType
    <3>2. CASE seen' = [seen EXCEPT !.errors = TRUE]
      BY <1>0, <3>2, Zenon DEF SeenType
    <3> QED
      BY <2>1, <3>1, <3>2
  <2>4. seen'.thrown = seen.thrown
    BY <1>0, <2>1 DEF SeenType
  <2>5. Inv(ws, reqs \ {r}, file, seen', program)
    BY <1>0, <2>1, <2>3, <2>4, DestroyedInv, Zenon
  <2> QED
    BY <2>1, <2>2, <2>5, Zenon DEF WInv
<1> QED
  BY <1>1, <1>2, <1>3, <1>4, <1>5 DEF Callbacks
LEMMA ThreadsStep ==
  ASSUME WriteAssumption, WInv, program' = program, Threads
  PROVE  WInv'
<1>0. /\ Inv(ws, reqs, file, seen, program) /\ file \in FileType /\ program \in Programs
      /\ reqs \subseteq RequestType
  BY DEF WInv, Inv, Types
<1>1. CASE ThreadOpens
  <2>1. PICK r \in reqs, ok \in {TRUE} \cup (IF "error" \in program.faults THEN {FALSE} ELSE {}) :
          /\ r.op = "open" /\ ~r.run /\ Runs(r, ok)
          /\ file' = IF ok THEN [file EXCEPT !.state = "open"] ELSE file
          /\ ws' = ws /\ seen' = seen
    BY <1>1, Zenon DEF ThreadOpens
  <2>2. ok \in BOOLEAN /\ (program.faults = {} => ok)
    BY Zenon
  <2>3. /\ file' \in FileType /\ file'.content = file.content /\ file'.again = file.again
        /\ file'.state = (IF ok THEN "open" ELSE file.state)
    BY <1>0, <2>1 DEF FileType
  <2>4. Inv(ws, Ran(reqs, r, ok), file', seen, program)
    BY <1>0, <2>1, <2>2, <2>3, OpenRunInv, Zenon
  <2> QED
    BY <2>1, <2>4, Zenon DEF WInv, Runs, Ran
<1>2. CASE ThreadWrites
  <2>1. PICK r \in reqs, result \in {"whole"} \cup program.faults :
          /\ r.op = "write" /\ ~r.run /\ Runs(r, file.state = "open" /\ result # "error")
          /\ file' = IF file.state # "open"
                     THEN [file EXCEPT !.again = @ \/ file.state = "closed"]
                     ELSE IF result = "whole" THEN [file EXCEPT !.content = Append(@, r.n)]
                     ELSE file
          /\ ws' = ws /\ seen' = seen
    BY <1>2, ZenonT(40) DEF ThreadWrites
  <2> DEFINE ok == file.state = "open" /\ result # "error"
  <2>2. ok \in BOOLEAN
    OBVIOUS
  <2>3. result \in {"whole", "error", "short"} /\ (result # "whole" => result \in program.faults)
    BY <1>0, <2>1 DEF WriteAssumption
  <2>4. /\ file' \in FileType /\ file'.state = file.state
        /\ \/ /\ file.state = "open" /\ file'.again = file.again
              /\ file'.content = Append(file.content, r.n)
           \/ /\ file'.again = (file.again \/ file.state = "closed")
              /\ file'.content = file.content
              /\ ok => "short" \in program.faults
              /\ program.faults = {} => file.state # "open"
    <3>1. CASE file.state # "open"
      <4> DEFINE a == file.again \/ file.state = "closed"
      <4>1. file' = [file EXCEPT !.again = a] /\ a \in BOOLEAN
        BY <2>1, <3>1
      <4> HIDE DEF a
      <4>2. /\ file' \in FileType /\ file'.state = file.state /\ file'.again = a
            /\ file'.content = file.content
        BY <1>0, <4>1 DEF FileType
      <4> QED
        BY <4>2, <3>1 DEF a
    <3>2. CASE file.state = "open" /\ result = "whole"
      <4> DEFINE c == Append(file.content, r.n)
      <4>1. c \in Seq(Nat)
        BY <1>0 DEF FileType, RequestType
      <4>2. file' = [file EXCEPT !.content = c]
        BY <2>1, <3>2
      <4> HIDE DEF c
      <4>3. /\ file' \in FileType /\ file'.state = file.state /\ file'.again = file.again
            /\ file'.content = c
        BY <1>0, <4>1, <4>2 DEF FileType
      <4> QED
        BY <4>3, <3>2 DEF c
    <3>3. CASE file.state = "open" /\ result # "whole"
      <4>1. file' = file /\ file.again \in BOOLEAN
        BY <1>0, <2>1, <3>3 DEF FileType
      <4>2. file'.again = (file.again \/ file.state = "closed")
        BY <4>1, <3>3
      <4>3. ok => "short" \in program.faults
        BY <2>3, <3>3
      <4> QED
        BY <4>1, <4>2, <4>3, <1>0, <2>3, <3>3
    <3> QED
      BY <3>1, <3>2, <3>3
  <2> HIDE DEF ok
  <2>5. Inv(ws, Ran(reqs, r, ok), file', seen, program)
    BY <1>0, <2>1, <2>2, <2>4, WriteRunInv, Zenon
  <2>6. reqs' = Ran(reqs, r, ok)
    BY <2>1 DEF Runs, Ran, ok
  <2> QED
    BY <2>1, <2>5, <2>6, Zenon DEF WInv
<1>3. CASE ThreadCloses
  <2>1. PICK r \in reqs :
          /\ r.op \in {"close", "destroy"} /\ ~r.run /\ Runs(r, file.state = "open")
          /\ file' = IF file.state = "open" THEN [file EXCEPT !.state = "closed"]
                     ELSE [file EXCEPT !.again = @ \/ file.state = "closed"]
          /\ ws' = ws /\ seen' = seen
    BY <1>3 DEF ThreadCloses
  <2> DEFINE ok == file.state = "open"
  <2>2. ok \in BOOLEAN
    OBVIOUS
  <2>3. /\ file' \in FileType /\ file'.content = file.content
        /\ file'.state = (IF file.state = "open" THEN "closed" ELSE file.state)
        /\ file'.again = (file.again \/ file.state = "closed")
    <3>1. CASE file.state = "open"
      BY <1>0, <2>1, <3>1 DEF FileType
    <3>2. CASE file.state # "open"
      <4> DEFINE a == file.again \/ file.state = "closed"
      <4>1. file' = [file EXCEPT !.again = a] /\ a \in BOOLEAN
        BY <2>1, <3>2
      <4> HIDE DEF a
      <4>2. /\ file' \in FileType /\ file'.state = file.state /\ file'.again = a
            /\ file'.content = file.content
        BY <1>0, <4>1 DEF FileType
      <4> QED
        BY <4>2, <3>2 DEF a
    <3> QED
      BY <3>1, <3>2
  <2> HIDE DEF ok
  <2>4. Inv(ws, Ran(reqs, r, ok), file', seen, program)
    BY <1>0, <2>1, <2>2, <2>3, CloseRunInv, ZenonT(40)
  <2>5. reqs' = Ran(reqs, r, ok)
    BY <2>1 DEF Runs, Ran, ok
  <2> QED
    BY <2>1, <2>4, <2>5, Zenon DEF WInv
<1> QED
  BY <1>1, <1>2, <1>3 DEF Threads

LEMMA NextWInv ==
  ASSUME WriteAssumption, WInv, [Next]_vars
  PROVE  WInv'
<1>1. ASSUME Next
      PROVE  WInv'
  <2>1. program' = program
    BY <1>1 DEF Next
  <2>2. CASE Return \/ OnOther
    <3>1. ws' = ws /\ file' = file /\ reqs' = reqs /\ seen' = seen
      BY <2>2 DEF Return, OnOther
    <3> QED
      BY <2>1, <3>1, Zenon DEF WInv
  <2>3. CASE FlushOn
    <3>1. Flushed(ws, reqs, seen, Tail(stack)) /\ file' = file
      BY <2>3 DEF FlushOn
    <3>2. Inv(ws, reqs, file, seen, program)
      BY DEF WInv
    <3> QED
      BY <2>1, <3>1, <3>2, FlushedInv
  <2> QED
    BY <1>1, <2>1, <2>2, <2>3, CallsStep, CallbacksStep, ThreadsStep DEF Next, Code
<1>2. ASSUME UNCHANGED vars
      PROVE  WInv'
  <2>1. ws' = ws /\ file' = file /\ reqs' = reqs /\ seen' = seen /\ program' = program
    BY <1>2 DEF vars
  <2> QED
    BY <2>1, Zenon DEF WInv
<1> QED
  BY <1>1, <1>2

\* The requests of the queue at the threads are at most one.
LEMMA AtMostOne ==
  ASSUME NEW S, \A x, y \in S : x = y
  PROVE  Cardinality(S) <= 1
<1>1. CASE S = {}
  BY <1>1, FS_EmptySet
<1>2. CASE S # {}
  <2>1. PICK x : x \in S
    BY <1>2
  <2>2. S = {x}
    BY <2>1
  <2> QED
    BY <2>2, FS_Singleton
<1> QED
  BY <1>1, <1>2

LEMMA WInvImplies ==
  ASSUME WInv
  PROVE  TypeOK /\ ContentInOrder /\ ClosedWhole
<1>1. Inv(ws, reqs, file, seen, program)
  BY DEF WInv
<1>2. TypeOK
  <2>1. ws.writable \in BOOLEAN /\ ws.drainable \in BOOLEAN
    BY <1>1 DEF Inv, Types, StreamType
  <2>2. Cardinality({r \in reqs : r.op # "destroy"}) <= 1
    <3>1. \A x, y \in {r \in reqs : r.op # "destroy"} : x = y
      BY <1>1 DEF Inv, SentOK
    <3> QED
      BY <3>1, AtMostOne
  <2> QED
    BY <1>1, <2>1, <2>2 DEF Inv, SentOK, TypeOK
<1>3. ContentInOrder
  BY <1>1, Zenon DEF Inv, OrderOK, WholeOK, ContentInOrder, NoFaults
<1>4. ClosedWhole
  BY <1>1 DEF Inv, WholeOK, OnceOK, ClosedWhole, NoFaults, Uses
<1> QED
  BY <1>2, <1>3, <1>4

\* WriteStream, for any number of writes and any faults: one request of the queue is under
\* way at a time; the file is what was accepted, in order; callbacks, 'drain' and the close
\* come after what they stand for, and nothing after the close of a program that ends its
\* stream once (flush(), end() and destroy()).
THEOREM WriteStreamInOrder ==
  ASSUME WriteAssumption
  PROVE  Spec => [](TypeOK /\ ContentInOrder /\ ClosedWhole)
<1>1. Init => WInv
  BY InitWInv
<1>2. WInv /\ [Next]_vars => WInv'
  BY NextWInv
<1>3. WInv => TypeOK /\ ContentInOrder /\ ClosedWhole
  BY WInvImplies
<1> QED
  BY <1>1, <1>2, <1>3, PTL DEF Spec
=============================================================================
