--------------------------- MODULE WafRunnerProofs ---------------------------
(***************************************************************************)
(* Proofs about the task scheduler of waf for any build, any number of     *)
(* tasks and of threads, and any limits: the inductive invariant, that it  *)
(* holds at the beginning, that the consumers, the main thread and the     *)
(* manager keep it, and what it says of every build.                       *)
(***************************************************************************)
EXTENDS WafRunner, FiniteSetTheorems, TLAPS

-----------------------------------------------------------------------------
(* Counting the places a task is in.                                        *)

Bit(t, S) == IF t \in S THEN 1 ELSE 0

(* Cardinality({t} \cap S), as the model counts a membership, is 0 or 1. *)
LEMMA BitIs ==
  ASSUME NEW t, NEW S
  PROVE  Cardinality({t} \cap S) = Bit(t, S)
<1>1. CASE t \in S
  <2>1. {t} \cap S = {t}
    BY <1>1, Zenon
  <2> QED
    BY <1>1, <2>1, FS_Singleton, Zenon DEF Bit
<1>2. CASE t \notin S
  <2>1. {t} \cap S = {}
    BY <1>2, Zenon
  <2> QED
    BY <1>2, <2>1, FS_EmptySet, Zenon DEF Bit
<1> QED
  BY <1>1, <1>2, Zenon

(* How often a task is in a queue. *)
LEMMA CopiesType ==
  ASSUME NEW S, NEW q \in Seq(S), NEW t
  PROVE  /\ Copies(q, t) \in Nat
         /\ IsFiniteSet({i \in 1..Len(q) : q[i] = t})
         /\ (\E i \in 1..Len(q) : q[i] = t) <=> Copies(q, t) > 0
<1> DEFINE A == {i \in 1..Len(q) : q[i] = t}
<1>1. IsFiniteSet(1..Len(q))
  <2>1. 1 \in Int /\ Len(q) \in Int
    OBVIOUS
  <2> QED
    BY <2>1, FS_Interval, Zenon
<1>2. A \in SUBSET (1..Len(q))
  OBVIOUS
<1>3. IsFiniteSet(A)
  BY <1>1, <1>2, FS_Subset, Zenon
<1>4. Cardinality(A) \in Nat /\ (Cardinality(A) = 0 <=> A = {})
  BY <1>3, FS_CardinalityType, FS_EmptySet, Zenon
<1>5. (\E i \in 1..Len(q) : q[i] = t) <=> A # {}
  BY Zenon
<1>6. Cardinality(A) > 0 <=> Cardinality(A) # 0
  BY <1>4
<1> QED
  BY <1>3, <1>4, <1>5, <1>6, Zenon DEF Copies

(* A queue that gets a task has it once more. *)
LEMMA CopiesAppend ==
  ASSUME NEW S, NEW q \in Seq(S), NEW x, NEW t
  PROVE  Copies(Append(q, x), t) = Copies(q, t) + Bit(t, {x})
<1> DEFINE A == {i \in 1..Len(q) : q[i] = t}
           B == {i \in 1..Len(Append(q, x)) : Append(q, x)[i] = t}
<1>1. IsFiniteSet(A) /\ Copies(q, t) = Cardinality(A) /\ Cardinality(A) \in Nat
  BY CopiesType, Zenon DEF Copies
<1>2. Len(Append(q, x)) = Len(q) + 1 /\ Len(q) \in Nat /\ Append(q, x)[Len(q) + 1] = x
      /\ \A i \in 1..Len(q) : Append(q, x)[i] = q[i]
  OBVIOUS
<1>5. Copies(Append(q, x), t) = Cardinality(B)
  BY Zenon DEF Copies
<1>3. CASE x = t
  <2>1. B = A \cup {Len(q) + 1} /\ Len(q) + 1 \notin A
    BY <1>2, <1>3
  <2> HIDE DEF A, B
  <2>2. Cardinality(B) = Cardinality(A) + 1
    BY <1>1, <2>1, FS_AddElement, Zenon
  <2> QED
    BY <1>1, <1>3, <1>5, <2>2, Zenon DEF Bit
<1>4. CASE x # t
  <2>1. B = A
    BY <1>2, <1>4
  <2> HIDE DEF A, B
  <2> QED
    BY <1>1, <1>4, <1>5, <2>1 DEF Bit
<1> QED
  BY <1>3, <1>4, Zenon

(* A queue that gives its first task has it once less. *)
LEMMA CopiesTail ==
  ASSUME NEW S, NEW q \in Seq(S), q # << >>, NEW t
  PROVE  /\ Copies(q, t) = Copies(Tail(q), t) + Bit(t, {Head(q)})
         /\ Copies(Tail(q), t) \in Nat
<1> DEFINE A == {i \in 1..Len(Tail(q)) : Tail(q)[i] = t}
           B == {i \in 1..Len(q) : q[i] = t}
           C == B \ {1}
           f == [i \in A |-> i + 1]
<1>1. /\ Tail(q) \in Seq(S) /\ Len(Tail(q)) = Len(q) - 1 /\ Len(q) \in Nat \ {0} /\ Head(q) = q[1]
      /\ \A i \in 1..Len(Tail(q)) : Tail(q)[i] = q[i + 1]
  OBVIOUS
<1>2. /\ IsFiniteSet(A) /\ Copies(Tail(q), t) = Cardinality(A) /\ Cardinality(A) \in Nat
      /\ IsFiniteSet(B) /\ Copies(q, t) = Cardinality(B) /\ Cardinality(B) \in Nat
  BY <1>1, CopiesType, Zenon DEF Copies
<1>3. f \in Bijection(A, C)
  <2>1. f \in [A -> C]
    BY <1>1
  <2>2. \A i, j \in A : f[i] = f[j] => i = j
    OBVIOUS
  <2>3. ASSUME NEW k \in C PROVE \E i \in A : f[i] = k
    <3>1. k \in 2..Len(q) /\ q[k] = t
      BY <1>1
    <3>2. k - 1 \in A /\ f[k - 1] = k
      BY <1>1, <3>1
    <3> QED
      BY <3>2, Zenon
  <2> HIDE DEF f, A, C
  <2> QED
    BY <2>1, <2>2, <2>3, Zenon DEF Bijection, Injection, Surjection, IsInjective
<1>4. Cardinality(C) = Cardinality(A)
  <2> HIDE DEF f, A, C
  <2>1. ExistsBijection(A, C)
    BY <1>3, Zenon DEF ExistsBijection
  <2> QED
    BY <1>2, <2>1, FS_Bijection, Zenon
<1>5. Cardinality(C) = IF 1 \in B THEN Cardinality(B) - 1 ELSE Cardinality(B)
  <2> HIDE DEF B
  <2> QED
    BY <1>2, FS_RemoveElement, Zenon
<1>6. 1 \in B <=> t \in {Head(q)}
  BY <1>1
<1> HIDE DEF A, B, C
<1> QED
  BY <1>2, <1>4, <1>5, <1>6 DEF Bit

(* The threads that execute a task, and those that hold task t.             *)
Slots == [at : {"none", "get"} \cup Running, task : Tasks \cup {NoTask}]
BusyIn(cs) == {c \in Consumers : cs[c].at \in Running}
HeldIn(cs, t) == Cardinality({c \in BusyIn(cs) : cs[c].task = t})

Load(r) == IF r.at \in Running THEN 1 ELSE 0
LoadOf(r, t) == IF r.at \in Running /\ r.task = t THEN 1 ELSE 0

(* Two sets that differ in one element at most. *)
LEMMA Toggle ==
  ASSUME NEW A, NEW B, NEW c, IsFiniteSet(A), IsFiniteSet(B), A \ {c} = B \ {c}
  PROVE  /\ Cardinality(A) \in Nat /\ Cardinality(B) \in Nat
         /\ Cardinality(A) + Bit(c, B) = Cardinality(B) + Bit(c, A)
<1>1. Cardinality(A) \in Nat /\ Cardinality(B) \in Nat
  BY FS_CardinalityType, Zenon
<1>2. /\ Cardinality(A \ {c}) = IF c \in A THEN Cardinality(A) - 1 ELSE Cardinality(A)
      /\ Cardinality(B \ {c}) = IF c \in B THEN Cardinality(B) - 1 ELSE Cardinality(B)
  BY FS_RemoveElement, Zenon
<1> QED
  BY <1>1, <1>2 DEF Bit

(* The threads at work are finitely many; those that hold a task are counted. *)
LEMMA BusyFinite ==
  ASSUME NEW cs, NEW t
  PROVE  /\ IsFiniteSet(BusyIn(cs)) /\ IsFiniteSet({c \in BusyIn(cs) : cs[c].task = t})
         /\ Cardinality(BusyIn(cs)) \in Nat /\ HeldIn(cs, t) \in Nat
         /\ HeldIn(cs, t) > 0 <=> \E c \in BusyIn(cs) : cs[c].task = t
         /\ Cardinality(BusyIn(cs)) > 0 <=> BusyIn(cs) # {}
<1> DEFINE A == BusyIn(cs)
           B == {c \in A : cs[c].task = t}
<1>1. A \in SUBSET Consumers /\ B \in SUBSET Consumers /\ (B # {} <=> \E c \in A : cs[c].task = t)
  BY Zenon DEF BusyIn
<1>2. IsFiniteSet(A) /\ IsFiniteSet(B)
  BY <1>1, BuildAssumption, FS_Subset, Zenon
<1>3. /\ Cardinality(A) \in Nat /\ (Cardinality(A) = 0 <=> A = {})
      /\ Cardinality(B) \in Nat /\ (Cardinality(B) = 0 <=> B = {})
  BY <1>2, FS_CardinalityType, FS_EmptySet, Zenon
<1>4. (Cardinality(A) > 0 <=> Cardinality(A) # 0) /\ (Cardinality(B) > 0 <=> Cardinality(B) # 0)
  BY <1>3
<1> QED
  BY <1>1, <1>2, <1>3, <1>4, Zenon DEF HeldIn

SameBut(cs, ds, c) == \A b \in Consumers \ {c} : ds[b] = cs[b]

(* A step of one thread changes the tasks held by its own.                  *)
LEMMA OneThread ==
  ASSUME NEW cs, NEW ds, NEW c \in Consumers, NEW t, SameBut(cs, ds, c)
  PROVE  /\ HeldIn(ds, t) + LoadOf(cs[c], t) = HeldIn(cs, t) + LoadOf(ds[c], t)
         /\ Cardinality(BusyIn(ds)) + Load(cs[c]) = Cardinality(BusyIn(cs)) + Load(ds[c])
<1> DEFINE A == BusyIn(cs)
           D == BusyIn(ds)
           AT == {b \in A : cs[b].task = t}
           DT == {b \in D : ds[b].task = t}
<1>1. IsFiniteSet(A) /\ IsFiniteSet(D) /\ IsFiniteSet(AT) /\ IsFiniteSet(DT)
  BY BusyFinite, Zenon
<1>2. A \ {c} = D \ {c} /\ AT \ {c} = DT \ {c}
  BY DEF BusyIn, SameBut
<1>3. Load(cs[c]) = Bit(c, A) /\ Load(ds[c]) = Bit(c, D)
  BY Zenon DEF Load, Bit, BusyIn
<1>4. LoadOf(cs[c], t) = Bit(c, AT) /\ LoadOf(ds[c], t) = Bit(c, DT)
  BY Zenon DEF LoadOf, Bit, BusyIn
<1>5. HeldIn(cs, t) = Cardinality(AT) /\ HeldIn(ds, t) = Cardinality(DT)
  BY Zenon DEF HeldIn
<1> HIDE DEF A, D, AT, DT
<1>6. Cardinality(D) + Bit(c, A) = Cardinality(A) + Bit(c, D)
  BY <1>1, <1>2, Toggle, Zenon
<1>7. Cardinality(DT) + Bit(c, AT) = Cardinality(AT) + Bit(c, DT)
  BY <1>1, <1>2, Toggle, Zenon
<1> QED
  BY <1>3, <1>4, <1>5, <1>6, <1>7, Zenon DEF A, D

(* The smallest limit of a set of tasks is the limit of one of them.        *)
LEMMA LimitIs ==
  ASSUME NEW b \in Builds, bld = b, NEW ts \in SUBSET Tasks, ts # {}
  PROVE  /\ Limit(ts) \in 1..MAXJOBS
         /\ Tightest(ts) # {} /\ Tightest(ts) \subseteq ts
<1> DEFINE M == {bld.maxjobs[t] : t \in ts}
           R == OpToRel(<, Nat)
<1>1. bld.maxjobs \in [Tasks -> 1..MAXJOBS] /\ MAXJOBS \in Nat
  BY BuildAssumption, Zenon DEF BuildOK
<1>2. M \subseteq 1..MAXJOBS /\ M # {} /\ M \subseteq Nat
  BY <1>1
<1>3. PICK m \in M : \A n \in M : ~(<<n, m>> \in R)
  <2>1. IsWellFoundedOn(R, Nat)
    BY NatLessThanWellFounded, Zenon
  <2> HIDE DEF M, R
  <2> QED
    BY <1>2, <2>1, WFMin, Zenon
<1>4. \A n \in M : m <= n
  <2>1. \A n \in M : ~(n < m)
    BY <1>2, <1>3, Zenon DEF OpToRel
  <2> HIDE DEF M
  <2> QED
    BY <1>2, <2>1
<1>5. m \in M /\ \A t \in ts : m <= bld.maxjobs[t]
  BY <1>4, Zenon
<1>6. Limit(ts) \in M
  <2> HIDE DEF M
  <2>1. Limit(ts) = CHOOSE n \in M : \A t \in ts : n <= bld.maxjobs[t]
    BY Zenon DEF Limit, M
  <2> QED
    BY <1>5, <2>1, Zenon
<1>7. PICK t \in ts : bld.maxjobs[t] = Limit(ts)
  BY <1>6, Zenon
<1>8. t \in Tightest(ts) /\ Tightest(ts) \subseteq ts
  BY <1>7, Zenon DEF Tightest
<1> QED
  BY <1>2, <1>6, <1>8, Zenon

-----------------------------------------------------------------------------
(* The inductive invariant.                                                 *)

Mains == {"loop", "refill", "nextset", "next", "collect", "save", "ok", "failed", "raised"}
Bad == {"crashed", "exception", "missing", "unset"}

(* The operators of the model with the state they look at as arguments.      *)
Grouped(b, t) == \E i \in DOMAIN b.groups : t \in b.groups[i]
TypesIn(b, g) == {b.type[t] : t \in g}
BeforeIn(b, t, g) ==
  {p \in g : b.type[p] # b.type[t] /\ Precedes(b.type[p], b.type[t])}
PlacesIn(rd, ot, cs, os, fz, td, t) ==
  Copies(rd, t) + Copies(ot, t) + HeldIn(cs, t) + Bit(t, os) + Bit(t, fz) + td[t]

(* A task of a group that the manager has not given to the main thread yet.  *)
Pending(b, g, l, h, t) ==
  \/ t \in b.groups[g] /\ b.type[t] \in l
  \/ t \in h
  \/ \E j \in DOMAIN b.groups : j > g /\ t \in b.groups[j]

(* What the manager has, and what the main thread and the consumers have.    *)
GroupShape ==
  /\ bld \in Builds
  /\ group \in DOMAIN bld.groups /\ left \subseteq TypesIn(bld, bld.groups[group])
  /\ temp_tasks \subseteq bld.groups[group]
  /\ bld.run_after \subseteq run_after
  /\ maxjobs \in Nat \ {0}

RunShape ==
  /\ main \in Mains /\ count \in Nat
  /\ outstanding \subseteq Tasks /\ frozen \subseteq Tasks
  /\ ready \in Seq(Tasks) /\ out \in Seq(Tasks)
  /\ stop \in BOOLEAN /\ error \in BOOLEAN
  /\ consumer \in [Consumers -> Slots]
  /\ \A c \in BusyIn(consumer) : consumer[c].task \in Tasks
  /\ hasrun \in [Tasks -> {"not_run", "success", "skipped"} \cup Bad]
  /\ tasks_done \in [Tasks -> Nat] /\ started \in [Tasks -> Nat]

Shape == GroupShape /\ RunShape

CountOK ==
  /\ count = Len(ready) + Len(out) + Cardinality(BusyIn(consumer))
  /\ count <= maxjobs
  /\ main = "next" => count < maxjobs
  /\ main = "nextset" =>
       count = 0 /\ frozen = {} /\ \A t \in outstanding : ~Grouped(bld, t)

(* A task is in one place when it was given, in none before.                  *)
PlacesOK ==
  \A t \in Tasks :
    LET n == PlacesIn(ready, out, consumer, outstanding, frozen, tasks_done, t)
    IN /\ n <= 1
       /\ Pending(bld, group, left, temp_tasks, t) => n = 0
       /\ Grouped(bld, t) /\ ~Pending(bld, group, left, temp_tasks, t) => n = 1

(* A task that is added by a task comes with its end.                         *)
AddedOK ==
  \A t, p \in Tasks :
    LET n == PlacesIn(ready, out, consumer, outstanding, frozen, tasks_done, t)
    IN t \in bld.more[p] =>
         /\ tasks_done[p] = 0 => n = 0
         /\ tasks_done[p] = 1 /\ started[p] = 1 => stop \/ n = 1

StartedOK ==
  \A t \in Tasks : started[t] <= Copies(out, t) + HeldIn(consumer, t) + tasks_done[t]

(* With job control the tasks given have the limit of the main thread.        *)
LimitOK ==
  bld.algotype = "JOBCONTROL" =>
    \A t \in Tasks :
      /\ Grouped(bld, t) /\ tasks_done[t] = 0
      /\ PlacesIn(ready, out, consumer, outstanding, frozen, tasks_done, t) = 1
      => bld.maxjobs[t] = maxjobs

HandedOK ==
  \A t \in Tasks : Copies(ready, t) + HeldIn(consumer, t) > 0 =>
    \A p \in Tasks : <<t, p>> \in run_after => hasrun[p] # "not_run"

GroupsOK ==
  /\ \A j \in DOMAIN bld.groups : j < group => \A p \in bld.groups[j] : tasks_done[p] = 1
  /\ order = {o \in Constraints(TypesIn(bld, bld.groups[group])) : o[1] \in left}
  /\ bld.algotype = "MAXPARALLEL" => left \in {{}, TypesIn(bld, bld.groups[group])}
  /\ temp_tasks # {} => bld.algotype = "JOBCONTROL"
  /\ \A t \in temp_tasks : bld.type[t] \notin left

(* The tasks that come before a given task by their types.                   *)
BeforeOK ==
  \A t \in bld.groups[group] : bld.type[t] \notin left =>
    \A p \in BeforeIn(bld, t, bld.groups[group]) :
      IF bld.algotype = "MAXPARALLEL" THEN <<t, p>> \in run_after
      ELSE /\ stop \/ hasrun[p] # "not_run"
           /\ HeldIn(consumer, t) > 0 => hasrun[p] # "not_run"

DoneOK ==
  \A t \in Tasks : tasks_done[t] + Copies(out, t) > 0 => hasrun[t] # "not_run" \/ stop

(* What a thread does with its task, and what it leaves in the flags.         *)
ThreadsOK ==
  /\ \A c \in BusyIn(consumer) : consumer[c].at # "run" => hasrun[consumer[c].task] # "not_run"
  /\ \A t \in Tasks : hasrun[t] \in Bad =>
       error \/ \E c \in Consumers : consumer[c].at \in {"stop", "error", "gone"} /\ consumer[c].task = t
  /\ stop => error \/ \E c \in Consumers : consumer[c].at = "error"

AllGiven == left = {} /\ temp_tasks = {} /\ group = Len(bld.groups)

EndOK ==
  /\ main = "next" /\ outstanding = {} => AllGiven /\ frozen = {} /\ count = 0
  /\ main \in {"collect", "save", "ok"} =>
       stop \/ (AllGiven /\ frozen = {} /\ outstanding = {} /\ count = 0)
  /\ main = "ok" => ~error

IInv ==
  /\ Shape /\ CountOK /\ PlacesOK /\ AddedOK /\ StartedOK /\ LimitOK /\ HandedOK
  /\ GroupsOK /\ BeforeOK /\ DoneOK /\ ThreadsOK /\ EndOK

(* What the assumption on builds says about the one that is compiled. *)
LEMMA BuildIs ==
  ASSUME GroupShape
  PROVE  /\ BuildOK(bld) /\ group \in Nat \ {0} /\ group <= Len(bld.groups)
         /\ bld.groups \in Seq(SUBSET Tasks) /\ bld.groups[group] \subseteq Tasks
         /\ \A t : Grouped(bld, t) => t \in Tasks
         /\ \A t, p \in Tasks : t \in bld.more[p] => ~Grouped(bld, t)
         /\ \A t : Pending(bld, group, left, temp_tasks, t) => Grouped(bld, t)
<1>1. BuildOK(bld) /\ group \in DOMAIN bld.groups /\ temp_tasks \subseteq bld.groups[group]
  BY BuildAssumption, Zenon DEF GroupShape
<1>2. bld.groups \in Seq(SUBSET Tasks)
  BY <1>1, Zenon DEF BuildOK
<1>3. group \in Nat \ {0} /\ group <= Len(bld.groups) /\ bld.groups[group] \subseteq Tasks
      /\ \A i \in DOMAIN bld.groups : bld.groups[i] \subseteq Tasks
  BY <1>1, <1>2
<1>4. \A t, p \in Tasks : t \in bld.more[p] => ~Grouped(bld, t)
  <2>1. \A p \in Tasks : \A i \in DOMAIN bld.groups : bld.more[p] \cap bld.groups[i] = {}
    BY <1>1, Zenon DEF BuildOK
  <2> QED
    BY <2>1, Zenon DEF Grouped
<1>5. \A t : Grouped(bld, t) => t \in Tasks
  BY <1>3, Zenon DEF Grouped
<1>6. \A t : Pending(bld, group, left, temp_tasks, t) => Grouped(bld, t)
  BY <1>1, Zenon DEF Pending, Grouped
<1> QED
  BY <1>1, <1>2, <1>3, <1>4, <1>5, <1>6, Zenon

(* What a sum of places adds up.                                             *)
CountsOf(rd, ot, cs, os, fz, td, t) ==
  /\ Copies(rd, t) \in Nat /\ Copies(ot, t) \in Nat /\ HeldIn(cs, t) \in Nat
  /\ Bit(t, os) \in {0, 1} /\ Bit(t, fz) \in {0, 1} /\ td[t] \in Nat

(* The terms of the places of a task are numbers. *)
LEMMA CountsAre ==
  RunShape => \A t \in Tasks : CountsOf(ready, out, consumer, outstanding, frozen, tasks_done, t)
<1> SUFFICES ASSUME RunShape, NEW t \in Tasks
             PROVE  CountsOf(ready, out, consumer, outstanding, frozen, tasks_done, t)
  OBVIOUS
<1>1. ready \in Seq(Tasks) /\ out \in Seq(Tasks) /\ tasks_done[t] \in Nat
  BY Zenon DEF RunShape
<1>2. Copies(ready, t) \in Nat
  BY <1>1, CopiesType, Zenon
<1>3. Copies(out, t) \in Nat
  BY <1>1, CopiesType, Zenon
<1>4. Bit(t, outstanding) \in {0, 1} /\ Bit(t, frozen) \in {0, 1}
  BY Zenon DEF Bit
<1> QED
  BY <1>1, <1>2, <1>3, <1>4, BusyFinite, Zenon DEF CountsOf

(* The same, after a step. *)
LEMMA CountsAreNext ==
  RunShape' => \A t \in Tasks : CountsOf(ready', out', consumer', outstanding', frozen', tasks_done', t)
<1>1. (RunShape => \A t \in Tasks :
         CountsOf(ready, out, consumer, outstanding, frozen, tasks_done, t))'
  BY CountsAre, PTL
<1> QED
  BY <1>1, Zenon

(* The operators of the model are those of the invariant.                    *)
LEMMA SameOperators ==
  /\ Busy = BusyIn(consumer)
  /\ \A t : Held(t) = HeldIn(consumer, t)
  /\ \A t : Places(t) = PlacesIn(ready, out, consumer, outstanding, frozen, tasks_done, t)
  /\ \A t : InGroup(t) <=> Grouped(bld, t)
  /\ \A g : Types(g) = TypesIn(bld, g)
  /\ \A t, g : Before(t, g) = BeforeIn(bld, t, g)
<1>1. Busy = BusyIn(consumer) /\ \A t : Held(t) = HeldIn(consumer, t)
  BY Zenon DEF Busy, Held, BusyIn, HeldIn
<1>2. \A t : Cardinality({t} \cap outstanding) = Bit(t, outstanding)
             /\ Cardinality({t} \cap frozen) = Bit(t, frozen)
  BY BitIs, Zenon
<1>3. \A t : Places(t) = PlacesIn(ready, out, consumer, outstanding, frozen, tasks_done, t)
  BY <1>1, <1>2, Zenon DEF Places, PlacesIn
<1>4. \A t, g : Before(t, g) = BeforeIn(bld, t, g)
  BY Zenon DEF Before, BeforeIn
<1>5. (\A t : InGroup(t) <=> Grouped(bld, t)) /\ \A g : Types(g) = TypesIn(bld, g)
  BY Zenon DEF InGroup, Grouped, Types, TypesIn
<1> QED
  BY <1>1, <1>3, <1>4, <1>5, Zenon

-----------------------------------------------------------------------------
(* Types.                                                                   *)

(* A thread that goes on keeps the types. *)
LEMMA ThreadShape ==
  ASSUME RunShape, NEW c \in Consumers, NEW at \in {"none", "get"} \cup Running,
         NEW t \in Tasks \cup {NoTask}, at \in Running => t \in Tasks, Goes(c, at, t)
  PROVE  /\ consumer' \in [Consumers -> Slots]
         /\ \A b \in BusyIn(consumer') : consumer'[b].task \in Tasks
<1>1. consumer \in [Consumers -> Slots] /\ \A b \in Consumers : consumer[b].at \in Running => consumer[b].task \in Tasks
  BY Zenon DEF RunShape, BusyIn
<1>2. [at |-> at, task |-> t] \in Slots
  BY Zenon DEF Slots
<1>3. consumer' = [consumer EXCEPT ![c] = [at |-> at, task |-> t]]
  BY Zenon DEF Goes
<1>4. consumer' \in [Consumers -> Slots]
  BY <1>1, <1>2, <1>3, Zenon
<1>5. ASSUME NEW b \in Consumers, consumer'[b].at \in Running PROVE consumer'[b].task \in Tasks
  <2>1. CASE b = c
    <3>1. consumer'[b] = [at |-> at, task |-> t]
      BY <1>1, <1>3, <2>1, Zenon
    <3> QED
      BY <1>5, <3>1
  <2>2. CASE b # c
    <3>1. consumer'[b] = consumer[b]
      BY <1>1, <1>3, <2>2, Zenon
    <3> QED
      BY <1>1, <1>5, <3>1, Zenon
  <2> QED
    BY <2>1, <2>2, Zenon
<1> QED
  BY <1>4, <1>5, Zenon DEF BusyIn

(* Taking from a queue, and appending to it. *)
LEMMA QueueTypes ==
  ASSUME NEW q \in Seq(Tasks), q # << >>
  PROVE  Head(q) \in Tasks /\ Tail(q) \in Seq(Tasks) /\ Len(Tail(q)) = Len(q) - 1 /\ Len(q) \in Nat \ {0}
OBVIOUS

(* A queue that gets a task. *)
LEMMA AppendTypes ==
  ASSUME NEW q \in Seq(Tasks), NEW t \in Tasks
  PROVE  Append(q, t) \in Seq(Tasks) /\ Len(Append(q, t)) = Len(q) + 1 /\ Len(q) \in Nat
OBVIOUS

(* Adding one to the count of a task. *)
LEMMA Bump ==
  ASSUME NEW f \in [Tasks -> Nat], NEW h \in Tasks
  PROVE  /\ [f EXCEPT ![h] = @ + 1] \in [Tasks -> Nat]
         /\ \A t \in Tasks : [f EXCEPT ![h] = @ + 1][t] = f[t] + Bit(t, {h})
BY DEF Bit

(* A step of a thread keeps the types. *)
LEMMA ConsumerShape ==
  ASSUME Shape, NEW c \in Consumers, Consumer(c)
  PROVE  Shape'
<1>0. /\ RunShape /\ consumer[c] \in Slots
      /\ consumer[c].at \in Running => consumer[c].task \in Tasks
  BY Zenon DEF Shape, RunShape, BusyIn
<1>1. UNCHANGED mainVars
  BY Zenon DEF Consumer, Get, Run, SetStop, SetError, Put
<1>2. GroupShape'
  BY <1>1, Zenon DEF Shape, GroupShape, mainVars, mgrVars
<1>3. CASE Get(c)
  <2>1. Head(ready) \in Tasks /\ Tail(ready) \in Seq(Tasks)
    BY <1>3, QueueTypes, Zenon DEF Shape, RunShape, Get
  <2>2. CASE stop
    <3>1. out' = Append(out, Head(ready)) /\ out' \in Seq(Tasks)
      BY <1>3, <2>1, <2>2, AppendTypes, Zenon DEF Shape, RunShape, Get
    <3>2. UNCHANGED <<consumer, started>>
      BY <1>3, <2>2, Zenon DEF Get
    <3> QED
      BY <1>1, <1>2, <1>3, <2>1, <2>2, <3>1, <3>2, Zenon DEF Shape, RunShape, Get, mainVars
  <2>3. CASE ~stop
    <3>1. Goes(c, "run", Head(ready))
      BY <1>3, <2>3, Zenon DEF Get
    <3>2. consumer' \in [Consumers -> Slots] /\ \A b \in BusyIn(consumer') : consumer'[b].task \in Tasks
      BY <1>0, <2>1, <3>1, ThreadShape, Zenon DEF Running
    <3>3. started' \in [Tasks -> Nat] /\ out' = out /\ ready' = Tail(ready)
      <4>1. out' = out /\ started' = [started EXCEPT ![Head(ready)] = @ + 1] /\ ready' = Tail(ready)
        BY <1>3, <2>3, Zenon DEF Get
      <4>2. started \in [Tasks -> Nat]
        BY <1>0, Zenon DEF RunShape
      <4> QED
        BY <2>1, <4>1, <4>2, Bump, Zenon
    <3> QED
      BY <1>1, <1>2, <1>3, <2>1, <2>3, <3>2, <3>3, Zenon DEF Shape, RunShape, Get, mainVars
  <2> QED
    BY <2>2, <2>3, Zenon
<1>4. CASE Run(c)
  <2>1. consumer[c].task \in Tasks /\ consumer[c].task \in Tasks \cup {NoTask}
    BY <1>0, <1>4, Zenon DEF Run, Running
  <2>2. \/ Goes(c, "put", consumer[c].task) \/ Goes(c, "stop", consumer[c].task)
        \/ Goes(c, "gone", consumer[c].task)
    BY <1>4, Zenon DEF Run
  <2>3. consumer' \in [Consumers -> Slots] /\ \A b \in BusyIn(consumer') : consumer'[b].task \in Tasks
    BY <1>0, <2>1, <2>2, ThreadShape, Zenon DEF Running
  <2>4. hasrun' \in [Tasks -> {"not_run", "success", "skipped"} \cup Bad]
    BY <1>0, <1>4, Zenon DEF RunShape, Run, Bad
  <2> QED
    BY <1>1, <1>2, <1>4, <2>3, <2>4, Zenon DEF Shape, RunShape, Run, mainVars
<1>5. CASE SetStop(c) \/ SetError(c)
  <2>1. consumer[c].task \in Tasks /\ consumer[c].task \in Tasks \cup {NoTask}
    BY <1>0, <1>5, Zenon DEF SetStop, SetError, Running
  <2>2. Goes(c, "error", consumer[c].task) \/ Goes(c, "put", consumer[c].task)
    BY <1>5, Zenon DEF SetStop, SetError
  <2>3. consumer' \in [Consumers -> Slots] /\ \A b \in BusyIn(consumer') : consumer'[b].task \in Tasks
    BY <1>0, <2>1, <2>2, ThreadShape, Zenon DEF Running
  <2> QED
    BY <1>1, <1>2, <1>5, <2>3, Zenon DEF Shape, RunShape, SetStop, SetError, mainVars
<1>6. CASE Put(c)
  <2>1. consumer[c].task \in Tasks
    BY <1>0, <1>6, Zenon DEF Put, Running
  <2>2. Goes(c, "get", NoTask)
    BY <1>6, Zenon DEF Put
  <2>3. consumer' \in [Consumers -> Slots] /\ \A b \in BusyIn(consumer') : consumer'[b].task \in Tasks
    BY <1>0, <2>2, ThreadShape, Zenon DEF Running
  <2>4. out' \in Seq(Tasks)
    BY <1>0, <1>6, <2>1, AppendTypes, Zenon DEF RunShape, Put
  <2> QED
    BY <1>1, <1>2, <1>6, <2>3, <2>4, Zenon DEF Shape, RunShape, Put, mainVars
<1> QED
  BY <1>3, <1>4, <1>5, <1>6, Zenon DEF Consumer

-----------------------------------------------------------------------------
(* The beginning. *)

(* No task is in an empty queue. *)
LEMMA EmptyCopies ==
  ASSUME NEW q \in Seq(Tasks), Len(q) = 0, NEW t
  PROVE  Copies(q, t) = 0
<1>1. Copies(q, t) \in Nat /\ ((\E i \in 1..Len(q) : q[i] = t) <=> Copies(q, t) > 0)
  BY CopiesType, Zenon
<1>2. 1..Len(q) = {}
  OBVIOUS
<1>3. ~(Copies(q, t) > 0)
  BY <1>1, <1>2, Zenon
<1> QED
  BY <1>1, <1>3

(* At the beginning no task is anywhere.                                     *)
LEMMA InitPlaces ==
  ASSUME Init
  PROVE  /\ RunShape /\ BusyIn(consumer) = {} /\ Cardinality(BusyIn(consumer)) = 0
         /\ \A t \in Tasks :
              /\ Copies(ready, t) = 0 /\ Copies(out, t) = 0 /\ HeldIn(consumer, t) = 0
              /\ tasks_done[t] = 0 /\ started[t] = 0 /\ hasrun[t] \notin Bad
              /\ PlacesIn(ready, out, consumer, outstanding, frozen, tasks_done, t) = 0
<1>1. BusyIn(consumer) = {}
  BY Zenon DEF Init, BusyIn, Running
<1>2. Cardinality(BusyIn(consumer)) = 0
  BY <1>1, FS_EmptySet, Zenon
<1>3. RunShape
  <2>1. consumer \in [Consumers -> Slots]
    BY Zenon DEF Init, Slots
  <2>2. hasrun \in [Tasks -> {"not_run", "success", "skipped"} \cup Bad]
    BY Zenon DEF Init
  <2>3. /\ main \in Mains /\ count \in Nat /\ outstanding \subseteq Tasks /\ frozen \subseteq Tasks
        /\ stop \in BOOLEAN /\ error \in BOOLEAN
    BY Zenon DEF Init, Mains
  <2>4. ready \in Seq(Tasks) /\ out \in Seq(Tasks)
    BY DEF Init
  <2>5. tasks_done \in [Tasks -> Nat] /\ started \in [Tasks -> Nat]
    BY Zenon DEF Init
  <2> QED
    BY <1>1, <2>1, <2>2, <2>3, <2>4, <2>5, Zenon DEF RunShape
<1>4. ASSUME NEW t \in Tasks
      PROVE  /\ Copies(ready, t) = 0 /\ Copies(out, t) = 0 /\ HeldIn(consumer, t) = 0
             /\ tasks_done[t] = 0 /\ started[t] = 0 /\ hasrun[t] \notin Bad
             /\ PlacesIn(ready, out, consumer, outstanding, frozen, tasks_done, t) = 0
  <2>1. << >> \in Seq(Tasks) /\ Len(<< >>) = 0
    OBVIOUS
  <2>2. Copies(<< >>, t) = 0
    BY <2>1, EmptyCopies, Zenon
  <2>3. Copies(ready, t) = 0 /\ Copies(out, t) = 0
    BY <2>2, Zenon DEF Init
  <2>4. HeldIn(consumer, t) = 0
    <3>1. HeldIn(consumer, t) \in Nat /\ ~(HeldIn(consumer, t) > 0)
      BY <1>1, BusyFinite, Zenon
    <3> QED
      BY <3>1
  <2>5. tasks_done[t] = 0 /\ started[t] = 0 /\ hasrun[t] \notin Bad
    BY Zenon DEF Init, Bad
  <2>6. Bit(t, outstanding) = 0 /\ Bit(t, frozen) = 0
    BY Zenon DEF Init, Bit
  <2>7. PlacesIn(ready, out, consumer, outstanding, frozen, tasks_done, t) = 0
    BY <2>3, <2>4, <2>5, <2>6 DEF PlacesIn
  <2> QED
    BY <2>3, <2>4, <2>5, <2>7, Zenon
<1> QED
  BY <1>1, <1>2, <1>3, <1>4, Zenon

(* The invariant holds at the beginning. *)
LEMMA InitInv ==
  ASSUME Init
  PROVE  IInv
<1>0. /\ RunShape /\ Cardinality(BusyIn(consumer)) = 0 /\ BusyIn(consumer) = {}
      /\ \A t \in Tasks : tasks_done[t] = 0 /\ started[t] = 0 /\ hasrun[t] \notin Bad
      /\ \A t \in Tasks :
           PlacesIn(ready, out, consumer, outstanding, frozen, tasks_done, t) = 0
      /\ \A t \in Tasks : Copies(ready, t) + HeldIn(consumer, t) = 0
      /\ \A t \in Tasks : Copies(out, t) + HeldIn(consumer, t) + tasks_done[t] = 0
      /\ \A t \in Tasks : tasks_done[t] + Copies(out, t) = 0
      /\ \A t \in Tasks : ~(HeldIn(consumer, t) > 0)
  BY InitPlaces
<1>1. bld \in Builds /\ BuildOK(bld)
  BY BuildAssumption, Zenon DEF Init
<1>2. bld.groups \in Seq(SUBSET Tasks) /\ bld.groups # << >> /\ group = 1
  BY <1>1, Zenon DEF BuildOK, Init
<1>3. group \in DOMAIN bld.groups /\ \A j \in DOMAIN bld.groups : (j > group <=> j # group) /\ ~(j < group)
  BY <1>2
<1>4. left = TypesIn(bld, bld.groups[group]) /\ order = Constraints(left) /\ temp_tasks = {}
      /\ run_after = bld.run_after /\ maxjobs = MAXJOBS /\ main = "loop" /\ count = 0
      /\ frozen = {} /\ outstanding = {} /\ ~stop /\ ~error
  BY <1>2, Zenon DEF Init, Types, TypesIn
<1>5. \A t \in bld.groups[group] : bld.type[t] \in left
  BY <1>4, Zenon DEF TypesIn
<1>6. Shape
  <2>1. MAXJOBS \in Nat \ {0}
    BY BuildAssumption, Zenon
  <2> QED
    BY <1>0, <1>1, <1>3, <1>4, <2>1, Zenon DEF Shape, GroupShape
<1>7. CountOK
  <2>1. ready = << >> /\ out = << >>
    BY Zenon DEF Init
  <2>2. maxjobs \in Nat
    BY <1>6, Zenon DEF Shape, GroupShape
  <2> QED
    BY <1>0, <1>4, <2>1, <2>2 DEF CountOK
<1>8. PlacesOK
  <2>1. \A t : Grouped(bld, t) => Pending(bld, group, left, temp_tasks, t)
    BY <1>3, <1>5, Zenon DEF Grouped, Pending
  <2>2. 0 <= 1
    OBVIOUS
  <2> QED
    BY <1>0, <2>1, <2>2, Zenon DEF PlacesOK
<1>9. AddedOK
  <2>1. 0 # 1
    OBVIOUS
  <2> QED
    BY <1>0, <2>1, Zenon DEF AddedOK
<1>10. StartedOK
  BY <1>0 DEF StartedOK
<1>11. LimitOK
  <2>1. 0 # 1
    OBVIOUS
  <2> QED
    BY <1>0, <2>1, Zenon DEF LimitOK
<1>12. HandedOK
  BY <1>0 DEF HandedOK
<1>13. GroupsOK
  <2>1. \A o \in Constraints(left) : o[1] \in left
    BY Zenon DEF Constraints
  <2>2. order = {o \in Constraints(left) : o[1] \in left}
    BY <1>4, <2>1, Zenon
  <2> QED
    BY <1>3, <1>4, <2>2, Zenon DEF GroupsOK
<1>14. BeforeOK
  BY <1>5, Zenon DEF BeforeOK
<1>15. DoneOK
  BY <1>0 DEF DoneOK
<1>16. ThreadsOK
  BY <1>0, <1>4, Zenon DEF ThreadsOK
<1>17. EndOK
  BY <1>4, Zenon DEF EndOK
<1> QED
  BY <1>6, <1>7, <1>8, <1>9, <1>10, <1>11, <1>12, <1>13, <1>14, <1>15, <1>16, <1>17, Zenon DEF IInv

(* A step that changes nothing keeps it. *)
LEMMA StutterInv ==
  ASSUME IInv, UNCHANGED vars
  PROVE  IInv'
<1>1. UNCHANGED <<bld, main, group, left, order, temp_tasks, run_after, maxjobs, outstanding,
                  frozen, count, ready, out, stop, error, consumer, hasrun, tasks_done, started>>
  BY Zenon DEF vars, mgrVars
<1>2. Shape'
  BY <1>1, Zenon DEF IInv, Shape, GroupShape, RunShape
<1>3. CountOK' /\ PlacesOK' /\ AddedOK' /\ StartedOK' /\ LimitOK' /\ HandedOK'
  BY <1>1, Zenon DEF IInv, CountOK, PlacesOK, AddedOK, StartedOK, LimitOK, HandedOK
<1>4. BeforeOK' /\ DoneOK' /\ ThreadsOK'
  BY <1>1 DEF IInv, BeforeOK, DoneOK, ThreadsOK
<1>5. GroupsOK' /\ EndOK'
  BY <1>1, Zenon DEF IInv, GroupsOK, EndOK, AllGiven
<1> QED
  BY <1>2, <1>3, <1>4, <1>5, Zenon DEF IInv

-----------------------------------------------------------------------------
(* The threads.                                                             *)

(* What a step of thread c to the slot r does to the tasks that are held.    *)
LEMMA ThreadEffect ==
  ASSUME NEW cs, NEW c \in Consumers, NEW r, NEW ds, SameBut(cs, ds, c), ds[c] = r
  PROVE  /\ \A t : /\ HeldIn(cs, t) \in Nat /\ HeldIn(ds, t) \in Nat
                   /\ HeldIn(ds, t) + LoadOf(cs[c], t) = HeldIn(cs, t) + LoadOf(r, t)
         /\ Cardinality(BusyIn(cs)) \in Nat /\ Cardinality(BusyIn(ds)) \in Nat
         /\ Cardinality(BusyIn(ds)) + Load(cs[c]) = Cardinality(BusyIn(cs)) + Load(r)
<1>2. /\ \A t : HeldIn(ds, t) + LoadOf(cs[c], t) = HeldIn(cs, t) + LoadOf(ds[c], t)
      /\ Cardinality(BusyIn(ds)) + Load(cs[c]) = Cardinality(BusyIn(cs)) + Load(ds[c])
  BY OneThread
<1>3. /\ \A t : HeldIn(cs, t) \in Nat /\ HeldIn(ds, t) \in Nat
      /\ Cardinality(BusyIn(cs)) \in Nat /\ Cardinality(BusyIn(ds)) \in Nat
  BY BusyFinite, Zenon
<1> QED
  BY <1>2, <1>3, Zenon

(* The weight of a slot. *)
LEMMA LoadIs ==
  ASSUME NEW r
  PROVE  /\ r.at \in Running => Load(r) = 1 /\ \A t : LoadOf(r, t) = Bit(t, {r.task})
         /\ r.at \notin Running => Load(r) = 0 /\ \A t : LoadOf(r, t) = 0
         /\ Load(r) \in {0, 1}
BY Zenon DEF Load, LoadOf, Bit

(* The fields of a slot. *)
LEMMA SlotIs ==
  ASSUME NEW at, NEW x
  PROVE  [at |-> at, task |-> x].at = at /\ [at |-> at, task |-> x].task = x
OBVIOUS

(* Tasks only move between the queues and the threads, and what the threads change   *)
(* is never changed back.                                                             *)
Moved(rd, ot, cs, st, rd1, ot1, cs1, st1, t) ==
  /\ Copies(rd1, t) + Copies(ot1, t) + HeldIn(cs1, t) = Copies(rd, t) + Copies(ot, t) + HeldIn(cs, t)
  /\ Copies(rd1, t) + HeldIn(cs1, t) <= Copies(rd, t) + HeldIn(cs, t)
  /\ st1[t] + Copies(ot, t) + HeldIn(cs, t) <= st[t] + Copies(ot1, t) + HeldIn(cs1, t)
  /\ st1[t] # st[t] => Copies(rd, t) > 0

(* The three ways: back to the main thread unseen, to a thread, from a thread.         *)
LEMMA MoveCases ==
  ASSUME NEW rd, NEW ot, NEW cs, NEW st, NEW rd1, NEW ot1, NEW cs1, NEW st1, NEW t, NEW b \in {0, 1},
         Copies(rd, t) \in Nat, Copies(ot, t) \in Nat, HeldIn(cs, t) \in Nat, st[t] \in Nat,
         Copies(rd1, t) \in Nat, HeldIn(cs1, t) \in Nat,
         \/ /\ Copies(rd, t) = Copies(rd1, t) + b /\ Copies(ot1, t) = Copies(ot, t) + b
            /\ HeldIn(cs1, t) = HeldIn(cs, t) /\ st1[t] = st[t]
         \/ /\ Copies(rd, t) = Copies(rd1, t) + b /\ Copies(ot1, t) = Copies(ot, t)
            /\ HeldIn(cs1, t) = HeldIn(cs, t) + b /\ st1[t] = st[t] + b
         \/ /\ Copies(rd, t) = Copies(rd1, t) /\ Copies(ot1, t) = Copies(ot, t) + b
            /\ HeldIn(cs1, t) + b = HeldIn(cs, t) /\ st1[t] = st[t]
  PROVE  Moved(rd, ot, cs, st, rd1, ot1, cs1, st1, t)
BY DEF Moved

ThreadStep ==
  /\ \A t \in Tasks : Moved(ready, out, consumer, started, ready', out', consumer', started', t)
  /\ \A t \in Tasks : HeldIn(consumer', t) > HeldIn(consumer, t) => ~stop
  /\ Len(ready') + Len(out') + Cardinality(BusyIn(consumer'))
       = Len(ready) + Len(out) + Cardinality(BusyIn(consumer))
  /\ stop => stop'
  /\ error => error'
  /\ \A t \in Tasks : hasrun'[t] = "not_run" => hasrun[t] = "not_run"

(* ready.get() moves a task to a thread, or to the queue of finished tasks. *)
LEMMA GetStep ==
  ASSUME Shape, NEW c \in Consumers, Get(c)
  PROVE  ThreadStep
<1> DEFINE h == Head(ready)
<1>0. /\ RunShape /\ consumer[c].at \notin Running /\ consumer \in [Consumers -> Slots]
      /\ \A t \in Tasks : CountsOf(ready, out, consumer, outstanding, frozen, tasks_done, t)
      /\ \A t \in Tasks : started[t] \in Nat
  BY CountsAre, Zenon DEF Shape, Get, Running, RunShape
<1>1. ready \in Seq(Tasks) /\ ready # << >> /\ out \in Seq(Tasks) /\ started \in [Tasks -> Nat]
      /\ ready' = Tail(ready) /\ UNCHANGED <<stop, error, hasrun>>
  BY <1>0, Zenon DEF RunShape, Get
<1>2. h \in Tasks /\ Len(ready') = Len(ready) - 1 /\ Len(ready) \in Nat /\ Len(out) \in Nat
  BY <1>1, QueueTypes
<1>3. \A t \in Tasks : Copies(ready, t) = Copies(ready', t) + Bit(t, {h}) /\ Copies(ready', t) \in Nat
  BY <1>1, CopiesTail, Zenon
<1>4. Load(consumer[c]) = 0 /\ \A t : LoadOf(consumer[c], t) = 0
  BY <1>0, LoadIs, Zenon
<1>5. Cardinality(BusyIn(consumer)) \in Nat
  BY BusyFinite, Zenon
<1> HIDE DEF h
<1>6. CASE stop
  <2>1. out' = Append(out, h) /\ UNCHANGED <<consumer, started>>
    BY <1>6, Zenon DEF Get, h
  <2>2. \A t \in Tasks : Copies(out', t) = Copies(out, t) + Bit(t, {h})
    BY <1>1, <2>1, CopiesAppend, Zenon
  <2>3. Len(out') = Len(out) + 1
    BY <1>1, <1>2, <2>1, AppendTypes, Zenon
  <2>4. ASSUME NEW t \in Tasks
        PROVE  /\ Moved(ready, out, consumer, started, ready', out', consumer', started', t)
               /\ ~(HeldIn(consumer', t) > HeldIn(consumer, t))
    <3>1. /\ HeldIn(consumer', t) = HeldIn(consumer, t) /\ HeldIn(consumer, t) \in Nat
          /\ HeldIn(consumer', t) \in Nat /\ started'[t] = started[t]
      BY <1>0, <2>1, Zenon DEF CountsOf
    <3>2. /\ Copies(ready, t) = Copies(ready', t) + Bit(t, {h}) /\ Copies(ready', t) \in Nat
          /\ Copies(out', t) = Copies(out, t) + Bit(t, {h}) /\ Bit(t, {h}) \in {0, 1}
      BY <1>3, <2>2, Zenon DEF Bit
    <3>3. Copies(ready, t) \in Nat /\ Copies(out, t) \in Nat /\ started[t] \in Nat
      BY <1>0, Zenon DEF CountsOf
    <3>4. ~(HeldIn(consumer', t) > HeldIn(consumer, t))
      BY <3>1
    <3> QED
      BY <3>1, <3>2, <3>3, <3>4, MoveCases, Zenon
  <2>5. Len(ready') + Len(out') + Cardinality(BusyIn(consumer'))
          = Len(ready) + Len(out) + Cardinality(BusyIn(consumer))
    BY <1>2, <1>5, <2>1, <2>3
  <2> QED
    BY <1>1, <2>4, <2>5, Zenon DEF ThreadStep
<1>7. CASE ~stop
  <2> DEFINE r == [at |-> "run", task |-> h]
  <2>1. out' = out /\ consumer' = [consumer EXCEPT ![c] = r] /\ started' = [started EXCEPT ![h] = @ + 1]
    BY <1>7, Zenon DEF Get, Goes, h
  <2>2. Load(r) = 1 /\ \A t : LoadOf(r, t) = Bit(t, {h})
    BY LoadIs, SlotIs DEF Running
  <2> HIDE DEF r
  <2>3. \A t \in Tasks : started'[t] = started[t] + Bit(t, {h})
    BY <1>1, <1>2, <2>1, Bump, Zenon
  <2>4. /\ \A t : /\ HeldIn(consumer, t) \in Nat /\ HeldIn(consumer', t) \in Nat
                  /\ HeldIn(consumer', t) + LoadOf(consumer[c], t) = HeldIn(consumer, t) + LoadOf(r, t)
        /\ Cardinality(BusyIn(consumer')) \in Nat
        /\ Cardinality(BusyIn(consumer')) + Load(consumer[c]) = Cardinality(BusyIn(consumer)) + Load(r)
    <3>1. SameBut(consumer, consumer', c) /\ consumer'[c] = r
      BY <1>0, <2>1, Zenon DEF SameBut
    <3> QED
      BY <3>1, ThreadEffect
  <2>5. ASSUME NEW t \in Tasks
        PROVE  Moved(ready, out, consumer, started, ready', out', consumer', started', t)
    <3>1. /\ HeldIn(consumer', t) = HeldIn(consumer, t) + Bit(t, {h}) /\ HeldIn(consumer, t) \in Nat
          /\ HeldIn(consumer', t) \in Nat /\ Bit(t, {h}) \in {0, 1}
      BY <1>4, <2>2, <2>4 DEF Bit
    <3>2. /\ Copies(ready, t) = Copies(ready', t) + Bit(t, {h}) /\ Copies(ready', t) \in Nat
          /\ Copies(out', t) = Copies(out, t) /\ started'[t] = started[t] + Bit(t, {h})
      BY <1>3, <2>1, <2>3, Zenon
    <3>3. Copies(ready, t) \in Nat /\ Copies(out, t) \in Nat /\ started[t] \in Nat
      BY <1>0, Zenon DEF CountsOf
    <3> QED
      BY <3>1, <3>2, <3>3, MoveCases, Zenon
  <2>6. Len(ready') + Len(out') + Cardinality(BusyIn(consumer'))
          = Len(ready) + Len(out) + Cardinality(BusyIn(consumer))
    BY <1>2, <1>4, <1>5, <2>1, <2>2, <2>4
  <2> QED
    BY <1>1, <1>7, <2>5, <2>6, Zenon DEF ThreadStep
<1> QED
  BY <1>6, <1>7, Zenon

(* The command and error_handler() leave the task with the thread. *)
LEMMA KeepsStep ==
  ASSUME Shape, NEW c \in Consumers, Run(c) \/ SetStop(c) \/ SetError(c)
  PROVE  ThreadStep
<1> DEFINE x == consumer[c].task
<1>0. /\ RunShape /\ consumer[c].at \in Running /\ consumer \in [Consumers -> Slots]
      /\ \A t \in Tasks : CountsOf(ready, out, consumer, outstanding, frozen, tasks_done, t)
      /\ \A t \in Tasks : started[t] \in Nat
  BY CountsAre, Zenon DEF Shape, Run, SetStop, SetError, Running, RunShape
<1>1. PICK at \in Running : Goes(c, at, x)
  BY Zenon DEF Run, SetStop, SetError, Running
<1>2. UNCHANGED <<ready, out, started>>
  BY Zenon DEF Run, SetStop, SetError
<1>3. (stop => stop') /\ (error => error')
  <2>1. stop' = stop \/ stop' = (stop \/ ~bld.keep)
    BY Zenon DEF Run, SetStop, SetError
  <2>2. error' = error \/ error'
    BY Zenon DEF Run, SetStop, SetError
  <2> QED
    BY <1>0, <2>1, <2>2, Zenon DEF RunShape
<1>4. \A t \in Tasks : hasrun'[t] = "not_run" => hasrun[t] = "not_run"
  <2>1. hasrun \in [Tasks -> {"not_run", "success", "skipped"} \cup Bad]
    BY <1>0, Zenon DEF RunShape
  <2>2. hasrun' = hasrun \/ \E how \in {"success"} \cup Bad : hasrun' = [hasrun EXCEPT ![x] = how]
    BY Zenon DEF Run, SetStop, SetError, Bad
  <2> QED
    BY <2>1, <2>2, Zenon DEF Bad
<1> DEFINE r == [at |-> at, task |-> x]
<1>5. Load(consumer[c]) = Load(r) /\ \A t : LoadOf(consumer[c], t) = LoadOf(r, t)
  <2>1. r.at \in Running /\ r.task = consumer[c].task
    BY SlotIs, Zenon
  <2> HIDE DEF r
  <2> QED
    BY <1>0, <2>1, Zenon DEF Load, LoadOf
<1>6. Load(r) \in {0, 1} /\ \A t : LoadOf(r, t) \in {0, 1}
  BY Zenon DEF LoadOf, Load
<1>7. consumer' = [consumer EXCEPT ![c] = r]
  BY <1>1, Zenon DEF Goes
<1> HIDE DEF x, r
<1>8. /\ \A t : /\ HeldIn(consumer, t) \in Nat /\ HeldIn(consumer', t) \in Nat
                /\ HeldIn(consumer', t) + LoadOf(consumer[c], t) = HeldIn(consumer, t) + LoadOf(r, t)
      /\ Cardinality(BusyIn(consumer')) \in Nat /\ Cardinality(BusyIn(consumer)) \in Nat
      /\ Cardinality(BusyIn(consumer')) + Load(consumer[c]) = Cardinality(BusyIn(consumer)) + Load(r)
  <2>1. SameBut(consumer, consumer', c) /\ consumer'[c] = r
    BY <1>0, <1>7, Zenon DEF SameBut
  <2> QED
    BY <2>1, ThreadEffect
<1>9. \A t : HeldIn(consumer', t) = HeldIn(consumer, t) /\ HeldIn(consumer, t) \in Nat
  BY <1>5, <1>6, <1>8
<1>10. Cardinality(BusyIn(consumer')) = Cardinality(BusyIn(consumer))
  BY <1>5, <1>6, <1>8
<1>11. ASSUME NEW t \in Tasks
       PROVE  /\ Moved(ready, out, consumer, started, ready', out', consumer', started', t)
              /\ ~(HeldIn(consumer', t) > HeldIn(consumer, t))
  <2>1. /\ HeldIn(consumer', t) = HeldIn(consumer, t) /\ HeldIn(consumer, t) \in Nat
        /\ Copies(ready', t) = Copies(ready, t) /\ Copies(out', t) = Copies(out, t)
        /\ started'[t] = started[t] /\ started[t] \in Nat
        /\ Copies(ready, t) \in Nat /\ Copies(out, t) \in Nat
    BY <1>0, <1>2, <1>9, Zenon DEF CountsOf
  <2> QED
    BY <2>1 DEF Moved
<1> QED
  BY <1>2, <1>3, <1>4, <1>10, <1>11, Zenon DEF ThreadStep

(* out.put() moves it to the queue of finished tasks. *)
LEMMA PutStep ==
  ASSUME Shape, NEW c \in Consumers, Put(c)
  PROVE  ThreadStep
<1> DEFINE x == consumer[c].task
           r == [at |-> "get", task |-> NoTask]
<1>0. /\ RunShape /\ consumer[c].at \in Running /\ consumer \in [Consumers -> Slots]
      /\ \A t \in Tasks : CountsOf(ready, out, consumer, outstanding, frozen, tasks_done, t)
      /\ \A t \in Tasks : started[t] \in Nat
  BY CountsAre, Zenon DEF Shape, Put, Running, RunShape
<1>1. /\ consumer' = [consumer EXCEPT ![c] = r] /\ out' = Append(out, x)
      /\ UNCHANGED <<ready, stop, error, hasrun, started>>
  BY Zenon DEF Put, Goes
<1>2. x \in Tasks /\ out \in Seq(Tasks) /\ ready \in Seq(Tasks)
  BY <1>0, Zenon DEF RunShape, BusyIn
<1>3. Load(consumer[c]) = 1 /\ \A t : LoadOf(consumer[c], t) = Bit(t, {x})
  BY <1>0, LoadIs, Zenon
<1>4. Load(r) = 0 /\ \A t : LoadOf(r, t) = 0
  BY LoadIs, SlotIs, Zenon DEF Running
<1> HIDE DEF x, r
<1>5. \A t \in Tasks : Copies(out', t) = Copies(out, t) + Bit(t, {x})
  BY <1>1, <1>2, CopiesAppend, Zenon
<1>6. Len(out') = Len(out) + 1 /\ Len(out) \in Nat /\ Len(ready) \in Nat
  BY <1>1, <1>2, AppendTypes, Zenon
<1>7. /\ \A t : /\ HeldIn(consumer, t) \in Nat /\ HeldIn(consumer', t) \in Nat
                /\ HeldIn(consumer', t) + LoadOf(consumer[c], t) = HeldIn(consumer, t) + LoadOf(r, t)
      /\ Cardinality(BusyIn(consumer')) \in Nat /\ Cardinality(BusyIn(consumer)) \in Nat
      /\ Cardinality(BusyIn(consumer')) + Load(consumer[c]) = Cardinality(BusyIn(consumer)) + Load(r)
  <2>1. SameBut(consumer, consumer', c) /\ consumer'[c] = r
    BY <1>0, <1>1, Zenon DEF SameBut
  <2> QED
    BY <2>1, ThreadEffect
<1>8. ASSUME NEW t \in Tasks
      PROVE  /\ Moved(ready, out, consumer, started, ready', out', consumer', started', t)
             /\ ~(HeldIn(consumer', t) > HeldIn(consumer, t))
  <2>1. /\ HeldIn(consumer', t) + Bit(t, {x}) = HeldIn(consumer, t) /\ HeldIn(consumer, t) \in Nat
        /\ HeldIn(consumer', t) \in Nat /\ Bit(t, {x}) \in {0, 1}
    BY <1>3, <1>4, <1>7 DEF Bit
  <2>2. /\ Copies(ready', t) = Copies(ready, t) /\ Copies(out', t) = Copies(out, t) + Bit(t, {x})
        /\ started'[t] = started[t] /\ started[t] \in Nat
        /\ Copies(ready, t) \in Nat /\ Copies(out, t) \in Nat
    BY <1>0, <1>1, <1>5, Zenon DEF CountsOf
  <2>3. ~(HeldIn(consumer', t) > HeldIn(consumer, t))
    BY <2>1
  <2> QED
    BY <2>1, <2>2, <2>3, MoveCases, Zenon
<1>9. Len(ready') + Len(out') + Cardinality(BusyIn(consumer'))
        = Len(ready) + Len(out) + Cardinality(BusyIn(consumer))
  BY <1>1, <1>3, <1>4, <1>6, <1>7
<1> QED
  BY <1>1, <1>8, <1>9, Zenon DEF ThreadStep

(* What holds of the main thread's tasks is not touched by a step of a thread. *)
LEMMA ThreadStepInv ==
  ASSUME IInv, Shape', ThreadStep, UNCHANGED mainVars, ~Ended
  PROVE  /\ CountOK' /\ PlacesOK' /\ AddedOK' /\ StartedOK' /\ LimitOK' /\ HandedOK'
         /\ GroupsOK' /\ BeforeOK' /\ EndOK'
<1>0. UNCHANGED <<bld, main, group, left, order, temp_tasks, run_after, maxjobs, outstanding,
                  frozen, count, tasks_done>>
  BY Zenon DEF mainVars, mgrVars
<1>1. /\ \A t \in Tasks : CountsOf(ready, out, consumer, outstanding, frozen, tasks_done, t)
      /\ \A t \in Tasks : CountsOf(ready', out', consumer', outstanding, frozen, tasks_done, t)
      /\ \A t \in Tasks : started[t] \in Nat /\ started'[t] \in Nat
  <2>1. /\ \A t \in Tasks : CountsOf(ready, out, consumer, outstanding, frozen, tasks_done, t)
        /\ \A t \in Tasks : CountsOf(ready', out', consumer', outstanding', frozen', tasks_done', t)
    BY CountsAre, CountsAreNext, Zenon DEF IInv, Shape
  <2>2. started \in [Tasks -> Nat] /\ started' \in [Tasks -> Nat]
    BY Zenon DEF IInv, Shape, RunShape
  <2>3. \A t \in Tasks : started[t] \in Nat /\ started'[t] \in Nat
    BY <2>2, Zenon
  <2> QED
    BY <1>0, <2>1, <2>3, Zenon
<1>2. ASSUME NEW t \in Tasks
      PROVE  PlacesIn(ready', out', consumer', outstanding, frozen, tasks_done, t)
             = PlacesIn(ready, out, consumer, outstanding, frozen, tasks_done, t)
  <2>1. /\ CountsOf(ready, out, consumer, outstanding, frozen, tasks_done, t)
        /\ CountsOf(ready', out', consumer', outstanding, frozen, tasks_done, t)
        /\ Moved(ready, out, consumer, started, ready', out', consumer', started', t)
    BY <1>1, Zenon DEF ThreadStep
  <2> QED
    BY <2>1, Zenon DEF CountsOf, Moved, PlacesIn
<1>3. CountOK'
  <2>1. CountOK /\ Len(ready') + Len(out') + Cardinality(BusyIn(consumer'))
                    = Len(ready) + Len(out) + Cardinality(BusyIn(consumer))
    BY Zenon DEF IInv, ThreadStep
  <2> QED
    BY <1>0, <2>1, Zenon DEF CountOK
<1>4. PlacesOK'
  BY <1>0, <1>2, Zenon DEF IInv, PlacesOK
<1>5. StartedOK'
  <2> SUFFICES ASSUME NEW t \in Tasks
               PROVE  started'[t] <= Copies(out', t) + HeldIn(consumer', t) + tasks_done'[t]
    BY Zenon DEF StartedOK
  <2>1. /\ CountsOf(ready, out, consumer, outstanding, frozen, tasks_done, t)
        /\ CountsOf(ready', out', consumer', outstanding, frozen, tasks_done, t)
        /\ Moved(ready, out, consumer, started, ready', out', consumer', started', t)
        /\ started[t] \in Nat /\ started'[t] \in Nat /\ tasks_done'[t] = tasks_done[t]
        /\ started[t] <= Copies(out, t) + HeldIn(consumer, t) + tasks_done[t]
    BY <1>0, <1>1, Zenon DEF ThreadStep, IInv, StartedOK
  <2> QED
    BY <2>1 DEF CountsOf, Moved
<1>6. AddedOK'
  <2>1. ASSUME NEW p \in Tasks, tasks_done[p] = 1, started'[p] = 1 PROVE started[p] = 1
    <3>1. /\ CountsOf(ready, out, consumer, outstanding, frozen, tasks_done, p)
          /\ started'[p] # started[p] => Copies(ready, p) > 0
          /\ PlacesIn(ready, out, consumer, outstanding, frozen, tasks_done, p) <= 1
      BY <1>1, Zenon DEF ThreadStep, Moved, IInv, PlacesOK
    <3>2. Copies(ready, p) = 0
      BY <2>1, <3>1 DEF CountsOf, PlacesIn
    <3>3. ~(Copies(ready, p) > 0)
      BY <3>2
    <3> QED
      BY <2>1, <3>1, <3>3, Zenon
  <2>2. stop => stop'
    BY Zenon DEF ThreadStep
  <2> QED
    BY <1>0, <1>2, <2>1, <2>2, Zenon DEF IInv, AddedOK
<1>7. LimitOK'
  BY <1>0, <1>2, Zenon DEF IInv, LimitOK
<1>8. \A p \in Tasks : hasrun'[p] = "not_run" => hasrun[p] = "not_run"
  BY Zenon DEF ThreadStep
<1>9. HandedOK'
  <2>1. ASSUME NEW t \in Tasks, Copies(ready', t) + HeldIn(consumer', t) > 0
        PROVE  Copies(ready, t) + HeldIn(consumer, t) > 0
    <3>1. /\ CountsOf(ready, out, consumer, outstanding, frozen, tasks_done, t)
          /\ CountsOf(ready', out', consumer', outstanding, frozen, tasks_done, t)
          /\ Moved(ready, out, consumer, started, ready', out', consumer', started', t)
      BY <1>1, Zenon DEF ThreadStep
    <3> QED
      BY <2>1, <3>1 DEF CountsOf, Moved
  <2> QED
    BY <1>0, <1>8, <2>1, Zenon DEF IInv, HandedOK
<1>10. GroupsOK'
  BY <1>0, Zenon DEF IInv, GroupsOK
<1>11. BeforeOK'
  <2>1. ASSUME NEW t \in Tasks, HeldIn(consumer', t) > 0
        PROVE  HeldIn(consumer, t) > 0 \/ ~stop
    <3>1. /\ HeldIn(consumer', t) > HeldIn(consumer, t) => ~stop
          /\ HeldIn(consumer, t) \in Nat /\ HeldIn(consumer', t) \in Nat
      BY <1>1, Zenon DEF ThreadStep, CountsOf
    <3> QED
      BY <2>1, <3>1
  <2>2. (stop => stop') /\ bld.groups[group] \subseteq Tasks
    BY BuildIs, Zenon DEF ThreadStep, IInv, Shape
  <2> SUFFICES ASSUME NEW t \in bld.groups[group], bld.type[t] \notin left,
                      NEW p \in BeforeIn(bld, t, bld.groups[group])
               PROVE  IF bld.algotype = "MAXPARALLEL" THEN <<t, p>> \in run_after
                      ELSE /\ stop' \/ hasrun'[p] # "not_run"
                           /\ HeldIn(consumer', t) > 0 => hasrun'[p] # "not_run"
    BY <1>0, Zenon DEF BeforeOK
  <2>3. t \in Tasks /\ p \in Tasks
    BY <2>2, Zenon DEF BeforeIn
  <2>4. IF bld.algotype = "MAXPARALLEL" THEN <<t, p>> \in run_after
        ELSE /\ stop \/ hasrun[p] # "not_run"
             /\ HeldIn(consumer, t) > 0 => hasrun[p] # "not_run"
    BY Zenon DEF IInv, BeforeOK
  <2> QED
    BY <1>8, <2>1, <2>2, <2>3, <2>4, Zenon
<1>12. EndOK'
  <2>1. EndOK /\ (stop => stop') /\ main \notin {"ok", "failed", "raised"}
    BY Zenon DEF IInv, ThreadStep, Ended
  <2>2. AllGiven' <=> AllGiven
    BY <1>0, Zenon DEF AllGiven
  <2>3. main # "ok"
    BY <2>1, Zenon
  <2> QED
    BY <1>0, <2>1, <2>2, <2>3, Zenon DEF EndOK
<1> QED
  BY <1>3, <1>4, <1>5, <1>6, <1>7, <1>9, <1>10, <1>11, <1>12, Zenon

(* A thread gives back a task that has run, or one that the stop has kept from it. *)
LEMMA ConsumerDone ==
  ASSUME IInv, NEW c \in Consumers, Consumer(c), ThreadStep
  PROVE  DoneOK'
<1>0. RunShape /\ DoneOK /\ UNCHANGED tasks_done
  BY Zenon DEF IInv, Shape, Consumer, Get, Run, SetStop, SetError, Put, mainVars
<1>1. /\ stop => stop'
      /\ \A t \in Tasks : hasrun'[t] = "not_run" => hasrun[t] = "not_run"
  BY Zenon DEF ThreadStep
<1>2. CASE out' = out
  BY <1>0, <1>1, <1>2, Zenon DEF DoneOK
<1>3. CASE stop'
  BY <1>3, Zenon DEF DoneOK
<1>4. CASE Put(c)
  <2> DEFINE x == consumer[c].task
  <2>1. out' = Append(out, x) /\ consumer[c].at = "put" /\ UNCHANGED hasrun
    BY <1>4, Zenon DEF Put
  <2>2. c \in BusyIn(consumer) /\ x \in Tasks /\ out \in Seq(Tasks)
    BY <1>0, <2>1, Zenon DEF RunShape, BusyIn, Running
  <2>3. hasrun[x] # "not_run"
    BY <2>1, <2>2, Zenon DEF IInv, ThreadsOK
  <2> HIDE DEF x
  <2>4. ASSUME NEW t \in Tasks, t # x PROVE Copies(out', t) = Copies(out, t)
    <3>1. Copies(out', t) = Copies(out, t) + Bit(t, {x})
      BY <2>1, <2>2, CopiesAppend, Zenon
    <3>2. Copies(out, t) \in Nat
      BY <2>2, CopiesType, Zenon
    <3> QED
      BY <2>4, <3>1, <3>2 DEF Bit
  <2> QED
    BY <1>0, <1>1, <2>1, <2>3, <2>4, Zenon DEF DoneOK
<1>5. out' = out \/ stop' \/ Put(c)
  <2>1. out' = out \/ stop \/ Put(c)
    BY Zenon DEF Consumer, Get, Run, SetStop, SetError
  <2> QED
    BY <1>1, <2>1, Zenon
<1> QED
  BY <1>2, <1>3, <1>4, <1>5, Zenon

(* Each failure has a thread that has yet to set the flags, or the error flag. *)
LEMMA ConsumerThreads ==
  ASSUME IInv, NEW c \in Consumers, Consumer(c), ThreadStep
  PROVE  ThreadsOK'
<1> DEFINE x == consumer[c].task
<1>0. /\ RunShape /\ ThreadsOK /\ consumer \in [Consumers -> Slots]
      /\ hasrun \in [Tasks -> {"not_run", "success", "skipped"} \cup Bad]
      /\ \A b \in BusyIn(consumer) : consumer[b].task \in Tasks
  BY Zenon DEF IInv, Shape, RunShape
<1>1. /\ error => error'
      /\ \A t \in Tasks : hasrun'[t] = "not_run" => hasrun[t] = "not_run"
  BY Zenon DEF ThreadStep
<1>2. CASE UNCHANGED consumer
  <2>1. UNCHANGED <<stop, error, hasrun>>
    <3>1. ~Run(c) /\ ~SetStop(c) /\ ~SetError(c)
      BY <1>0, <1>2 DEF Run, SetStop, SetError, Goes, Slots
    <3> QED
      BY <3>1, Zenon DEF Consumer, Get, Put
  <2> QED
    BY <1>0, <1>2, <2>1, Zenon DEF ThreadsOK
<1>3. ASSUME NEW at, NEW y, Goes(c, at, y)
      PROVE  /\ consumer'[c].at = at /\ consumer'[c].task = y
             /\ \A b \in Consumers \ {c} : consumer'[b] = consumer[b]
  <2>1. consumer' = [consumer EXCEPT ![c] = [at |-> at, task |-> y]]
    BY <1>3, Zenon DEF Goes
  <2> QED
    BY <1>0, <2>1, Zenon
(* The other threads keep what they did.                                      *)
<1>4. ASSUME NEW b \in BusyIn(consumer'), consumer'[b] = consumer[b], consumer'[b].at # "run"
      PROVE  hasrun'[consumer'[b].task] # "not_run"
  <2>1. b \in BusyIn(consumer) /\ consumer[b].task \in Tasks /\ consumer[b].at # "run"
    BY <1>0, <1>4, Zenon DEF BusyIn
  <2>2. hasrun'[consumer[b].task] # "not_run"
    BY <1>0, <1>1, <2>1, Zenon DEF ThreadsOK
  <2> QED
    BY <1>4, <2>2, Zenon
<1>5. CASE Get(c) /\ ~stop
  <2>1. PICK y : Goes(c, "run", y)
    BY <1>5, Zenon DEF Get
  <2>2. /\ consumer'[c].at = "run" /\ \A b \in Consumers \ {c} : consumer'[b] = consumer[b]
        /\ consumer[c].at = "get" /\ UNCHANGED <<stop, error, hasrun>>
    BY <1>3, <1>5, <2>1, Zenon DEF Get
  <2>3. \A b \in BusyIn(consumer') : b = c \/ consumer'[b] = consumer[b]
    BY <2>2, Zenon DEF BusyIn
  <2>4. \A b \in BusyIn(consumer') : consumer'[b].at # "run" => hasrun'[consumer'[b].task] # "not_run"
    BY <1>4, <2>2, <2>3, Zenon
  <2>5. \A b \in Consumers : consumer[b].at \in {"stop", "error", "gone"} => consumer'[b] = consumer[b]
    BY <2>2, Zenon
  <2> QED
    BY <1>0, <2>2, <2>4, <2>5 DEF ThreadsOK
<1>6. CASE Put(c)
  <2>1. Goes(c, "get", NoTask)
    BY <1>6, Zenon DEF Put
  <2>2. /\ consumer'[c].at = "get" /\ \A b \in Consumers \ {c} : consumer'[b] = consumer[b]
        /\ consumer[c].at = "put" /\ UNCHANGED <<stop, error, hasrun>>
    BY <1>3, <1>6, <2>1, Zenon DEF Put
  <2>3. \A b \in BusyIn(consumer') : consumer'[b] = consumer[b]
    BY <2>2, Zenon DEF BusyIn, Running
  <2>4. \A b \in BusyIn(consumer') : consumer'[b].at # "run" => hasrun'[consumer'[b].task] # "not_run"
    BY <1>4, <2>3, Zenon
  <2>5. \A b \in Consumers : consumer[b].at \in {"stop", "error", "gone"} => consumer'[b] = consumer[b]
    BY <2>2, Zenon
  <2> QED
    BY <1>0, <2>2, <2>4, <2>5 DEF ThreadsOK
<1>7. CASE SetStop(c)
  <2>1. Goes(c, "error", x)
    BY <1>7, Zenon DEF SetStop
  <2>2. /\ consumer'[c].at = "error" /\ consumer'[c].task = x
        /\ \A b \in Consumers \ {c} : consumer'[b] = consumer[b]
        /\ consumer[c].at = "stop" /\ UNCHANGED <<error, hasrun>>
    BY <1>3, <1>7, <2>1, Zenon DEF SetStop
  <2>3. c \in BusyIn(consumer) /\ hasrun[x] # "not_run"
    BY <1>0, <2>2, Zenon DEF BusyIn, Running, ThreadsOK
  <2>4. \A b \in BusyIn(consumer') : b = c \/ consumer'[b] = consumer[b]
    BY <2>2, Zenon DEF BusyIn
  <2>5. \A b \in BusyIn(consumer') : consumer'[b].at # "run" => hasrun'[consumer'[b].task] # "not_run"
    BY <1>4, <2>2, <2>3, <2>4, Zenon
  <2> HIDE DEF x
  <2>6. \A b \in Consumers : consumer[b].at \in {"stop", "error", "gone"} =>
          consumer'[b].at \in {"stop", "error", "gone"} /\ consumer'[b].task = consumer[b].task
    BY <2>2, Zenon DEF x
  <2> QED
    BY <1>0, <2>2, <2>5, <2>6 DEF ThreadsOK
<1>8. CASE SetError(c)
  <2>1. Goes(c, "put", x)
    BY <1>8, Zenon DEF SetError
  <2>2. /\ consumer'[c].task = x /\ error'
        /\ \A b \in Consumers \ {c} : consumer'[b] = consumer[b]
        /\ consumer[c].at = "error" /\ UNCHANGED hasrun
    BY <1>3, <1>8, <2>1, Zenon DEF SetError
  <2>3. c \in BusyIn(consumer) /\ hasrun[x] # "not_run"
    BY <1>0, <2>2, Zenon DEF BusyIn, Running, ThreadsOK
  <2>4. \A b \in BusyIn(consumer') : b = c \/ consumer'[b] = consumer[b]
    BY <2>2, Zenon DEF BusyIn
  <2>5. \A b \in BusyIn(consumer') : consumer'[b].at # "run" => hasrun'[consumer'[b].task] # "not_run"
    BY <1>4, <2>2, <2>3, <2>4, Zenon
  <2> QED
    BY <2>2, <2>5, Zenon DEF ThreadsOK
<1>9. CASE Run(c)
  <2>1. PICK at \in {"put", "stop", "gone"}, how \in {"success"} \cup Bad :
          /\ Goes(c, at, x) /\ hasrun' = [hasrun EXCEPT ![x] = how]
          /\ how \in Bad => at \in {"stop", "gone"}
    <3>1. \A how \in Bad : how \in {"success"} \cup Bad
      OBVIOUS
    <3>2. "success" \notin Bad /\ Bad = {"crashed", "exception", "missing", "unset"}
      BY Zenon DEF Bad
    <3> QED
      BY <1>9, <3>1, <3>2, Zenon DEF Run
  <2>2. /\ consumer'[c].at = at /\ consumer'[c].task = x
        /\ \A b \in Consumers \ {c} : consumer'[b] = consumer[b]
        /\ consumer[c].at = "run" /\ UNCHANGED <<stop, error>>
    BY <1>3, <1>9, <2>1, Zenon DEF Run
  <2>3. x \in Tasks
    BY <1>0, <2>2, Zenon DEF BusyIn, Running
  <2> HIDE DEF x
  <2>4. hasrun'[x] = how /\ how # "not_run" /\ \A t \in Tasks \ {x} : hasrun'[t] = hasrun[t]
    BY <1>0, <2>1, <2>3, Zenon DEF Bad
  <2>5. \A b \in BusyIn(consumer') : b = c \/ consumer'[b] = consumer[b]
    BY <2>2, Zenon DEF BusyIn
  <2>6. \A b \in BusyIn(consumer') : consumer'[b].at # "run" => hasrun'[consumer'[b].task] # "not_run"
    BY <1>4, <2>2, <2>4, <2>5, Zenon
  <2>7. \A b \in Consumers : consumer[b].at \in {"stop", "error", "gone"} => consumer'[b] = consumer[b]
    BY <2>2, Zenon
  <2>8. ASSUME NEW t \in Tasks, hasrun'[t] \in Bad
        PROVE  error' \/ \E b \in Consumers : consumer'[b].at \in {"stop", "error", "gone"} /\ consumer'[b].task = t
    <3>1. CASE t = x
      BY <2>1, <2>2, <2>4, <2>8, <3>1, Zenon
    <3>2. CASE t # x
      BY <1>0, <2>2, <2>4, <2>7, <2>8, <3>2 DEF ThreadsOK
    <3> QED
      BY <3>1, <3>2, Zenon
  <2> QED
    BY <1>0, <2>2, <2>6, <2>7, <2>8 DEF ThreadsOK
<1>10. Get(c) /\ stop => UNCHANGED consumer
  BY Zenon DEF Get
<1> QED
  BY <1>2, <1>5, <1>6, <1>7, <1>8, <1>9, <1>10, Zenon DEF Consumer

(* A step of a consumer thread keeps the invariant. *)
LEMMA ConsumerInv ==
  ASSUME IInv, NEW c \in Consumers, Consumer(c)
  PROVE  IInv'
<1>1. Shape' /\ UNCHANGED mainVars /\ ~Ended
  BY ConsumerShape, Zenon DEF IInv, Consumer, Get, Run, SetStop, SetError, Put
<1>2. ThreadStep
  BY GetStep, KeepsStep, PutStep, Zenon DEF Consumer, IInv
<1> QED
  BY <1>1, <1>2, ThreadStepInv, ConsumerDone, ConsumerThreads, Zenon DEF IInv

-----------------------------------------------------------------------------
(* The main thread, without the manager.                                     *)

(* Tasks move, the tasks G are added by a task that is finished, and what is set once *)
(* stays set.                                                                          *)
Adds(G) ==
  /\ \A t \in Tasks :
       PlacesIn(ready', out', consumer', outstanding', frozen', tasks_done', t)
       = PlacesIn(ready, out, consumer, outstanding, frozen, tasks_done, t) + Bit(t, G)
  /\ \A t \in G : /\ PlacesIn(ready, out, consumer, outstanding, frozen, tasks_done, t) = 0
                  /\ ~Grouped(bld, t)
  /\ \A p \in Tasks : tasks_done'[p] = 0 => bld.more[p] \cap G = {}
  /\ \A p \in Tasks : tasks_done'[p] = 1 /\ started[p] = 1 /\ tasks_done[p] # 1 =>
       stop \/ bld.more[p] \subseteq G

MainStep ==
  /\ \E G \in SUBSET Tasks : Adds(G)
  /\ \A t \in Tasks :
       /\ tasks_done'[t] >= tasks_done[t]
       /\ Copies(out', t) + tasks_done'[t] >= Copies(out, t) + tasks_done[t]
       /\ HeldIn(consumer', t) = HeldIn(consumer, t)
       /\ tasks_done'[t] + Copies(out', t) > 0 =>
            tasks_done[t] + Copies(out, t) > 0 \/ hasrun'[t] # "not_run"
       /\ Copies(ready', t) > Copies(ready, t) =>
            \A p \in Tasks : <<t, p>> \in run_after => hasrun[p] # "not_run"
       /\ hasrun'[t] = "not_run" => hasrun[t] = "not_run"
  /\ stop => stop'
  /\ UNCHANGED <<bld, group, left, order, temp_tasks, run_after, maxjobs, started>>

(* What a step of the main thread that only moves tasks keeps. *)
LEMMA MainStepInv ==
  ASSUME IInv, Shape', MainStep
  PROVE  PlacesOK' /\ AddedOK' /\ StartedOK' /\ LimitOK' /\ HandedOK' /\ GroupsOK' /\ BeforeOK' /\ DoneOK'
<1> DEFINE N(t) == PlacesIn(ready, out, consumer, outstanding, frozen, tasks_done, t)
           M(t) == PlacesIn(ready', out', consumer', outstanding', frozen', tasks_done', t)
<1>0. UNCHANGED <<bld, group, left, order, temp_tasks, run_after, maxjobs, started>>
  BY Zenon DEF MainStep
<1>1. /\ \A t \in Tasks : CountsOf(ready, out, consumer, outstanding, frozen, tasks_done, t)
      /\ \A t \in Tasks : CountsOf(ready', out', consumer', outstanding', frozen', tasks_done', t)
      /\ \A t \in Tasks : started[t] \in Nat
  <2>1. /\ \A t \in Tasks : CountsOf(ready, out, consumer, outstanding, frozen, tasks_done, t)
        /\ \A t \in Tasks : CountsOf(ready', out', consumer', outstanding', frozen', tasks_done', t)
    BY CountsAre, CountsAreNext, Zenon DEF IInv, Shape
  <2>2. started \in [Tasks -> Nat]
    BY Zenon DEF IInv, Shape, RunShape
  <2>3. \A t \in Tasks : started[t] \in Nat
    BY <2>2, Zenon
  <2> QED
    BY <2>1, <2>3, Zenon
<1>2. PICK G \in SUBSET Tasks : Adds(G)
  BY Zenon DEF MainStep
<1>3. GroupShape /\ PlacesOK
  BY Zenon DEF IInv, Shape
<1>4. \A t \in Tasks : N(t) \in Nat /\ N(t) >= tasks_done[t] /\ tasks_done[t] \in Nat
  <2> SUFFICES ASSUME NEW t \in Tasks PROVE N(t) \in Nat /\ N(t) >= tasks_done[t] /\ tasks_done[t] \in Nat
    OBVIOUS
  <2>1. CountsOf(ready, out, consumer, outstanding, frozen, tasks_done, t)
    BY <1>1, Zenon
  <2> QED
    BY <2>1 DEF CountsOf, PlacesIn
<1>5. \A t \in Tasks : M(t) >= tasks_done'[t] /\ tasks_done'[t] \in Nat
  <2> SUFFICES ASSUME NEW t \in Tasks PROVE M(t) >= tasks_done'[t] /\ tasks_done'[t] \in Nat
    OBVIOUS
  <2>1. CountsOf(ready', out', consumer', outstanding', frozen', tasks_done', t)
    BY <1>1, Zenon
  <2> QED
    BY <2>1 DEF CountsOf, PlacesIn
<1> HIDE DEF N, M
<1>6. /\ \A t \in G : N(t) = 0 /\ M(t) = 1 /\ ~Grouped(bld, t) /\ t \in Tasks
      /\ \A t \in Tasks \ G : M(t) = N(t)
  <2>1. \A t \in Tasks : M(t) = N(t) + Bit(t, G)
    BY <1>2, Zenon DEF Adds, N, M
  <2>2. \A t \in G : N(t) = 0 /\ ~Grouped(bld, t) /\ t \in Tasks
    BY <1>2, Zenon DEF Adds, N
  <2> QED
    BY <1>4, <2>1, <2>2 DEF Bit
<1>7. \A t : Pending(bld, group, left, temp_tasks, t) => Grouped(bld, t)
  BY <1>3, BuildIs, Zenon
<1>8. \A t \in Tasks : /\ N(t) <= 1
                       /\ Pending(bld, group, left, temp_tasks, t) => N(t) = 0
                       /\ Grouped(bld, t) /\ ~Pending(bld, group, left, temp_tasks, t) => N(t) = 1
  BY <1>3, Zenon DEF PlacesOK, N
<1>9. \A t \in Tasks : /\ M(t) <= 1
                       /\ Pending(bld, group, left, temp_tasks, t) => M(t) = 0
                       /\ Grouped(bld, t) /\ ~Pending(bld, group, left, temp_tasks, t) => M(t) = 1
  <2> SUFFICES ASSUME NEW t \in Tasks
               PROVE  /\ M(t) <= 1
                      /\ Pending(bld, group, left, temp_tasks, t) => M(t) = 0
                      /\ Grouped(bld, t) /\ ~Pending(bld, group, left, temp_tasks, t) => M(t) = 1
    OBVIOUS
  <2>1. CASE t \in G
    BY <1>6, <1>7, <2>1
  <2>2. CASE t \notin G
    BY <1>6, <1>8, <2>2, Zenon
  <2> QED
    BY <2>1, <2>2, Zenon
<1>10. PlacesOK'
  BY <1>0, <1>9, Zenon DEF PlacesOK, M
<1>11. \A t \in Tasks : tasks_done'[t] >= tasks_done[t] /\ tasks_done'[t] <= 1
  <2>1. \A t \in Tasks : tasks_done'[t] >= tasks_done[t]
    BY Zenon DEF MainStep
  <2>2. \A t \in Tasks : tasks_done'[t] <= 1
    BY <1>5, <1>6, <1>8, <1>4
  <2> QED
    BY <2>1, <2>2, Zenon
<1>12. AddedOK'
  <2> SUFFICES ASSUME NEW t \in Tasks, NEW p \in Tasks, t \in bld.more[p]
               PROVE  /\ tasks_done'[p] = 0 => M(t) = 0
                      /\ tasks_done'[p] = 1 /\ started[p] = 1 => stop' \/ M(t) = 1
    BY <1>0, Zenon DEF AddedOK, M
  <2>1. /\ tasks_done[p] = 0 => N(t) = 0
        /\ tasks_done[p] = 1 /\ started[p] = 1 => stop \/ N(t) = 1
    BY Zenon DEF IInv, AddedOK, N
  <2>2. ASSUME tasks_done'[p] = 0 PROVE M(t) = 0
    <3>1. tasks_done[p] = 0
      BY <1>4, <1>11, <2>2
    <3>2. t \notin G
      BY <1>2, <2>2, Zenon DEF Adds
    <3> QED
      BY <1>6, <2>1, <3>1, <3>2, Zenon
  <2>3. ASSUME tasks_done'[p] = 1, started[p] = 1 PROVE stop \/ M(t) = 1
    <3>1. CASE tasks_done[p] = 1
      BY <1>6, <2>1, <2>3, <3>1, Zenon
    <3>2. CASE tasks_done[p] # 1
      <4>1. stop \/ t \in G
        BY <1>2, <2>3, <3>2, Zenon DEF Adds
      <4> QED
        BY <1>6, <4>1, Zenon
    <3> QED
      BY <3>1, <3>2, Zenon
  <2>4. stop => stop'
    BY Zenon DEF MainStep
  <2> QED
    BY <2>2, <2>3, <2>4, Zenon
<1>13. StartedOK'
  <2> SUFFICES ASSUME NEW t \in Tasks
               PROVE  started[t] <= Copies(out', t) + HeldIn(consumer', t) + tasks_done'[t]
    BY <1>0, Zenon DEF StartedOK
  <2>1. /\ started[t] <= Copies(out, t) + HeldIn(consumer, t) + tasks_done[t]
        /\ Copies(out', t) + tasks_done'[t] >= Copies(out, t) + tasks_done[t]
        /\ HeldIn(consumer', t) = HeldIn(consumer, t) /\ started[t] \in Nat
        /\ CountsOf(ready, out, consumer, outstanding, frozen, tasks_done, t)
        /\ CountsOf(ready', out', consumer', outstanding', frozen', tasks_done', t)
    BY <1>1, Zenon DEF IInv, StartedOK, MainStep
  <2> QED
    BY <2>1 DEF CountsOf
<1>14. LimitOK'
  <2> SUFFICES ASSUME bld.algotype = "JOBCONTROL", NEW t \in Tasks,
                      Grouped(bld, t), tasks_done'[t] = 0, M(t) = 1
               PROVE  bld.maxjobs[t] = maxjobs
    BY <1>0, Zenon DEF LimitOK, M
  <2>1. N(t) = 1 /\ tasks_done[t] = 0
    BY <1>4, <1>6, <1>11
  <2> QED
    BY <2>1, Zenon DEF IInv, LimitOK, N
<1>15. HandedOK'
  <2> SUFFICES ASSUME NEW t \in Tasks, Copies(ready', t) + HeldIn(consumer', t) > 0,
                      NEW p \in Tasks, <<t, p>> \in run_after
               PROVE  hasrun'[p] # "not_run"
    BY <1>0, Zenon DEF HandedOK
  <2>1. Copies(ready, t) + HeldIn(consumer, t) > 0 \/ Copies(ready', t) > Copies(ready, t)
    <3>1. /\ HeldIn(consumer', t) = HeldIn(consumer, t)
          /\ CountsOf(ready, out, consumer, outstanding, frozen, tasks_done, t)
          /\ CountsOf(ready', out', consumer', outstanding', frozen', tasks_done', t)
      BY <1>1, Zenon DEF MainStep
    <3> QED
      BY <3>1 DEF CountsOf
  <2>2. hasrun[p] # "not_run"
    BY <2>1, Zenon DEF MainStep, IInv, HandedOK
  <2> QED
    BY <2>2, Zenon DEF MainStep
<1>16. GroupsOK'
  <2>1. ASSUME NEW j \in DOMAIN bld.groups, j < group, NEW p \in bld.groups[j] PROVE tasks_done'[p] = 1
    <3>1. p \in Tasks
      BY <1>3, BuildIs, Zenon DEF Grouped
    <3>2. tasks_done[p] = 1
      BY <2>1, Zenon DEF IInv, GroupsOK
    <3> QED
      BY <1>5, <1>11, <3>1, <3>2
  <2> QED
    BY <1>0, <2>1, Zenon DEF IInv, GroupsOK
<1>17. BeforeOK'
  <2>1. bld.groups[group] \subseteq Tasks
    BY <1>3, BuildIs, Zenon
  <2> SUFFICES ASSUME NEW t \in bld.groups[group], bld.type[t] \notin left,
                      NEW p \in BeforeIn(bld, t, bld.groups[group])
               PROVE  IF bld.algotype = "MAXPARALLEL" THEN <<t, p>> \in run_after
                      ELSE /\ stop' \/ hasrun'[p] # "not_run"
                           /\ HeldIn(consumer', t) > 0 => hasrun'[p] # "not_run"
    BY <1>0, Zenon DEF BeforeOK
  <2>2. t \in Tasks /\ p \in Tasks
    BY <2>1, Zenon DEF BeforeIn
  <2>3. IF bld.algotype = "MAXPARALLEL" THEN <<t, p>> \in run_after
        ELSE /\ stop \/ hasrun[p] # "not_run"
             /\ HeldIn(consumer, t) > 0 => hasrun[p] # "not_run"
    BY Zenon DEF IInv, BeforeOK
  <2>4. /\ (stop => stop') /\ HeldIn(consumer', t) = HeldIn(consumer, t)
        /\ hasrun'[p] = "not_run" => hasrun[p] = "not_run"
    BY <2>2, Zenon DEF MainStep
  <2> QED
    BY <2>3, <2>4, Zenon
<1>18. DoneOK'
  <2> SUFFICES ASSUME NEW t \in Tasks, tasks_done'[t] + Copies(out', t) > 0
               PROVE  hasrun'[t] # "not_run" \/ stop'
    BY Zenon DEF DoneOK
  <2>1. tasks_done[t] + Copies(out, t) > 0 \/ hasrun'[t] # "not_run"
    BY Zenon DEF MainStep
  <2> QED
    BY <2>1, Zenon DEF IInv, DoneOK, MainStep
<1> QED
  BY <1>10, <1>12, <1>13, <1>14, <1>15, <1>16, <1>17, <1>18, Zenon

(* Membership in a union. *)
LEMMA BitSums ==
  ASSUME NEW t, NEW A, NEW G
  PROVE  /\ t \notin A \/ t \notin G => Bit(t, A \cup G) = Bit(t, A) + Bit(t, G)
         /\ Bit(t, {}) = 0
         /\ Bit(t, A) \in {0, 1}
BY DEF Bit

(* A step that moves the main thread on, or looks at tasks that wait again.    *)
LEMMA StillStep ==
  ASSUME IInv,
         UNCHANGED <<bld, group, left, order, temp_tasks, run_after, maxjobs, ready, out, stop,
                     error, consumer, hasrun, tasks_done, started>>,
         \/ outstanding' = outstanding /\ frozen' = frozen
         \/ outstanding = {} /\ outstanding' = frozen /\ frozen' = {}
  PROVE  MainStep
<1>1. ASSUME NEW t \in Tasks
      PROVE  /\ PlacesIn(ready, out, consumer, outstanding', frozen', tasks_done, t)
                = PlacesIn(ready, out, consumer, outstanding, frozen, tasks_done, t) + Bit(t, {})
             /\ tasks_done[t] >= tasks_done[t]
             /\ Copies(out, t) + tasks_done[t] >= Copies(out, t) + tasks_done[t]
             /\ ~(Copies(ready, t) > Copies(ready, t))
  <2>1. CountsOf(ready, out, consumer, outstanding, frozen, tasks_done, t) /\ Bit(t, {}) = 0
    BY CountsAre, BitSums, Zenon DEF IInv, Shape
  <2>2. CASE outstanding' = outstanding /\ frozen' = frozen
    BY <2>1, <2>2 DEF CountsOf, PlacesIn
  <2>3. CASE outstanding = {} /\ outstanding' = frozen /\ frozen' = {}
    <3>1. Bit(t, outstanding') = Bit(t, frozen) /\ Bit(t, frozen') = 0 /\ Bit(t, outstanding) = 0
      BY <2>1, <2>3, Zenon
    <3> QED
      BY <2>1, <3>1 DEF CountsOf, PlacesIn
  <2> QED
    BY <2>2, <2>3, Zenon
<1>2. Adds({})
  <2>1. \A t \in Tasks :
       PlacesIn(ready', out', consumer', outstanding', frozen', tasks_done', t)
       = PlacesIn(ready, out, consumer, outstanding, frozen, tasks_done, t) + Bit(t, {})
    BY <1>1, Zenon
  <2>2. \A p \in Tasks : bld.more[p] \cap {} = {}
    OBVIOUS
  <2>3. tasks_done' = tasks_done
    OBVIOUS
  <2> QED
    BY <2>1, <2>2, <2>3, Zenon DEF Adds
<1>3. {} \in SUBSET Tasks
  OBVIOUS
<1>4. \A t \in Tasks :
       /\ tasks_done'[t] >= tasks_done[t]
       /\ Copies(out', t) + tasks_done'[t] >= Copies(out, t) + tasks_done[t]
       /\ ~(Copies(ready', t) > Copies(ready, t))
  BY <1>1, Zenon
<1> QED
  BY <1>2, <1>3, <1>4, Zenon DEF MainStep

(* A task comes back from the consumers, and those that wait may be looked at again. *)
LEMMA GetOutStep ==
  ASSUME IInv, get_out,
         UNCHANGED <<bld, group, left, order, temp_tasks, run_after, maxjobs, ready, stop,
                     error, consumer, hasrun, started>>,
         \/ outstanding' = outstanding \cup More /\ frozen' = frozen
         \/ outstanding = {} /\ outstanding' = More \cup frozen /\ frozen' = {}
  PROVE  MainStep
<1> DEFINE h == Head(out)
           N(t) == PlacesIn(ready, out, consumer, outstanding, frozen, tasks_done, t)
<1>0. /\ RunShape /\ GroupShape /\ PlacesOK /\ AddedOK
      /\ \A t \in Tasks : CountsOf(ready, out, consumer, outstanding, frozen, tasks_done, t)
      /\ out \in Seq(Tasks) /\ tasks_done \in [Tasks -> Nat]
  BY CountsAre, Zenon DEF IInv, Shape, RunShape
<1>1. out # << >> /\ out' = Tail(out) /\ tasks_done' = [tasks_done EXCEPT ![h] = @ + 1]
  BY Zenon DEF get_out
<1>2. h \in Tasks
  BY <1>0, <1>1, QueueTypes, Zenon
<1>3. \A t \in Tasks : Copies(out, t) = Copies(out', t) + Bit(t, {h}) /\ Copies(out', t) \in Nat
  BY <1>0, <1>1, CopiesTail, Zenon
<1> HIDE DEF h
<1>4. \A t \in Tasks : tasks_done'[t] = tasks_done[t] + Bit(t, {h})
  BY <1>0, <1>1, <1>2, Bump, Zenon
<1>5. tasks_done[h] = 0
  <2>1. /\ CountsOf(ready, out, consumer, outstanding, frozen, tasks_done, h) /\ N(h) <= 1
        /\ Copies(out, h) = Copies(out', h) + Bit(h, {h}) /\ Copies(out', h) \in Nat
    BY <1>0, <1>2, <1>3, Zenon DEF PlacesOK
  <2>2. Bit(h, {h}) = 1
    BY Zenon DEF Bit
  <2> QED
    BY <2>1, <2>2 DEF CountsOf, PlacesIn
<1>6. bld.more[h] \subseteq Tasks /\ \A p \in Tasks : p # h => bld.more[p] \cap bld.more[h] = {}
  <2>1. BuildOK(bld)
    BY <1>0, BuildIs, Zenon
  <2>2. bld.more \in [Tasks -> SUBSET Tasks] /\ \A p, q \in Tasks : p # q => bld.more[p] \cap bld.more[q] = {}
    BY <2>1, Zenon DEF BuildOK
  <2> QED
    BY <1>2, <2>2, Zenon
<1>7. More \subseteq bld.more[h] /\ (stop \/ More = bld.more[h])
  BY Zenon DEF More, h
<1>8. ASSUME NEW t \in More
      PROVE  t \in Tasks /\ N(t) = 0 /\ ~Grouped(bld, t) /\ t \notin outstanding /\ t \notin frozen
  <2>1. t \in Tasks /\ t \in bld.more[h]
    BY <1>6, <1>7, Zenon
  <2>2. N(t) = 0 /\ ~Grouped(bld, t) /\ CountsOf(ready, out, consumer, outstanding, frozen, tasks_done, t)
    BY <1>0, <1>2, <1>5, <2>1, BuildIs, Zenon DEF AddedOK
  <2>3. Bit(t, outstanding) = 0 /\ Bit(t, frozen) = 0
    BY <2>2 DEF CountsOf, PlacesIn
  <2> QED
    BY <2>1, <2>2, <2>3 DEF Bit
<1>9. ASSUME NEW t \in Tasks
      PROVE  Bit(t, outstanding') + Bit(t, frozen') = Bit(t, outstanding) + Bit(t, frozen) + Bit(t, More)
  <2>0. t \notin More \/ (t \notin outstanding /\ t \notin frozen)
    BY <1>8, Zenon
  <2>1. CASE outstanding' = outstanding \cup More /\ frozen' = frozen
    <3>1. Bit(t, outstanding') = Bit(t, outstanding) + Bit(t, More) /\ Bit(t, frozen') = Bit(t, frozen)
      <4>1. Bit(t, outstanding \cup More) = Bit(t, outstanding) + Bit(t, More)
        BY <2>0 DEF Bit
      <4> QED
        BY <2>1, <4>1, Zenon
    <3>2. Bit(t, outstanding) \in {0, 1} /\ Bit(t, frozen) \in {0, 1} /\ Bit(t, More) \in {0, 1}
      BY BitSums, Zenon
    <3> QED
      BY <3>1, <3>2
  <2>2. CASE outstanding = {} /\ outstanding' = More \cup frozen /\ frozen' = {}
    BY <2>0, <2>2, BitSums
  <2> QED
    BY <2>1, <2>2, Zenon
<1>10. ASSUME NEW t \in Tasks
       PROVE  /\ PlacesIn(ready', out', consumer', outstanding', frozen', tasks_done', t) = N(t) + Bit(t, More)
              /\ tasks_done'[t] >= tasks_done[t]
              /\ Copies(out', t) + tasks_done'[t] >= Copies(out, t) + tasks_done[t]
              /\ tasks_done'[t] + Copies(out', t) > 0 => tasks_done[t] + Copies(out, t) > 0
              /\ ~(Copies(ready', t) > Copies(ready, t))
  <2>1. /\ CountsOf(ready, out, consumer, outstanding, frozen, tasks_done, t)
        /\ Copies(ready', t) = Copies(ready, t) /\ HeldIn(consumer', t) = HeldIn(consumer, t)
        /\ Copies(out, t) = Copies(out', t) + Bit(t, {h}) /\ Copies(out', t) \in Nat
        /\ tasks_done'[t] = tasks_done[t] + Bit(t, {h})
        /\ Bit(t, outstanding') + Bit(t, frozen') = Bit(t, outstanding) + Bit(t, frozen) + Bit(t, More)
    BY <1>0, <1>3, <1>4, <1>9, Zenon
  <2>2. /\ Bit(t, {h}) \in {0, 1} /\ Bit(t, outstanding') \in {0, 1} /\ Bit(t, frozen') \in {0, 1}
        /\ Bit(t, More) \in {0, 1}
    BY BitSums, Zenon
  <2> QED
    BY <2>1, <2>2 DEF CountsOf, PlacesIn
<1>11. Adds(More)
  <2>1. ASSUME NEW p \in Tasks, tasks_done'[p] = 0 PROVE bld.more[p] \cap More = {}
    <3>1. p # h
      BY <1>2, <1>4, <1>5, <2>1 DEF Bit
    <3> QED
      BY <1>6, <1>7, <3>1, Zenon
  <2>2. ASSUME NEW p \in Tasks, tasks_done'[p] = 1, tasks_done[p] # 1 PROVE stop \/ bld.more[p] \subseteq More
    <3>1. p = h
      BY <1>0, <1>4, <2>2 DEF Bit, CountsOf
    <3> QED
      BY <1>7, <3>1, Zenon
  <2> QED
    BY <1>8, <1>10, <2>1, <2>2, Zenon DEF Adds
<1>12. More \in SUBSET Tasks
  BY <1>8, Zenon
<1> QED
  BY <1>10, <1>11, <1>12, Zenon DEF MainStep

(* The first task that is handed over creates the threads; none of them has one yet. *)
LEMMA HandThreads ==
  ASSUME RunShape, NEW t \in Tasks, Hand(t)
  PROVE  /\ consumer' \in [Consumers -> Slots] /\ BusyIn(consumer') = BusyIn(consumer)
         /\ \A u : HeldIn(consumer', u) = HeldIn(consumer, u)
         /\ \A c \in Consumers : consumer[c].at \in Running => consumer'[c] = consumer[c]
<1>1. /\ consumer \in [Consumers -> Slots]
      /\ consumer' = [c \in Consumers |->
           IF consumer[c].at = "none" THEN [at |-> "get", task |-> NoTask] ELSE consumer[c]]
  BY Zenon DEF RunShape, Hand
<1>2. [at |-> "get", task |-> NoTask] \in Slots
  BY Zenon DEF Slots
<1>3. consumer' \in [Consumers -> Slots]
  BY <1>1, <1>2, Zenon
<1>4. \A c \in Consumers : (consumer'[c].at \in Running <=> consumer[c].at \in Running)
                           /\ (consumer[c].at \in Running => consumer'[c] = consumer[c])
  <2> SUFFICES ASSUME NEW c \in Consumers
               PROVE  /\ consumer'[c].at \in Running <=> consumer[c].at \in Running
                      /\ consumer[c].at \in Running => consumer'[c] = consumer[c]
    OBVIOUS
  <2>1. CASE consumer[c].at = "none"
    BY <1>1, <2>1, Zenon DEF Running
  <2>2. CASE consumer[c].at # "none"
    <3>1. consumer'[c] = consumer[c]
      BY <1>1, <2>2, Zenon
    <3> QED
      BY <3>1, Zenon
  <2> QED
    BY <2>1, <2>2, Zenon
<1>5. BusyIn(consumer') = BusyIn(consumer)
  BY <1>4, Zenon DEF BusyIn
<1>6. \A c \in BusyIn(consumer) : consumer'[c] = consumer[c]
  BY <1>4, Zenon DEF BusyIn
<1>7. ASSUME NEW u PROVE HeldIn(consumer', u) = HeldIn(consumer, u)
  <2>1. {c \in BusyIn(consumer') : consumer'[c].task = u} = {c \in BusyIn(consumer) : consumer[c].task = u}
    BY <1>5, <1>6, Zenon
  <2> QED
    BY <2>1, Zenon DEF HeldIn
<1> QED
  BY <1>3, <1>4, <1>5, <1>7, Zenon

(* A task is finished by the main thread: it was marked, is up to date, or cannot run. *)
Finished(t) ==
  \E how \in {"success", "skipped"} \cup Bad :
    /\ Finish(t, how)
    /\ \/ UNCHANGED <<stop, error>> /\ (how \in Bad => hasrun[t] = how)
       \/ error' /\ stop' = (stop \/ ~bld.keep)
    /\ UNCHANGED <<frozen, count, ready, consumer>>

Frozen(t) ==
  frozen' = frozen \cup {t} /\ UNCHANGED <<count, ready, stop, error, consumer, hasrun, tasks_done>>

Handed(t) ==
  /\ \A p \in Tasks : <<t, p>> \in run_after => hasrun[p] # "not_run"
  /\ Hand(t)
  /\ UNCHANGED <<frozen, stop, error, hasrun, tasks_done>>

(* The branches of Process: the task is finished, frozen or handed over. *)
LEMMA ProcessCases ==
  ASSUME IInv, NEW t \in Tasks, Process(t)
  PROVE  /\ t \in outstanding /\ outstanding' = outstanding \ {t} /\ main = "next" /\ main' = "loop"
         /\ UNCHANGED <<bld, group, left, order, temp_tasks, run_after, maxjobs, out, started>>
         /\ Finished(t) \/ Frozen(t) \/ Handed(t)
<1>0. hasrun \in [Tasks -> {"not_run", "success", "skipped"} \cup Bad]
  BY Zenon DEF IInv, Shape, RunShape
<1>1. /\ t \in outstanding /\ outstanding' = outstanding \ {t} /\ main = "next" /\ main' = "loop"
      /\ UNCHANGED <<bld, group, left, order, temp_tasks, run_after, maxjobs, out, started>>
  BY Zenon DEF Process, mgrVars
<1>2. CASE hasrun[t] # "not_run" /\ Finish(t, hasrun[t]) /\ UNCHANGED <<frozen, count, ready, stop, error, consumer>>
  <2>1. hasrun[t] \in {"success", "skipped"} \cup Bad
    BY <1>0, <1>2, Zenon
  <2> QED
    BY <1>1, <1>2, <2>1, Zenon DEF Finished
<1>3. CASE Finish(t, "skipped") /\ UNCHANGED <<frozen, count, ready, stop, error, consumer>>
  <2>1. "skipped" \notin Bad
    BY Zenon DEF Bad
  <2> QED
    BY <1>1, <1>3, <2>1, Zenon DEF Finished
<1>4. CASE Finish(t, "exception") /\ MainError /\ UNCHANGED <<frozen, count, ready, consumer>>
  <2>1. "exception" \in Bad
    BY Zenon DEF Bad
  <2> QED
    BY <1>1, <1>4, <2>1, Zenon DEF Finished, MainError
<1>5. CASE Frozen(t)
  BY <1>1, <1>5, Zenon
<1>6. CASE ~MustWait(t) /\ Hand(t) /\ UNCHANGED <<frozen, stop, error, hasrun, tasks_done>>
  BY <1>1, <1>6, Zenon DEF Handed, MustWait
<1> QED
  BY <1>2, <1>3, <1>4, <1>5, <1>6, Zenon DEF Process, Frozen

(* Process keeps the types. *)
LEMMA ProcessShape ==
  ASSUME IInv, NEW t \in Tasks, Process(t)
  PROVE  Shape'
<1>0. Shape /\ RunShape
  BY Zenon DEF IInv, Shape
<1>1. /\ t \in outstanding /\ outstanding' = outstanding \ {t} /\ main' = "loop"
      /\ UNCHANGED <<bld, group, left, order, temp_tasks, run_after, maxjobs, out, started>>
      /\ Finished(t) \/ Frozen(t) \/ Handed(t)
  BY ProcessCases, Zenon
<1>2. GroupShape'
  BY <1>0, <1>1, Zenon DEF Shape, GroupShape
<1>3. main' \in Mains /\ outstanding' \subseteq Tasks /\ out' \in Seq(Tasks) /\ started' \in [Tasks -> Nat]
  BY <1>0, <1>1, Zenon DEF RunShape, Mains
<1>4. CASE Finished(t)
  <2>1. PICK how \in {"success", "skipped"} \cup Bad :
          /\ hasrun' = [hasrun EXCEPT ![t] = how] /\ tasks_done' = [tasks_done EXCEPT ![t] = @ + 1]
          /\ (UNCHANGED <<stop, error>>) \/ (error' /\ stop' = (stop \/ ~bld.keep))
          /\ UNCHANGED <<frozen, count, ready, consumer>>
    BY <1>4, Zenon DEF Finished, Finish
  <2>2. hasrun' \in [Tasks -> {"not_run", "success", "skipped"} \cup Bad]
    BY <1>0, <2>1, Zenon DEF RunShape
  <2>3. tasks_done' \in [Tasks -> Nat]
    BY <1>0, <2>1, Bump, Zenon DEF RunShape
  <2>4. stop' \in BOOLEAN /\ error' \in BOOLEAN
    BY <1>0, <2>1, Zenon DEF RunShape
  <2> QED
    BY <1>0, <1>2, <1>3, <2>1, <2>2, <2>3, <2>4, Zenon DEF Shape, RunShape
<1>5. CASE Frozen(t)
  BY <1>0, <1>2, <1>3, <1>5, Zenon DEF Shape, RunShape, Frozen
<1>6. CASE Handed(t)
  <2>1. Hand(t) /\ UNCHANGED <<frozen, stop, error, hasrun, tasks_done>>
    BY <1>6, Zenon DEF Handed
  <2>2. ready' \in Seq(Tasks) /\ count' \in Nat
    BY <1>0, <2>1, AppendTypes DEF RunShape, Hand
  <2>3. /\ consumer' \in [Consumers -> Slots] /\ BusyIn(consumer') = BusyIn(consumer)
        /\ \A c \in Consumers : consumer[c].at \in Running => consumer'[c] = consumer[c]
    BY <1>0, <2>1, HandThreads, Zenon
  <2>4. \A c \in BusyIn(consumer') : consumer'[c].task \in Tasks
    BY <1>0, <2>3, Zenon DEF RunShape, BusyIn
  <2> QED
    BY <1>0, <1>2, <1>3, <2>1, <2>2, <2>3, <2>4, Zenon DEF Shape, RunShape
<1> QED
  BY <1>1, <1>4, <1>5, <1>6, Zenon

-----------------------------------------------------------------------------
(* The main thread and the manager.                                         *)

(* An outstanding task is nowhere else.                                        *)
LEMMA OnlyOutstanding ==
  ASSUME NEW rd, NEW ot, NEW cs, NEW os, NEW fz, NEW td, NEW t, NEW n \in Nat,
         CountsOf(rd, ot, cs, os, fz, td, t), PlacesIn(rd, ot, cs, os, fz, td, t) <= 1,
         Bit(t, os) = 1, n <= Copies(ot, t) + HeldIn(cs, t) + td[t]
  PROVE  n = 0 /\ td[t] = 0 /\ Bit(t, fz) = 0
BY DEF CountsOf, PlacesIn

(* An outstanding task has not been started. *)
LEMMA OutstandingNotStarted ==
  ASSUME IInv, NEW t \in Tasks, t \in outstanding
  PROVE  started[t] # 1 /\ tasks_done[t] = 0 /\ t \notin frozen
<1>1. /\ CountsOf(ready, out, consumer, outstanding, frozen, tasks_done, t)
      /\ PlacesIn(ready, out, consumer, outstanding, frozen, tasks_done, t) <= 1
      /\ started[t] <= Copies(out, t) + HeldIn(consumer, t) + tasks_done[t]
  BY CountsAre, Zenon DEF IInv, Shape, PlacesOK, StartedOK
<1>2. Bit(t, outstanding) = 1
  BY Zenon DEF Bit
<1>3. started[t] \in Nat
  BY Zenon DEF IInv, Shape, RunShape
<1>4. started[t] = 0 /\ tasks_done[t] = 0 /\ Bit(t, frozen) = 0
  BY <1>1, <1>2, <1>3, OnlyOutstanding
<1> QED
  BY <1>4 DEF Bit

(* A task leaves the outstanding ones for one other place.                    *)
LEMMA LeavesStep ==
  ASSUME IInv, NEW t \in Tasks, t \in outstanding, outstanding' = outstanding \ {t},
         UNCHANGED <<bld, group, left, order, temp_tasks, run_after, maxjobs, out, started>>,
         stop => stop',
         \A u \in Tasks :
           /\ HeldIn(consumer', u) = HeldIn(consumer, u)
           /\ hasrun'[u] = "not_run" => hasrun[u] = "not_run"
           /\ \/ /\ Copies(ready', u) = Copies(ready, u) + Bit(u, {t})
                 /\ Bit(u, frozen') = Bit(u, frozen) /\ tasks_done'[u] = tasks_done[u]
                 /\ \A p \in Tasks : <<t, p>> \in run_after => hasrun[p] # "not_run"
              \/ /\ Copies(ready', u) = Copies(ready, u)
                 /\ Bit(u, frozen') = Bit(u, frozen) + Bit(u, {t}) /\ tasks_done'[u] = tasks_done[u]
              \/ /\ Copies(ready', u) = Copies(ready, u) /\ Bit(u, frozen') = Bit(u, frozen)
                 /\ tasks_done'[u] = tasks_done[u] + Bit(u, {t}) /\ hasrun'[t] # "not_run"
  PROVE  MainStep
<1>1. ASSUME NEW u \in Tasks
      PROVE  /\ PlacesIn(ready', out', consumer', outstanding', frozen', tasks_done', u)
                = PlacesIn(ready, out, consumer, outstanding, frozen, tasks_done, u) + Bit(u, {})
             /\ tasks_done'[u] >= tasks_done[u]
             /\ Copies(out', u) + tasks_done'[u] >= Copies(out, u) + tasks_done[u]
             /\ tasks_done'[u] # tasks_done[u] => u = t /\ hasrun'[t] # "not_run"
             /\ Copies(ready', u) > Copies(ready, u) =>
                  u = t /\ \A p \in Tasks : <<t, p>> \in run_after => hasrun[p] # "not_run"
  <2>1. CountsOf(ready, out, consumer, outstanding, frozen, tasks_done, u) /\ Bit(u, {}) = 0
    BY CountsAre, BitSums, Zenon DEF IInv, Shape
  <2>2. Bit(u, outstanding) = Bit(u, outstanding') + Bit(u, {t}) /\ Bit(u, outstanding') \in {0, 1}
        /\ (Bit(u, {t}) = 0 \/ (u = t /\ Bit(u, {t}) = 1))
    BY DEF Bit
  <2>3. out' = out /\ HeldIn(consumer', u) = HeldIn(consumer, u)
    BY Zenon
  <2>4. CASE /\ Copies(ready', u) = Copies(ready, u) + Bit(u, {t})
             /\ Bit(u, frozen') = Bit(u, frozen) /\ tasks_done'[u] = tasks_done[u]
             /\ \A p \in Tasks : <<t, p>> \in run_after => hasrun[p] # "not_run"
    <3>1. Copies(ready', u) > Copies(ready, u) => u = t
      BY <2>1, <2>2, <2>4 DEF CountsOf
    <3>2. /\ PlacesIn(ready', out', consumer', outstanding', frozen', tasks_done', u)
             = PlacesIn(ready, out, consumer, outstanding, frozen, tasks_done, u) + Bit(u, {})
          /\ tasks_done'[u] >= tasks_done[u] /\ tasks_done'[u] = tasks_done[u]
          /\ Copies(out', u) + tasks_done'[u] >= Copies(out, u) + tasks_done[u]
      BY <2>1, <2>2, <2>3, <2>4 DEF CountsOf, PlacesIn
    <3> QED
      BY <2>4, <3>1, <3>2, Zenon
  <2>5. CASE /\ Copies(ready', u) = Copies(ready, u)
             /\ Bit(u, frozen') = Bit(u, frozen) + Bit(u, {t}) /\ tasks_done'[u] = tasks_done[u]
    BY <2>1, <2>2, <2>3, <2>5 DEF CountsOf, PlacesIn
  <2>6. CASE /\ Copies(ready', u) = Copies(ready, u) /\ Bit(u, frozen') = Bit(u, frozen)
             /\ tasks_done'[u] = tasks_done[u] + Bit(u, {t}) /\ hasrun'[t] # "not_run"
    BY <2>1, <2>2, <2>3, <2>6 DEF CountsOf, PlacesIn
  <2> QED
    BY <2>4, <2>5, <2>6, Zenon
<1>2. started[t] # 1 /\ tasks_done[t] = 0
  BY OutstandingNotStarted, Zenon
<1>3. Adds({})
  <2>1. \A p \in Tasks : bld.more[p] \cap {} = {}
    OBVIOUS
  <2>2. \A p \in Tasks : ~(tasks_done'[p] = 1 /\ started[p] = 1 /\ tasks_done[p] # 1)
    BY <1>1, <1>2, Zenon
  <2> QED
    BY <1>1, <2>1, <2>2, Zenon DEF Adds
<1>4. {} \in SUBSET Tasks
  OBVIOUS
<1>5. \A u \in Tasks : tasks_done'[u] + Copies(out', u) > 0 =>
            tasks_done[u] + Copies(out, u) > 0 \/ hasrun'[u] # "not_run"
  BY <1>1, Zenon
<1> QED
  BY <1>1, <1>3, <1>4, <1>5, Zenon DEF MainStep

(* get_next() and start() move one task. *)
LEMMA ProcessStep ==
  ASSUME IInv, NEW t \in Tasks, Process(t)
  PROVE  MainStep
<1>0. RunShape
  BY Zenon DEF IInv, Shape
<1>1. /\ t \in outstanding /\ outstanding' = outstanding \ {t}
      /\ UNCHANGED <<bld, group, left, order, temp_tasks, run_after, maxjobs, out, started>>
      /\ Finished(t) \/ Frozen(t) \/ Handed(t)
  BY ProcessCases, Zenon
<1>2. \A u \in Tasks : CountsOf(ready, out, consumer, outstanding, frozen, tasks_done, u)
  BY <1>0, CountsAre, Zenon
<1>3. CASE Finished(t)
  <2>1. PICK how \in {"success", "skipped"} \cup Bad :
          /\ hasrun' = [hasrun EXCEPT ![t] = how] /\ tasks_done' = [tasks_done EXCEPT ![t] = @ + 1]
          /\ (UNCHANGED <<stop, error>>) \/ (error' /\ stop' = (stop \/ ~bld.keep))
          /\ UNCHANGED <<frozen, count, ready, consumer>>
    BY <1>3, Zenon DEF Finished, Finish
  <2>2. \A u \in Tasks : tasks_done'[u] = tasks_done[u] + Bit(u, {t})
    BY <1>0, <2>1, Bump, Zenon DEF RunShape
  <2>3. hasrun'[t] # "not_run" /\ \A u \in Tasks : hasrun'[u] = "not_run" => hasrun[u] = "not_run"
    BY <1>0, <2>1, Zenon DEF RunShape, Bad
  <2>4. stop => stop'
    BY <1>0, <2>1, Zenon DEF RunShape
  <2>5. UNCHANGED <<frozen, ready, consumer>>
    BY <2>1, Zenon
  <2> QED
    BY <1>1, <2>2, <2>3, <2>4, <2>5, LeavesStep, Zenon
<1>4. CASE Frozen(t)
  <2>1. t \notin frozen
    BY <1>1, OutstandingNotStarted, Zenon
  <2>2. \A u \in Tasks : Bit(u, frozen') = Bit(u, frozen) + Bit(u, {t})
    BY <1>4, <2>1 DEF Frozen, Bit
  <2>3. UNCHANGED <<ready, stop, consumer, hasrun, tasks_done>>
    BY <1>4, Zenon DEF Frozen
  <2> QED
    BY <1>1, <2>2, <2>3, LeavesStep, Zenon
<1>5. CASE Handed(t)
  <2>1. /\ Hand(t) /\ UNCHANGED <<frozen, stop, error, hasrun, tasks_done>>
        /\ \A p \in Tasks : <<t, p>> \in run_after => hasrun[p] # "not_run"
    BY <1>5, Zenon DEF Handed
  <2>2. \A u \in Tasks : HeldIn(consumer', u) = HeldIn(consumer, u)
    BY <1>0, <2>1, HandThreads, Zenon
  <2>3. ready \in Seq(Tasks) /\ ready' = Append(ready, t)
    BY <1>0, <2>1, Zenon DEF RunShape, Hand
  <2>4. \A u \in Tasks : Copies(ready', u) = Copies(ready, u) + Bit(u, {t})
    BY <2>3, CopiesAppend, Zenon
  <2> QED
    BY <1>1, <2>1, <2>2, <2>4, LeavesStep, Zenon
<1> QED
  BY <1>1, <1>3, <1>4, <1>5, Zenon

(* The flags of the threads, when the main thread takes a step.               *)
LEMMA MainThreads ==
  ASSUME RunShape, ThreadsOK,
         \A u \in Tasks : hasrun'[u] = "not_run" => hasrun[u] = "not_run",
         BusyIn(consumer') = BusyIn(consumer),
         \A c \in Consumers : consumer[c].at \in Running => consumer'[c] = consumer[c],
         \/ error'
         \/ UNCHANGED <<stop, error>> /\ \A u \in Tasks : hasrun'[u] \in Bad => hasrun[u] \in Bad
  PROVE  ThreadsOK'
<1>1. \A c \in BusyIn(consumer) : consumer'[c] = consumer[c] /\ consumer[c].task \in Tasks
  BY Zenon DEF BusyIn, RunShape
<1>2. ASSUME NEW c \in BusyIn(consumer'), consumer'[c].at # "run" PROVE hasrun'[consumer'[c].task] # "not_run"
  <2>1. c \in BusyIn(consumer) /\ consumer'[c] = consumer[c] /\ consumer[c].task \in Tasks
        /\ consumer[c].at # "run"
    BY <1>1, <1>2, Zenon
  <2>2. hasrun'[consumer[c].task] # "not_run"
    BY <2>1, Zenon DEF ThreadsOK
  <2> QED
    BY <2>1, <2>2, Zenon
<1>3. CASE error'
  BY <1>2, <1>3, Zenon DEF ThreadsOK
<1>4. CASE UNCHANGED <<stop, error>> /\ \A u \in Tasks : hasrun'[u] \in Bad => hasrun[u] \in Bad
  <2>1. \A c \in Consumers : consumer[c].at \in {"stop", "error", "gone"} => consumer'[c] = consumer[c]
    BY Zenon DEF Running
  <2>2. ASSUME NEW u \in Tasks, hasrun'[u] \in Bad
        PROVE  error' \/ \E c \in Consumers : consumer'[c].at \in {"stop", "error", "gone"} /\ consumer'[c].task = u
    BY <1>4, <2>1, <2>2 DEF ThreadsOK
  <2>3. ASSUME stop' PROVE error' \/ \E c \in Consumers : consumer'[c].at = "error"
    BY <1>4, <2>1, <2>3, Zenon DEF ThreadsOK
  <2> QED
    BY <1>2, <2>2, <2>3, Zenon DEF ThreadsOK
<1> QED
  BY <1>3, <1>4, Zenon

(* Processing a task keeps the invariant. *)
LEMMA ProcessInv ==
  ASSUME IInv, NEW t \in Tasks, Process(t)
  PROVE  IInv'
<1>0. RunShape /\ ThreadsOK /\ CountOK /\ GroupShape
  BY Zenon DEF IInv, Shape
<1>1. Shape' /\ MainStep
  BY ProcessShape, ProcessStep, Zenon
<1>2. /\ main = "next" /\ main' = "loop" /\ UNCHANGED <<bld, maxjobs, out>>
      /\ Finished(t) \/ Frozen(t) \/ Handed(t)
  BY ProcessCases, Zenon
<1>3. EndOK'
  BY <1>2, Zenon DEF EndOK
<1>4. CASE Finished(t) \/ Frozen(t)
  <2>1. UNCHANGED <<count, ready, consumer>>
    BY <1>4, Zenon DEF Finished, Frozen
  <2>2. CountOK'
    BY <1>0, <1>2, <2>1, Zenon DEF CountOK
  <2>3. error' \/ (UNCHANGED <<stop, error>> /\ \A u \in Tasks : hasrun'[u] \in Bad => hasrun[u] \in Bad)
    <3>1. CASE Frozen(t)
      BY <3>1, Zenon DEF Frozen
    <3>2. CASE Finished(t)
      <4>1. PICK how \in {"success", "skipped"} \cup Bad :
              /\ hasrun' = [hasrun EXCEPT ![t] = how]
              /\ error' \/ (UNCHANGED <<stop, error>> /\ (how \in Bad => hasrun[t] = how))
        BY <3>2, Zenon DEF Finished, Finish
      <4>2. \A u \in Tasks : hasrun'[u] = IF u = t THEN how ELSE hasrun[u]
        BY <1>0, <4>1, Zenon DEF RunShape
      <4> QED
        BY <4>1, <4>2, Zenon
    <3> QED
      BY <1>4, <3>1, <3>2, Zenon
  <2>4. \A u \in Tasks : hasrun'[u] = "not_run" => hasrun[u] = "not_run"
    BY <1>1, Zenon DEF MainStep
  <2>5. BusyIn(consumer') = BusyIn(consumer)
        /\ \A c \in Consumers : consumer[c].at \in Running => consumer'[c] = consumer[c]
    BY <2>1, Zenon
  <2>6. ThreadsOK'
    BY <1>0, <2>3, <2>4, <2>5, MainThreads, Zenon
  <2> QED
    BY <1>1, <1>3, <2>2, <2>6, MainStepInv, Zenon DEF IInv
<1>5. CASE Handed(t)
  <2>1. Hand(t) /\ UNCHANGED <<frozen, stop, error, hasrun, tasks_done>>
    BY <1>5, Zenon DEF Handed
  <2>2. /\ BusyIn(consumer') = BusyIn(consumer)
        /\ \A c \in Consumers : consumer[c].at \in Running => consumer'[c] = consumer[c]
    BY <1>0, <2>1, HandThreads, Zenon
  <2>3. ThreadsOK'
    BY <1>0, <2>1, <2>2, MainThreads, Zenon
  <2>4. CountOK'
    <3>1. ready \in Seq(Tasks) /\ out \in Seq(Tasks) /\ count \in Nat /\ maxjobs \in Nat
      BY <1>0, Zenon DEF RunShape, GroupShape
    <3>2. count' = count + 1 /\ Len(ready') = Len(ready) + 1 /\ Len(ready) \in Nat /\ Len(out) \in Nat
      BY <2>1, <3>1, AppendTypes, Zenon DEF Hand
    <3>3. Cardinality(BusyIn(consumer)) \in Nat
      BY BusyFinite, Zenon
    <3>4. count = Len(ready) + Len(out) + Cardinality(BusyIn(consumer)) /\ count < maxjobs
      BY <1>0, <1>2, Zenon DEF CountOK
    <3>5. count' = Len(ready') + Len(out') + Cardinality(BusyIn(consumer')) /\ count' <= maxjobs'
      BY <1>2, <2>2, <3>1, <3>2, <3>3, <3>4
    <3> QED
      BY <1>2, <3>5, Zenon DEF CountOK
  <2> QED
    BY <1>1, <1>3, <2>3, <2>4, MainStepInv, Zenon DEF IInv
<1> QED
  BY <1>2, <1>4, <1>5, Zenon

(* What a step of the main thread leaves alone when it processes no task.     *)
OnlyMain ==
  UNCHANGED <<bld, group, left, order, temp_tasks, run_after, maxjobs, ready, stop,
              error, consumer, hasrun, started>>

(* A step of the main thread does not touch the threads and the groups. *)
LEMMA OnlyMainThreads ==
  ASSUME IInv, OnlyMain
  PROVE  ThreadsOK' /\ GroupShape' /\ (AllGiven' <=> AllGiven)
<1>1. RunShape /\ ThreadsOK /\ UNCHANGED <<stop, error, consumer, hasrun>>
  BY Zenon DEF IInv, Shape, OnlyMain
<1>2. /\ BusyIn(consumer') = BusyIn(consumer)
      /\ \A c \in Consumers : consumer[c].at \in Running => consumer'[c] = consumer[c]
  BY <1>1, Zenon
<1>3. ThreadsOK'
  BY <1>1, <1>2, MainThreads, Zenon
<1>4. GroupShape' /\ (AllGiven' <=> AllGiven)
  BY Zenon DEF IInv, Shape, GroupShape, OnlyMain, AllGiven
<1> QED
  BY <1>3, <1>4, Zenon

(* Steps that change only where the main thread is, or thaw what waits.       *)
LEMMA StillInv ==
  ASSUME IInv, OnlyMain, UNCHANGED <<out, tasks_done, count>>, main' \in Mains, EndOK',
         main' = "next" => count < maxjobs,
         main' = "nextset" => count = 0 /\ frozen' = {} /\ outstanding' = {},
         \/ outstanding' = outstanding /\ frozen' = frozen
         \/ outstanding = {} /\ outstanding' = frozen /\ frozen' = {}
  PROVE  IInv'
<1>1. MainStep
  BY StillStep, Zenon DEF OnlyMain
<1>2. ThreadsOK' /\ GroupShape'
  BY OnlyMainThreads, Zenon
<1>3. outstanding' \subseteq Tasks /\ frozen' \subseteq Tasks
  <2>1. outstanding \subseteq Tasks /\ frozen \subseteq Tasks
    BY Zenon DEF IInv, Shape, RunShape
  <2> QED
    BY <2>1, Zenon
<1>4. Shape'
  <2>1. RunShape'
    BY <1>3, Zenon DEF IInv, Shape, RunShape, OnlyMain
  <2> QED
    BY <1>2, <2>1, Zenon DEF Shape
<1>5. CountOK'
  <2>1. CountOK /\ UNCHANGED <<bld, maxjobs, ready, consumer>>
    BY Zenon DEF IInv, OnlyMain
  <2>2. outstanding' = {} => \A t \in outstanding' : ~Grouped(bld', t)
    OBVIOUS
  <2> QED
    BY <2>1, <2>2, Zenon DEF CountOK
<1> QED
  BY <1>1, <1>2, <1>4, <1>5, MainStepInv, Zenon DEF IInv

(* get_out() keeps the invariant, with the tasks that the finished one adds. *)
LEMMA GetOutInv ==
  ASSUME IInv, OnlyMain, get_out, main' \in Mains, EndOK',
         main' = "nextset" => count' = 0 /\ frozen = {},
         \/ outstanding' = outstanding \cup More /\ frozen' = frozen
         \/ outstanding = {} /\ outstanding' = More \cup frozen /\ frozen' = {},
         main' = "nextset" => outstanding = {}
  PROVE  IInv'
<1>1. MainStep
  BY GetOutStep, Zenon DEF OnlyMain
<1>2. ThreadsOK' /\ GroupShape'
  BY OnlyMainThreads, Zenon
<1>3. /\ out \in Seq(Tasks) /\ out # << >> /\ out' = Tail(out) /\ tasks_done \in [Tasks -> Nat]
      /\ tasks_done' = [tasks_done EXCEPT ![Head(out)] = @ + 1] /\ count' = count - 1
      /\ ready \in Seq(Tasks) /\ ready' = ready
      /\ RunShape /\ GroupShape
  BY Zenon DEF IInv, Shape, RunShape, get_out, OnlyMain
<1>4. Head(out) \in Tasks /\ out' \in Seq(Tasks) /\ Len(out') = Len(out) - 1 /\ Len(out) \in Nat \ {0}
  BY <1>3, QueueTypes, Zenon
<1>5. tasks_done' \in [Tasks -> Nat]
  BY <1>3, <1>4, Bump, Zenon
<1>6. More \subseteq Tasks /\ \A t \in More : ~Grouped(bld, t)
  <2>1. BuildOK(bld) /\ \A t, p \in Tasks : t \in bld.more[p] => ~Grouped(bld, t)
    BY <1>3, BuildIs, Zenon
  <2>2. bld.more \in [Tasks -> SUBSET Tasks]
    BY <2>1, Zenon DEF BuildOK
  <2>3. More \subseteq bld.more[Head(out)]
    BY Zenon DEF More
  <2>4. bld.more[Head(out)] \subseteq Tasks
    BY <1>4, <2>2, Zenon
  <2> QED
    BY <1>4, <2>1, <2>3, <2>4, Zenon
<1>7. outstanding' \subseteq Tasks /\ frozen' \subseteq Tasks
  BY <1>3, <1>6, Zenon DEF RunShape
<1>8. /\ count = Len(ready) + Len(out) + Cardinality(BusyIn(consumer)) /\ count <= maxjobs
      /\ Len(ready) \in Nat /\ Cardinality(BusyIn(consumer)) \in Nat /\ count \in Nat /\ maxjobs \in Nat
  <2>1. count = Len(ready) + Len(out) + Cardinality(BusyIn(consumer)) /\ count <= maxjobs
    BY Zenon DEF IInv, CountOK
  <2>2. Cardinality(BusyIn(consumer)) \in Nat /\ count \in Nat /\ maxjobs \in Nat \ {0}
    BY <1>3, BusyFinite, Zenon DEF RunShape, GroupShape
  <2>3. Len(ready) \in Nat
    BY <1>3
  <2> QED
    BY <2>1, <2>2, <2>3, Zenon
<1>9. count' \in Nat /\ count' < maxjobs /\ count' <= maxjobs
      /\ count' = Len(ready) + Len(out') + Cardinality(BusyIn(consumer))
  BY <1>3, <1>4, <1>8
<1>10. Shape'
  <2>1. RunShape'
    BY <1>3, <1>4, <1>5, <1>7, <1>9, Zenon DEF RunShape, OnlyMain
  <2> QED
    BY <1>2, <2>1, Zenon DEF Shape
<1>11. CountOK'
  <2>1. main' = "nextset" => outstanding' = More /\ frozen' = {}
    OBVIOUS
  <2>2. UNCHANGED <<bld, maxjobs, consumer>>
    BY Zenon DEF OnlyMain
  <2>3. main' = "nextset" => \A t \in outstanding' : ~Grouped(bld, t)
    BY <1>6, <2>1, Zenon
  <2> QED
    BY <1>3, <1>9, <2>1, <2>2, <2>3, Zenon DEF CountOK
<1> QED
  BY <1>1, <1>2, <1>10, <1>11, MainStepInv, Zenon DEF IInv

(* The head of the loop, the exit from it, and the end of compile() keep the invariant. *)
LEMMA LoopInv ==
  ASSUME IInv, Loop \/ NoneLeft \/ Compiled
  PROVE  IInv'
<1>1. OnlyMain /\ UNCHANGED <<out, tasks_done, count, outstanding, frozen>> /\ EndOK
  BY Zenon DEF Loop, NoneLeft, Compiled, OnlyMain, mgrVars, IInv
<1>2. AllGiven' <=> AllGiven
  BY <1>1, OnlyMainThreads, Zenon
<1>3. count \in Nat
  BY Zenon DEF IInv, Shape, RunShape
<1>4. CASE Loop
  <2>1. main' = IF stop THEN "collect" ELSE "refill"
    BY <1>4, Zenon DEF Loop
  <2>2. EndOK' /\ main' \in Mains /\ main' # "next" /\ main' # "nextset"
    BY <1>1, <2>1, Zenon DEF EndOK, Mains, OnlyMain
  <2> QED
    BY <1>1, <2>2, StillInv, Zenon
<1>5. CASE NoneLeft
  <2>1. main = "next" /\ outstanding = {} /\ main' = IF count > 0 THEN "loop" ELSE "collect"
    BY <1>5, Zenon DEF NoneLeft
  <2>2. main' \in Mains /\ main' # "next" /\ main' # "nextset" /\ main' \notin {"save", "ok"}
    BY <2>1, Zenon DEF Mains
  <2>3. AllGiven /\ frozen = {} /\ count = 0
    BY <1>1, <2>1, Zenon DEF EndOK
  <2>4. EndOK'
    BY <1>1, <1>2, <2>1, <2>2, <2>3, Zenon DEF EndOK
  <2> QED
    BY <1>1, <2>2, <2>4, StillInv, Zenon
<1>6. CASE Compiled
  <2>1. main = "save" /\ main' = IF error THEN "failed" ELSE "ok"
    BY <1>6, Zenon DEF Compiled
  <2>2. main' \in Mains /\ main' # "next" /\ main' # "nextset"
    BY <2>1, Zenon DEF Mains
  <2>3. stop \/ (AllGiven /\ frozen = {} /\ outstanding = {} /\ count = 0)
    BY <1>1, <2>1, Zenon DEF EndOK
  <2>4. UNCHANGED <<stop, error>>
    BY <1>1, Zenon DEF OnlyMain
  <2>5. EndOK'
    BY <1>1, <1>2, <2>1, <2>2, <2>3, <2>4, Zenon DEF EndOK
  <2> QED
    BY <1>1, <2>2, <2>5, StillInv, Zenon
<1> QED
  BY <1>4, <1>5, <1>6, Zenon

(* Waiting in refill_task_list() keeps the invariant. *)
LEMMA RefillFullInv ==
  ASSUME IInv, RefillFull
  PROVE  IInv'
<1>1. OnlyMain /\ get_out /\ outstanding' = outstanding \cup More /\ frozen' = frozen
      /\ main' = main /\ main = "refill"
  BY Zenon DEF RefillFull, OnlyMain, mgrVars
<1>2. EndOK' /\ main' \in Mains /\ main' # "nextset"
  BY <1>1, Zenon DEF EndOK, Mains
<1> QED
  BY <1>1, <1>2, GetOutInv, Zenon

(* Collecting the tasks after an error keeps the invariant. *)
LEMMA CollectInv ==
  ASSUME IInv, Collect
  PROVE  IInv'
<1>1. OnlyMain /\ frozen' = frozen /\ main = "collect" /\ EndOK
  BY Zenon DEF Collect, OnlyMain, mgrVars, IInv
<1>2. (AllGiven' <=> AllGiven) /\ UNCHANGED <<stop, error>>
  BY <1>1, OnlyMainThreads, Zenon DEF OnlyMain
<1>3. stop \/ (AllGiven /\ frozen = {} /\ outstanding = {} /\ count = 0)
  BY <1>1, Zenon DEF EndOK
<1>4. CASE count > 0 /\ get_out /\ outstanding' = outstanding \cup More /\ main' = main
  <2>1. count # 0
    BY <1>4
  <2>2. stop'
    BY <1>2, <1>3, <2>1, Zenon
  <2>3. EndOK' /\ main' \in Mains /\ main' # "nextset"
    BY <1>1, <1>4, <2>2, Zenon DEF EndOK, Mains
  <2> QED
    BY <1>1, <1>4, <2>3, GetOutInv, Zenon
<1>5. CASE main' = "save" /\ UNCHANGED <<out, tasks_done, count, outstanding>>
  <2>1. EndOK' /\ main' \in Mains /\ main' # "nextset" /\ main' # "next"
    BY <1>1, <1>2, <1>3, <1>5, Zenon DEF EndOK, Mains
  <2> QED
    BY <1>1, <1>5, <2>1, StillInv, Zenon
<1> QED
  BY <1>4, <1>5, Zenon DEF Collect

(* The rest of refill_task_list() keeps the invariant. *)
LEMMA RefillInv ==
  ASSUME IInv, Refill
  PROVE  IInv'
<1>1. OnlyMain /\ main = "refill" /\ ~Full
  BY Zenon DEF Refill, OnlyMain, mgrVars
<1>2. count \in Nat /\ maxjobs \in Nat
  BY Zenon DEF IInv, Shape, RunShape, GroupShape
<1>3. count < maxjobs
  <2>1. ~(count >= maxjobs)
    BY <1>1, Zenon DEF Full
  <2> QED
    BY <1>2, <2>1
<1>4. CASE outstanding # {} /\ main' = "next" /\ UNCHANGED <<outstanding, frozen, count, out, tasks_done>>
  <2>1. EndOK' /\ main' \in Mains /\ main' # "nextset"
    BY <1>4, Zenon DEF EndOK, Mains
  <2> QED
    BY <1>1, <1>3, <1>4, <2>1, StillInv, Zenon
<1>5. CASE outstanding = {} /\ get_out /\ Thaw(More, count - 1)
  <2>1. \/ outstanding' = outstanding \cup More /\ frozen' = frozen
        \/ outstanding = {} /\ outstanding' = More \cup frozen /\ frozen' = {}
    BY <1>5, Zenon DEF Thaw
  <2>2. main' = IF frozen = {} /\ count - 1 = 0 THEN "nextset"
                ELSE IF frozen \cup More # {} THEN "next" ELSE "refill"
    BY <1>5, Zenon DEF Thaw
  <2>3. main' = "next" => outstanding' # {}
    BY <1>5, <2>2, Zenon DEF Thaw
  <2>4. EndOK' /\ main' \in Mains
    BY <2>2, <2>3, Zenon DEF EndOK, Mains
  <2>5. main' = "nextset" => count' = 0 /\ frozen = {}
    BY <1>5, <2>2, Zenon DEF get_out
  <2> QED
    BY <1>1, <1>5, <2>1, <2>4, <2>5, GetOutInv, Zenon
<1>6. CASE outstanding = {} /\ count = 0 /\ Thaw({}, 0) /\ UNCHANGED <<count, out, tasks_done>>
  <2>1. \/ outstanding' = outstanding /\ frozen' = frozen
        \/ outstanding = {} /\ outstanding' = frozen /\ frozen' = {}
    BY <1>6, Zenon DEF Thaw
  <2>2. main' = IF frozen = {} THEN "nextset" ELSE "next"
    BY <1>6, Zenon DEF Thaw
  <2>3. main' = "next" => outstanding' # {}
    BY <1>6, <2>2, Zenon DEF Thaw
  <2>4. EndOK' /\ main' \in Mains
    BY <2>2, <2>3, Zenon DEF EndOK, Mains
  <2>5. main' = "nextset" => count = 0 /\ frozen' = {} /\ outstanding' = {}
    BY <1>6, <2>1, <2>2, Zenon
  <2> QED
    BY <1>1, <1>3, <1>6, <2>1, <2>4, <2>5, StillInv, Zenon
<1> QED
  BY <1>4, <1>5, <1>6, Zenon DEF Refill

-----------------------------------------------------------------------------
(* The manager.                                                             *)

(* When no task is with the consumers, the tasks are outstanding, frozen or done. *)
LEMMA Quiet ==
  ASSUME IInv, count = 0
  PROVE  /\ BusyIn(consumer) = {}
         /\ \A t \in Tasks : Copies(ready, t) = 0 /\ Copies(out, t) = 0 /\ HeldIn(consumer, t) = 0
<1>1. ready \in Seq(Tasks) /\ out \in Seq(Tasks)
  BY Zenon DEF IInv, Shape, RunShape
<1>2. Len(ready) \in Nat /\ Len(out) \in Nat
  BY <1>1
<1>3. Cardinality(BusyIn(consumer)) \in Nat
  BY BusyFinite, Zenon
<1>4. 0 = Len(ready) + Len(out) + Cardinality(BusyIn(consumer))
  BY Zenon DEF IInv, CountOK
<1>5. Len(ready) = 0 /\ Len(out) = 0 /\ ~(Cardinality(BusyIn(consumer)) > 0)
  BY <1>2, <1>3, <1>4
<1>6. BusyIn(consumer) = {}
  BY <1>5, BusyFinite, Zenon
<1>7. ASSUME NEW t PROVE HeldIn(consumer, t) = 0
  <2>1. HeldIn(consumer, t) \in Nat /\ ~(HeldIn(consumer, t) > 0)
    BY <1>6, BusyFinite, Zenon
  <2> QED
    BY <2>1
<1>8. \A t \in Tasks : Copies(ready, t) = 0
  BY <1>1, <1>5, EmptyCopies, Zenon
<1>9. \A t \in Tasks : Copies(out, t) = 0
  BY <1>1, <1>5, EmptyCopies, Zenon
<1> QED
  BY <1>6, <1>7, <1>8, <1>9, Zenon

(* When the next set is asked for, the tasks of the groups that were given are done. *)
LEMMA AtNextSet ==
  ASSUME IInv, main = "nextset"
  PROVE  /\ count = 0 /\ frozen = {} /\ \A t \in outstanding : ~Grouped(bld, t)
         /\ \A t \in Tasks : Grouped(bld, t) =>
              /\ PlacesIn(ready, out, consumer, outstanding, frozen, tasks_done, t) = tasks_done[t]
              /\ ~Pending(bld, group, left, temp_tasks, t) => tasks_done[t] = 1
<1>1. count = 0 /\ frozen = {} /\ \A t \in outstanding : ~Grouped(bld, t)
  BY Zenon DEF IInv, CountOK
<1>2. ASSUME NEW t \in Tasks, Grouped(bld, t)
      PROVE  /\ PlacesIn(ready, out, consumer, outstanding, frozen, tasks_done, t) = tasks_done[t]
             /\ ~Pending(bld, group, left, temp_tasks, t) => tasks_done[t] = 1
  <2>1. Copies(ready, t) = 0 /\ Copies(out, t) = 0 /\ HeldIn(consumer, t) = 0
    BY <1>1, Quiet, Zenon
  <2>2. Bit(t, outstanding) = 0 /\ Bit(t, frozen) = 0
    BY <1>1, <1>2, Zenon DEF Bit
  <2>3. tasks_done[t] \in Nat
    BY Zenon DEF IInv, Shape, RunShape
  <2>4. PlacesIn(ready, out, consumer, outstanding, frozen, tasks_done, t) = tasks_done[t]
    BY <2>1, <2>2, <2>3 DEF PlacesIn
  <2> QED
    BY <1>2, <2>4, Zenon DEF IInv, PlacesOK
<1> QED
  BY <1>1, <1>2, Zenon

(* The tasks of the current group that are not given, and those of the others. *)
LEMMA PendingIs ==
  ASSUME GroupShape, NEW l, NEW h \in SUBSET bld.groups[group], NEW t
  PROVE  /\ t \in bld.groups[group] => (Pending(bld, group, l, h, t) <=> bld.type[t] \in l \/ t \in h)
         /\ t \notin bld.groups[group] =>
              (Pending(bld, group, l, h, t) <=> \E j \in DOMAIN bld.groups : j > group /\ t \in bld.groups[j])
<1>1. BuildOK(bld) /\ group \in DOMAIN bld.groups /\ bld.groups \in Seq(SUBSET Tasks)
  BY BuildIs, Zenon DEF GroupShape
<1>2. \A i, j \in DOMAIN bld.groups : i # j => bld.groups[i] \cap bld.groups[j] = {}
  BY <1>1, Zenon DEF BuildOK
<1>3. \A j \in DOMAIN bld.groups : j > group => j # group
  BY <1>1
<1>4. t \in bld.groups[group] => ~ \E j \in DOMAIN bld.groups : j > group /\ t \in bld.groups[j]
  BY <1>1, <1>2, <1>3, Zenon
<1> QED
  BY <1>4, Zenon DEF Pending

(* The manager gives the tasks G of the group.                                *)
Gives(G) ==
  /\ outstanding' = outstanding \cup G
  /\ G # {} /\ G \subseteq bld.groups[group]
  /\ left' \subseteq left /\ temp_tasks' \subseteq bld.groups[group]
  /\ run_after \subseteq run_after' /\ maxjobs' \in Nat \ {0}
  /\ \A t \in G : /\ bld.type[t] \in left \/ t \in temp_tasks
                  /\ bld.type[t] \notin left' /\ t \notin temp_tasks'
                  /\ bld.algotype = "JOBCONTROL" => bld.maxjobs[t] = maxjobs'
  /\ \A t \in bld.groups[group] \ G :
       bld.type[t] \in left' \/ t \in temp_tasks' <=> bld.type[t] \in left \/ t \in temp_tasks

OnlyManager ==
  UNCHANGED <<bld, frozen, count, ready, out, stop, error, consumer, hasrun, tasks_done, started>>

(* Giving pending tasks to the main thread keeps all but the order of the types. *)
LEMMA GivesInv ==
  ASSUME IInv, main = "nextset", main' = "next", OnlyManager, UNCHANGED group,
         NEW G, Gives(G)
  PROVE  /\ Shape' /\ CountOK' /\ PlacesOK' /\ AddedOK' /\ StartedOK' /\ LimitOK' /\ HandedOK'
         /\ DoneOK' /\ ThreadsOK' /\ EndOK'
<1> DEFINE N(t) == PlacesIn(ready, out, consumer, outstanding, frozen, tasks_done, t)
           M(t) == PlacesIn(ready, out, consumer, outstanding', frozen, tasks_done, t)
<1>0. UNCHANGED <<bld, group, frozen, count, ready, out, stop, error, consumer, hasrun, tasks_done, started>>
  BY Zenon DEF OnlyManager
<1>1. /\ GroupShape /\ RunShape /\ bld.groups[group] \subseteq Tasks /\ group \in DOMAIN bld.groups
      /\ G \subseteq bld.groups[group] /\ outstanding' = outstanding \cup G /\ temp_tasks \subseteq bld.groups[group]
      /\ temp_tasks' \subseteq bld.groups[group]
  BY BuildIs, Zenon DEF IInv, Shape, Gives, GroupShape
<1>2. \A t \in G : t \in Tasks /\ Grouped(bld, t)
  BY <1>1, Zenon DEF Grouped
<1>3. Shape'
  <2>1. GroupShape'
    <3>1. /\ bld \in Builds /\ left \subseteq TypesIn(bld, bld.groups[group]) /\ bld.run_after \subseteq run_after
          /\ left' \subseteq left /\ run_after \subseteq run_after' /\ maxjobs' \in Nat \ {0}
      BY <1>1, Zenon DEF Gives, GroupShape
    <3>2. left' \subseteq TypesIn(bld, bld.groups[group]) /\ bld.run_after \subseteq run_after'
      BY <3>1, Zenon
    <3> QED
      BY <1>0, <1>1, <3>1, <3>2, Zenon DEF GroupShape
  <2>2. outstanding' \subseteq Tasks /\ main' \in Mains
    BY <1>1, <1>2, Zenon DEF RunShape, Mains
  <2> QED
    BY <1>0, <1>1, <2>1, <2>2, Zenon DEF Shape, RunShape
<1>4. /\ count = 0 /\ frozen = {} /\ \A t \in outstanding : ~Grouped(bld, t)
      /\ \A t \in Tasks : Grouped(bld, t) => N(t) = tasks_done[t]
  BY AtNextSet, Zenon
<1>5. CountOK'
  <2>1. maxjobs' \in Nat \ {0}
    BY Zenon DEF Gives
  <2>2. 0 <= maxjobs' /\ 0 < maxjobs'
    BY <2>1
  <2>3. main' # "nextset" /\ main' = "next"
    OBVIOUS
  <2> QED
    BY <1>0, <1>4, <2>2, <2>3, Zenon DEF IInv, CountOK
<1>6. EndOK'
  <2>1. outstanding' # {}
    BY <1>1, Zenon DEF Gives
  <2> QED
    BY <2>1, Zenon DEF EndOK
<1>7. (\A t \in Tasks \ G : M(t) = N(t)) /\ (\A t \in G : N(t) = 0 => M(t) = 1)
  <2>1. ASSUME NEW t \in Tasks \ G PROVE M(t) = N(t)
    <3>1. Bit(t, outstanding') = Bit(t, outstanding)
      BY <1>1, <2>1, Zenon DEF Bit
    <3> QED
      BY <3>1, Zenon DEF PlacesIn
  <2>2. ASSUME NEW t \in G, N(t) = 0 PROVE M(t) = 1
    <3>1. Bit(t, outstanding') = 1 /\ Bit(t, outstanding) = 0
      BY <1>1, <1>2, <1>4, <2>2, Zenon DEF Bit
    <3>2. CountsOf(ready, out, consumer, outstanding, frozen, tasks_done, t)
      BY <1>1, <1>2, CountsAre, Zenon
    <3> QED
      BY <2>2, <3>1, <3>2 DEF CountsOf, PlacesIn
  <2> QED
    BY <2>1, <2>2, Zenon
<1> HIDE DEF N, M
<1>8. \A t \in G : /\ Pending(bld, group, left, temp_tasks, t) /\ N(t) = 0 /\ M(t) = 1
                   /\ ~Pending(bld, group, left', temp_tasks', t)
  <2> SUFFICES ASSUME NEW t \in G
               PROVE  /\ Pending(bld, group, left, temp_tasks, t) /\ N(t) = 0 /\ M(t) = 1
                      /\ ~Pending(bld, group, left', temp_tasks', t)
    OBVIOUS
  <2>1. Pending(bld, group, left, temp_tasks, t) /\ ~Pending(bld, group, left', temp_tasks', t)
    BY <1>1, PendingIs, Zenon DEF Gives
  <2>2. N(t) = 0
    BY <1>2, <2>1, Zenon DEF IInv, PlacesOK, N
  <2> QED
    BY <1>7, <2>1, <2>2, Zenon
<1>9. \A t \in Tasks \ G : Pending(bld, group, left', temp_tasks', t) <=> Pending(bld, group, left, temp_tasks, t)
  <2> SUFFICES ASSUME NEW t \in Tasks \ G
               PROVE  Pending(bld, group, left', temp_tasks', t) <=> Pending(bld, group, left, temp_tasks, t)
    OBVIOUS
  <2>1. CASE t \in bld.groups[group]
    BY <1>1, <2>1, PendingIs, Zenon DEF Gives
  <2>2. CASE t \notin bld.groups[group]
    BY <1>1, <2>2, PendingIs, Zenon
  <2> QED
    BY <2>1, <2>2, Zenon
<1>10. PlacesOK'
  <2>1. \A t \in Tasks : /\ N(t) <= 1
                         /\ Pending(bld, group, left, temp_tasks, t) => N(t) = 0
                         /\ Grouped(bld, t) /\ ~Pending(bld, group, left, temp_tasks, t) => N(t) = 1
    BY Zenon DEF IInv, PlacesOK, N
  <2>2. ASSUME NEW t \in Tasks
        PROVE  /\ M(t) <= 1
               /\ Pending(bld, group, left', temp_tasks', t) => M(t) = 0
               /\ Grouped(bld, t) /\ ~Pending(bld, group, left', temp_tasks', t) => M(t) = 1
    <3>1. CASE t \in G
      BY <1>8, <3>1
    <3>2. CASE t \notin G
      BY <1>7, <1>9, <2>1, <3>2, Zenon
    <3> QED
      BY <3>1, <3>2, Zenon
  <2> QED
    BY <1>0, <2>2, Zenon DEF PlacesOK, M
<1>11. AddedOK'
  <2>1. \A t, p \in Tasks : t \in bld.more[p] => M(t) = N(t)
    BY <1>1, <1>2, <1>7, BuildIs, Zenon
  <2> QED
    BY <1>0, <2>1, Zenon DEF IInv, AddedOK, M, N
<1>12. LimitOK'
  <2> SUFFICES ASSUME bld.algotype = "JOBCONTROL", NEW t \in Tasks,
                      Grouped(bld, t), tasks_done[t] = 0, M(t) = 1
               PROVE  bld.maxjobs[t] = maxjobs'
    BY <1>0, Zenon DEF LimitOK, M
  <2>1. t \in G
    BY <1>4, <1>7
  <2> QED
    BY <2>1, Zenon DEF Gives
<1>13. HandedOK'
  <2>1. \A t \in Tasks : ~(Copies(ready, t) + HeldIn(consumer, t) > 0)
    <3>1. \A t \in Tasks : Copies(ready, t) = 0 /\ HeldIn(consumer, t) = 0
      BY <1>4, Quiet, Zenon
    <3> QED
      BY <3>1
  <2> QED
    BY <1>0, <2>1, Zenon DEF HandedOK
<1>14. StartedOK' /\ DoneOK' /\ ThreadsOK'
  BY <1>0, Zenon DEF IInv, StartedOK, DoneOK, ThreadsOK
<1> QED
  BY <1>3, <1>5, <1>6, <1>10, <1>11, <1>12, <1>13, <1>14, Zenon

(* tasks_in_parallel() gives the tasks of the unconnected types. *)
LEMMA ParallelIs ==
  ASSUME IInv
  PROVE  /\ \A t : t \in Parallel <=> t \in bld.groups[group] /\ bld.type[t] \in Unconnected
         /\ Unconnected \subseteq left /\ (Unconnected # {} => Parallel # {})
         /\ Parallel \subseteq bld.groups[group] /\ Parallel \subseteq Tasks
<1>1. \A t : t \in Parallel <=> t \in bld.groups[group] /\ bld.type[t] \in Unconnected
  BY DEF Parallel, ItsTasks
<1>2. left \subseteq TypesIn(bld, bld.groups[group]) /\ bld.groups[group] \subseteq Tasks
  BY BuildIs, Zenon DEF IInv, Shape, GroupShape
<1>3. Unconnected \subseteq left
  BY Zenon DEF Unconnected
<1>4. ASSUME Unconnected # {} PROVE Parallel # {}
  <2>1. PICK k \in Unconnected : TRUE
    BY <1>4, Zenon
  <2>2. PICK t \in bld.groups[group] : bld.type[t] = k
    BY <1>2, <1>3, <2>1, Zenon DEF TypesIn
  <2> QED
    BY <1>1, <2>2, Zenon
<1> QED
  BY <1>1, <1>2, <1>3, <1>4, Zenon

(* A type that no type left comes before: the tasks of the types that do are given. *)
LEMMA UnconnectedBefore ==
  ASSUME IInv, main = "nextset", temp_tasks = {}, NEW t \in bld.groups[group], bld.type[t] \in Unconnected,
         NEW p \in BeforeIn(bld, t, bld.groups[group])
  PROVE  stop \/ hasrun[p] # "not_run"
<1>1. p \in bld.groups[group] /\ bld.type[p] # bld.type[t] /\ Precedes(bld.type[p], bld.type[t])
  BY Zenon DEF BeforeIn
<1>2. /\ GroupShape /\ bld.groups[group] \subseteq Tasks /\ group \in DOMAIN bld.groups
      /\ order = {o \in Constraints(TypesIn(bld, bld.groups[group])) : o[1] \in left}
  BY BuildIs, Zenon DEF IInv, Shape, GroupShape, GroupsOK
<1>3. bld.type[p] \notin left
  <2> SUFFICES ASSUME bld.type[p] \in left PROVE FALSE
    OBVIOUS
  <2>1. bld.type[p] \in TypesIn(bld, bld.groups[group]) /\ bld.type[t] \in TypesIn(bld, bld.groups[group])
    BY <1>1, Zenon DEF TypesIn
  <2>2. <<bld.type[p], bld.type[t]>> \in Constraints(TypesIn(bld, bld.groups[group]))
    BY <1>1, <2>1, Zenon DEF Constraints
  <2>3. <<bld.type[p], bld.type[t]>> \in order
    BY <1>2, <2>2, Zenon
  <2>4. \A o \in order : o[2] # bld.type[t]
    BY Zenon DEF Unconnected
  <2> QED
    BY <2>3, <2>4, Zenon
<1>4. p \in Tasks /\ Grouped(bld, p)
  BY <1>1, <1>2, Zenon DEF Grouped
<1>5. ~Pending(bld, group, left, temp_tasks, p)
  <2>1. temp_tasks \in SUBSET bld.groups[group] /\ p \notin temp_tasks
    OBVIOUS
  <2> QED
    BY <1>1, <1>2, <1>3, <2>1, PendingIs, Zenon
<1>6. tasks_done[p] = 1
  BY <1>4, <1>5, AtNextSet, Zenon
<1>7. tasks_done[p] + Copies(out, p) > 0
  <2>1. CountsOf(ready, out, consumer, outstanding, frozen, tasks_done, p)
    BY <1>4, CountsAre, Zenon DEF IInv, Shape
  <2> QED
    BY <1>6, <2>1 DEF CountsOf
<1> QED
  BY <1>4, <1>7, Zenon DEF IInv, DoneOK

(* What is left of the order when the tasks of the types U are given.          *)
LEMMA OrderLeft ==
  ASSUME IInv, NEW U, left' = left \ U, order' = {p \in order : p[1] \notin U}, UNCHANGED <<bld, group>>
  PROVE  order' = {o \in Constraints(TypesIn(bld', bld'.groups[group'])) : o[1] \in left'}
<1>1. order = {o \in Constraints(TypesIn(bld, bld.groups[group])) : o[1] \in left}
  BY Zenon DEF IInv, GroupsOK
<1> DEFINE C == Constraints(TypesIn(bld, bld.groups[group]))
<1>2. order = {o \in C : o[1] \in left}
  BY <1>1, Zenon
<1> HIDE DEF C
<1>3. order' = {o \in C : o[1] \in left'}
  BY <1>2, Zenon
<1> QED
  BY <1>3, Zenon DEF C

(* Tasks of unconnected types are given, or some of them that were on hold.    *)
LEMMA ByTypesInv ==
  ASSUME IInv, main = "nextset", main' = "next", OnlyManager, UNCHANGED <<group, run_after>>,
         NEW G, Gives(G), bld.algotype # "MAXPARALLEL",
         \/ /\ left' = left \ Unconnected /\ order' = {p \in order : p[1] \notin Unconnected}
            /\ temp_tasks = {} /\ temp_tasks' \subseteq Parallel
         \/ UNCHANGED <<left, order>> /\ temp_tasks' \subseteq temp_tasks,
         temp_tasks' # {} => bld.algotype = "JOBCONTROL"
  PROVE  IInv'
<1>0. UNCHANGED <<bld, group, stop, consumer, hasrun, tasks_done, run_after>> /\ GroupsOK /\ BeforeOK
  BY Zenon DEF OnlyManager, IInv
<1>1. order' = {o \in Constraints(TypesIn(bld', bld'.groups[group'])) : o[1] \in left'}
  <2>1. CASE left' = left \ Unconnected /\ order' = {p \in order : p[1] \notin Unconnected}
    BY <1>0, <2>1, OrderLeft, Zenon
  <2>2. CASE UNCHANGED <<left, order>>
    BY <1>0, <2>2, Zenon DEF GroupsOK
  <2> QED
    BY <2>1, <2>2, Zenon
<1>2. \A t \in temp_tasks' : bld.type[t] \notin left'
  <2>1. CASE left' = left \ Unconnected /\ temp_tasks' \subseteq Parallel
    BY <2>1, ParallelIs, Zenon
  <2>2. CASE UNCHANGED <<left, order>> /\ temp_tasks' \subseteq temp_tasks
    BY <1>0, <2>2, Zenon DEF GroupsOK
  <2> QED
    BY <2>1, <2>2, Zenon
<1>3. GroupsOK'
  BY <1>0, <1>1, <1>2, Zenon DEF GroupsOK
<1>4. BeforeOK'
  <2> SUFFICES ASSUME NEW t \in bld.groups[group], bld.type[t] \notin left',
                      NEW p \in BeforeIn(bld, t, bld.groups[group])
               PROVE  /\ stop \/ hasrun[p] # "not_run"
                      /\ HeldIn(consumer, t) > 0 => hasrun[p] # "not_run"
    BY <1>0, Zenon DEF BeforeOK
  <2>1. CASE bld.type[t] \notin left
    BY <1>0, <2>1, Zenon DEF BeforeOK
  <2>2. CASE bld.type[t] \in left
    <3>1. temp_tasks = {} /\ bld.type[t] \in Unconnected
      BY <2>2, Zenon
    <3>2. stop \/ hasrun[p] # "not_run"
      BY <3>1, UnconnectedBefore, Zenon
    <3>3. t \in Tasks
      BY BuildIs, Zenon DEF IInv, Shape
    <3>4. HeldIn(consumer, t) = 0
      BY <3>3, AtNextSet, Quiet, Zenon
    <3>5. ~(HeldIn(consumer, t) > 0)
      BY <3>4
    <3> QED
      BY <3>2, <3>5, Zenon
  <2> QED
    BY <2>1, <2>2, Zenon
<1> QED
  BY <1>3, <1>4, GivesInv, Zenon DEF IInv

(* The NORMAL algorithm keeps the invariant. *)
LEMMA NormalInv ==
  ASSUME IInv, main = "nextset", main' = "next", OnlyManager, UNCHANGED <<group, temp_tasks, run_after>>,
         bld.algotype = "NORMAL", Unconnected # {}, outstanding' = outstanding \cup Parallel,
         left' = left \ Unconnected, order' = {p \in order : p[1] \notin Unconnected}, maxjobs' = MAXJOBS
  PROVE  IInv'
<1>1. temp_tasks = {}
  BY Zenon DEF IInv, GroupsOK
<1>2. Gives(Parallel)
  <2>1. MAXJOBS \in Nat \ {0}
    BY BuildAssumption, Zenon
  <2>2. /\ Parallel # {} /\ Parallel \subseteq bld.groups[group] /\ Unconnected \subseteq left
        /\ \A t : t \in Parallel <=> t \in bld.groups[group] /\ bld.type[t] \in Unconnected
    BY ParallelIs, Zenon
  <2>3. \A t \in Parallel : bld.type[t] \in left /\ bld.type[t] \notin left'
    BY <2>2, Zenon
  <2>4. \A t \in bld.groups[group] \ Parallel : bld.type[t] \in left' <=> bld.type[t] \in left
    BY <2>2, Zenon
  <2>5. left' \subseteq left /\ temp_tasks' = {} /\ run_after \subseteq run_after' /\ bld.algotype # "JOBCONTROL"
        /\ temp_tasks' \subseteq bld.groups[group]
    BY <1>1, Zenon
  <2> QED
    BY <1>1, <2>1, <2>2, <2>3, <2>4, <2>5, Zenon DEF Gives
<1>3. bld.algotype # "MAXPARALLEL" /\ temp_tasks' = {} /\ temp_tasks' \subseteq Parallel
  BY <1>1, Zenon
<1> QED
  BY <1>1, <1>2, <1>3, ByTypesInv, Zenon

(* The JOBCONTROL algorithm keeps the invariant. *)
LEMMA JobControlInv ==
  ASSUME IInv, main = "nextset", main' = "next", OnlyManager, UNCHANGED <<group, run_after>>,
         bld.algotype = "JOBCONTROL", NEW held,
         outstanding' = outstanding \cup Tightest(held), temp_tasks' = held \ Tightest(held),
         maxjobs' = Limit(held),
         \/ held = temp_tasks /\ temp_tasks # {} /\ UNCHANGED <<left, order>>
         \/ /\ held = Parallel /\ Unconnected # {} /\ temp_tasks = {}
            /\ left' = left \ Unconnected /\ order' = {p \in order : p[1] \notin Unconnected}
  PROVE  IInv'
<1>0. /\ bld \in Builds /\ temp_tasks \subseteq bld.groups[group] /\ bld.groups[group] \subseteq Tasks
      /\ \A t \in temp_tasks : bld.type[t] \notin left
  BY BuildIs, Zenon DEF IInv, Shape, GroupShape, GroupsOK
<1>1. /\ Unconnected # {} => Parallel # {}
      /\ Parallel \subseteq bld.groups[group] /\ Unconnected \subseteq left
      /\ \A t : t \in Parallel <=> t \in bld.groups[group] /\ bld.type[t] \in Unconnected
  BY ParallelIs, Zenon
<1>2. held # {} /\ held \subseteq bld.groups[group] /\ held \in SUBSET Tasks
  BY <1>0, <1>1, Zenon
<1>3. Limit(held) \in 1..MAXJOBS /\ Tightest(held) # {} /\ Tightest(held) \subseteq held
  BY <1>0, <1>2, LimitIs, Zenon
<1>4. \A t \in Tightest(held) : bld.maxjobs[t] = Limit(held)
  BY Zenon DEF Tightest
<1>5. Limit(held) \in Nat \ {0}
  BY <1>3, BuildAssumption
<1> DEFINE T == Tightest(held)
<1>6. T # {} /\ T \subseteq held /\ (\A t \in T : bld.maxjobs[t] = maxjobs') /\ temp_tasks' = held \ T
      /\ outstanding' = outstanding \cup T /\ maxjobs' \in Nat \ {0}
  BY <1>3, <1>4, <1>5, Zenon
<1> HIDE DEF T
<1>7. /\ left' \subseteq left /\ temp_tasks' \subseteq bld.groups[group] /\ run_after \subseteq run_after'
      /\ T \subseteq bld.groups[group]
  BY <1>2, <1>6, Zenon
<1>8. CASE held = temp_tasks /\ temp_tasks # {} /\ UNCHANGED <<left, order>>
  <2>1. \A t \in T : t \in temp_tasks /\ bld.type[t] \notin left' /\ t \notin temp_tasks'
    BY <1>0, <1>6, <1>8, Zenon
  <2>2. \A t \in bld.groups[group] \ T :
          bld.type[t] \in left' \/ t \in temp_tasks' <=> bld.type[t] \in left \/ t \in temp_tasks
    BY <1>6, <1>8, Zenon
  <2>3. Gives(T)
    BY <1>6, <1>7, <2>1, <2>2, Zenon DEF Gives
  <2>4. bld.algotype # "MAXPARALLEL" /\ temp_tasks' \subseteq temp_tasks
    BY <1>6, <1>8, Zenon
  <2> QED
    BY <1>8, <2>3, <2>4, ByTypesInv, Zenon
<1>9. CASE /\ held = Parallel /\ Unconnected # {} /\ temp_tasks = {}
           /\ left' = left \ Unconnected /\ order' = {p \in order : p[1] \notin Unconnected}
  <2>1. \A t \in T : bld.type[t] \in left /\ bld.type[t] \notin left' /\ t \notin temp_tasks'
    BY <1>1, <1>6, <1>9, Zenon
  <2>2. \A t \in bld.groups[group] \ T :
          bld.type[t] \in left' \/ t \in temp_tasks' <=> bld.type[t] \in left \/ t \in temp_tasks
    BY <1>1, <1>6, <1>9, Zenon
  <2>3. Gives(T)
    BY <1>6, <1>7, <2>1, <2>2, Zenon DEF Gives
  <2>4. bld.algotype # "MAXPARALLEL" /\ temp_tasks' \subseteq Parallel
    BY <1>6, <1>9, Zenon
  <2> QED
    BY <1>9, <2>3, <2>4, ByTypesInv, Zenon
<1> QED
  BY <1>8, <1>9, Zenon

(* The MAXPARALLEL algorithm keeps it: the order of the types goes into run_after. *)
LEMMA MaxParallelInv ==
  ASSUME IInv, main = "nextset", main' = "next", OnlyManager, UNCHANGED <<group, temp_tasks>>,
         bld.algotype = "MAXPARALLEL", left # {}, outstanding' = outstanding \cup bld.groups[group],
         run_after' = run_after \cup Inner, left' = {}, order' = {}, maxjobs' = MAXJOBS
  PROVE  IInv'
<1>0. /\ GroupsOK /\ bld.groups[group] \subseteq Tasks
      /\ UNCHANGED <<bld, group, stop, consumer, hasrun, tasks_done>>
  BY BuildIs, Zenon DEF IInv, Shape, OnlyManager
<1>1. temp_tasks = {} /\ left = TypesIn(bld, bld.groups[group])
  BY <1>0, Zenon DEF GroupsOK
<1>2. order = {o \in Constraints(TypesIn(bld, bld.groups[group])) : o[1] \in left}
  BY <1>0, Zenon DEF GroupsOK
<1>3. \A t \in bld.groups[group] : bld.type[t] \in left
  BY <1>1, Zenon DEF TypesIn
<1>4. Gives(bld.groups[group])
  <2>1. MAXJOBS \in Nat \ {0}
    BY BuildAssumption, Zenon
  <2>2. bld.groups[group] # {}
    BY <1>1, Zenon DEF TypesIn
  <2>3. left' \subseteq left /\ temp_tasks' = {} /\ run_after \subseteq run_after' /\ bld.algotype # "JOBCONTROL"
    BY <1>1, Zenon
  <2> QED
    BY <1>3, <2>1, <2>2, <2>3, Zenon DEF Gives
<1>5. GroupsOK'
  BY <1>0, <1>1, Zenon DEF GroupsOK
<1>6. BeforeOK'
  <2> SUFFICES ASSUME NEW t \in bld.groups[group], NEW p \in BeforeIn(bld, t, bld.groups[group])
               PROVE  <<t, p>> \in run_after'
    BY <1>0, Zenon DEF BeforeOK
  <2>1. p \in bld.groups[group] /\ bld.type[p] # bld.type[t] /\ Precedes(bld.type[p], bld.type[t])
    BY Zenon DEF BeforeIn
  <2>2. bld.type[p] \in left /\ bld.type[t] \in left
    BY <1>3, <2>1, Zenon
  <2>3. <<bld.type[p], bld.type[t]>> \in Constraints(TypesIn(bld, bld.groups[group]))
    BY <1>1, <2>1, <2>2, Zenon DEF Constraints
  <2>4. <<bld.type[p], bld.type[t]>> \in order
    BY <1>2, <2>2, <2>3, Zenon
  <2>5. t \in ItsTasks(bld.type[t]) /\ p \in ItsTasks(bld.type[p])
    BY <2>1, Zenon DEF ItsTasks
  <2>6. <<t, p>> \in ItsTasks(<<bld.type[p], bld.type[t]>>[2]) \X ItsTasks(<<bld.type[p], bld.type[t]>>[1])
    BY <2>5, Zenon
  <2>7. <<t, p>> \in Inner
    BY <2>4, <2>6, Zenon DEF Inner
  <2> QED
    BY <2>7, Zenon
<1> QED
  BY <1>4, <1>5, <1>6, GivesInv, Zenon DEF IInv

(* The next group begins when every task of the last one is finished. *)
LEMMA NextGroupInv ==
  ASSUME IInv, main = "nextset", OnlyManager, left = {}, temp_tasks = {},
         group < Len(bld.groups), group' = group + 1,
         left' = TypesIn(bld, bld.groups[group + 1]), order' = Constraints(left'),
         UNCHANGED <<main, temp_tasks, run_after, outstanding, maxjobs>>
  PROVE  IInv'
<1> DEFINE g == group + 1
<1>0. UNCHANGED <<bld, frozen, count, ready, out, stop, error, consumer, hasrun, tasks_done, started>>
  BY Zenon DEF OnlyManager
<1>1. /\ GroupShape /\ RunShape /\ BuildOK(bld) /\ group \in Nat \ {0}
      /\ bld.groups \in Seq(SUBSET Tasks) /\ bld.groups[group] \subseteq Tasks
      /\ GroupsOK
  BY BuildIs, Zenon DEF IInv, Shape
<1>2. /\ g \in DOMAIN bld.groups /\ group \in DOMAIN bld.groups /\ g \in Nat
      /\ \A j \in DOMAIN bld.groups : (j > group <=> j = g \/ j > g) /\ (j < g <=> j < group \/ j = group)
  BY <1>1
<1> HIDE DEF g
<1>3. group' = g /\ left' = TypesIn(bld, bld.groups[g])
  BY Zenon DEF g
<1>4. \A t : Pending(bld, g, left', temp_tasks, t) <=> Pending(bld, group, left, temp_tasks, t)
  <2>1. \A t \in bld.groups[g] : bld.type[t] \in left'
    BY <1>3, Zenon DEF TypesIn
  <2> QED
    BY <1>2, <2>1, Zenon DEF Pending
<1>5. Shape'
  <2>1. GroupShape'
    BY <1>0, <1>1, <1>2, <1>3, Zenon DEF GroupShape
  <2> QED
    BY <1>0, <1>1, <2>1, Zenon DEF Shape, RunShape
<1>6. CountOK'
  BY <1>0, Zenon DEF IInv, CountOK
<1>7. PlacesOK'
  BY <1>0, <1>3, <1>4, Zenon DEF IInv, PlacesOK
<1>8. AddedOK' /\ StartedOK' /\ LimitOK' /\ HandedOK' /\ DoneOK' /\ ThreadsOK'
  BY <1>0, Zenon DEF IInv, AddedOK, StartedOK, LimitOK, HandedOK, DoneOK, ThreadsOK
<1>9. GroupsOK'
  <2>1. ASSUME NEW p \in bld.groups[group] PROVE tasks_done[p] = 1
    <3>1. p \in Tasks /\ Grouped(bld, p)
      BY <1>1, <1>2, Zenon DEF Grouped
    <3>2. ~Pending(bld, group, left, temp_tasks, p)
      <4>1. temp_tasks \in SUBSET bld.groups[group] /\ p \notin temp_tasks /\ bld.type[p] \notin left
        OBVIOUS
      <4> QED
        BY <1>1, <4>1, PendingIs, Zenon
    <3> QED
      BY <3>1, <3>2, AtNextSet, Zenon
  <2>2. \A j \in DOMAIN bld.groups : j < g => \A p \in bld.groups[j] : tasks_done[p] = 1
    BY <1>1, <1>2, <2>1, Zenon DEF GroupsOK
  <2>3. order' = {o \in Constraints(left') : o[1] \in left'}
    <3>1. \A o \in Constraints(left') : o[1] \in left'
      BY Zenon DEF Constraints
    <3> HIDE DEF Constraints
    <3> QED
      BY <3>1, Zenon
  <2> QED
    BY <1>0, <1>3, <2>2, <2>3, Zenon DEF GroupsOK
<1>10. BeforeOK'
  <2>1. \A t \in bld'.groups[group'] : bld'.type[t] \in left'
    BY <1>0, <1>3, Zenon DEF TypesIn
  <2> QED
    BY <2>1, Zenon DEF BeforeOK
<1>11. EndOK'
  BY <1>0, Zenon DEF EndOK
<1> QED
  BY <1>5, <1>6, <1>7, <1>8, <1>9, <1>10, <1>11, Zenon DEF IInv

(* get_next_set() keeps the invariant. *)
LEMMA GetNextSetInv ==
  ASSUME IInv, GetNextSet
  PROVE  IInv'
<1>1. main = "nextset" /\ OnlyManager
  BY Zenon DEF GetNextSet, OnlyManager
<1>2. CASE NextOfGroup /\ main' = "next" /\ UNCHANGED group
  <2>1. CASE bld.algotype = "NORMAL"
    <3>1. /\ Unconnected # {} /\ outstanding' = outstanding \cup Parallel
          /\ left' = left \ Unconnected /\ order' = {p \in order : p[1] \notin Unconnected}
          /\ maxjobs' = MAXJOBS /\ UNCHANGED <<temp_tasks, run_after>>
      BY <1>2, <2>1, Zenon DEF NextOfGroup
    <3> QED
      BY <1>1, <1>2, <2>1, <3>1, NormalInv, Zenon
  <2>2. CASE bld.algotype = "JOBCONTROL"
    <3> DEFINE held == IF temp_tasks # {} THEN temp_tasks ELSE Parallel
    <3>1. /\ temp_tasks # {} \/ Unconnected # {}
          /\ outstanding' = outstanding \cup Tightest(held)
          /\ temp_tasks' = held \ Tightest(held)
          /\ maxjobs' = Limit(held)
          /\ IF temp_tasks # {} THEN UNCHANGED <<left, order>>
             ELSE left' = left \ Unconnected /\ order' = {p \in order : p[1] \notin Unconnected}
          /\ UNCHANGED run_after
      BY <1>2, <2>2, Zenon DEF NextOfGroup
    <3>2. \/ held = temp_tasks /\ temp_tasks # {} /\ UNCHANGED <<left, order>>
          \/ /\ held = Parallel /\ Unconnected # {} /\ temp_tasks = {}
             /\ left' = left \ Unconnected /\ order' = {p \in order : p[1] \notin Unconnected}
      BY <3>1, Zenon
    <3> HIDE DEF held
    <3> QED
      BY <1>1, <1>2, <2>2, <3>1, <3>2, JobControlInv, Zenon
  <2>3. CASE bld.algotype = "MAXPARALLEL"
    <3>1. /\ left # {} /\ outstanding' = outstanding \cup bld.groups[group]
          /\ run_after' = run_after \cup Inner /\ left' = {} /\ order' = {}
          /\ maxjobs' = MAXJOBS /\ UNCHANGED temp_tasks
      BY <1>2, <2>3, Zenon DEF NextOfGroup
    <3> QED
      BY <1>1, <1>2, <2>3, <3>1, MaxParallelInv, Zenon
  <2> QED
    BY <1>2, <2>1, <2>2, <2>3, Zenon DEF NextOfGroup
<1>3. count = 0 /\ frozen = {}
  BY <1>1, AtNextSet, Zenon
<1>4. CASE Circular /\ main' = "raised" /\ UNCHANGED <<mgrVars, outstanding, maxjobs>>
  <2>1. OnlyMain /\ UNCHANGED <<out, tasks_done, count, outstanding, frozen>>
    BY <1>1, <1>4, Zenon DEF OnlyMain, OnlyManager, mgrVars
  <2>2. main' \in Mains /\ EndOK' /\ main' # "next" /\ main' # "nextset"
    BY <1>4, Zenon DEF Mains, EndOK
  <2> QED
    BY <2>1, <2>2, StillInv, Zenon
<1>5. CASE /\ left = {} /\ temp_tasks = {} /\ group = Len(bld.groups) /\ main' = "next"
           /\ UNCHANGED <<mgrVars, outstanding, maxjobs>>
  <2>1. OnlyMain /\ UNCHANGED <<out, tasks_done, count, outstanding, frozen>>
    BY <1>1, <1>5, Zenon DEF OnlyMain, OnlyManager, mgrVars
  <2>2. AllGiven' <=> AllGiven
    BY <2>1, OnlyMainThreads, Zenon
  <2>3. main' \in Mains /\ EndOK' /\ main' # "nextset"
    BY <1>3, <1>5, <2>1, <2>2, Zenon DEF Mains, EndOK, AllGiven
  <2>4. count < maxjobs
    <3>1. maxjobs \in Nat \ {0}
      BY Zenon DEF IInv, Shape, GroupShape
    <3> QED
      BY <1>3, <3>1
  <2> QED
    BY <2>1, <2>3, <2>4, StillInv, Zenon
<1>6. CASE /\ left = {} /\ temp_tasks = {} /\ group < Len(bld.groups) /\ group' = group + 1
           /\ left' = Types(bld.groups[group + 1]) /\ order' = Constraints(left')
           /\ UNCHANGED <<main, temp_tasks, run_after, outstanding, maxjobs>>
  <2>1. left' = TypesIn(bld, bld.groups[group + 1])
    BY <1>6, Zenon DEF Types, TypesIn
  <2> QED
    BY <1>1, <1>6, <2>1, NextGroupInv, Zenon
<1> QED
  BY <1>2, <1>4, <1>5, <1>6, Zenon DEF GetNextSet

-----------------------------------------------------------------------------
(* Every build. *)

(* Whatever the threads do, the counts and the order of the build are kept.   *)
THEOREM Invariance == Spec => []IInv
<1>1. Init => IInv
  BY InitInv, Zenon
<1>2. IInv /\ [Next]_vars => IInv'
  <2> SUFFICES ASSUME IInv, [Next]_vars PROVE IInv'
    OBVIOUS
  <2>1. CASE Main
    BY <2>1, GetNextSetInv, LoopInv, RefillFullInv, RefillInv, CollectInv, ProcessInv, Zenon
       DEF Main
  <2>2. CASE \E c \in Consumers : Consumer(c)
    BY <2>2, ConsumerInv, Zenon
  <2>3. CASE Exit \/ UNCHANGED vars
    BY <2>3, StutterInv, Zenon DEF Exit
  <2> QED
    BY <2>1, <2>2, <2>3, Zenon DEF Next
<1> QED
  BY <1>1, <1>2, PTL DEF Spec

(* A task that a thread executes has one place, that of the thread.           *)
LEMMA HeldTask ==
  ASSUME IInv, NEW c \in BusyIn(consumer)
  PROVE  /\ consumer[c].task \in Tasks /\ HeldIn(consumer, consumer[c].task) > 0
         /\ PlacesIn(ready, out, consumer, outstanding, frozen, tasks_done, consumer[c].task) = 1
         /\ tasks_done[consumer[c].task] = 0
<1> DEFINE t == consumer[c].task
<1>1. t \in Tasks
  BY Zenon DEF IInv, Shape, RunShape
<1> HIDE DEF t
<1>2. CountsOf(ready, out, consumer, outstanding, frozen, tasks_done, t)
  BY <1>1, CountsAre, Zenon DEF IInv, Shape
<1>3. HeldIn(consumer, t) > 0
  BY BusyFinite, Zenon DEF t
<1>4. PlacesIn(ready, out, consumer, outstanding, frozen, tasks_done, t) <= 1
  BY <1>1, Zenon DEF IInv, PlacesOK
<1>5. PlacesIn(ready, out, consumer, outstanding, frozen, tasks_done, t) = 1 /\ tasks_done[t] = 0
  <2>1. Copies(ready, t) + Copies(out, t) + HeldIn(consumer, t) + Bit(t, outstanding)
        + Bit(t, frozen) + tasks_done[t] <= 1
    BY <1>4, Zenon DEF PlacesIn
  <2>2. /\ Copies(ready, t) \in Nat /\ Copies(out, t) \in Nat /\ HeldIn(consumer, t) \in Nat
        /\ Bit(t, outstanding) \in {0, 1} /\ Bit(t, frozen) \in {0, 1} /\ tasks_done[t] \in Nat
    BY <1>2, Zenon DEF CountsOf
  <2>3. tasks_done[t] = 0 /\ Copies(ready, t) + Copies(out, t) + HeldIn(consumer, t)
        + Bit(t, outstanding) + Bit(t, frozen) + tasks_done[t] = 1
    BY <1>3, <2>1, <2>2
  <2> QED
    BY <2>3, Zenon DEF PlacesIn
<1> QED
  BY <1>1, <1>3, <1>5, Zenon DEF t

(* count is the number of tasks in the queues and with the threads, no task is in two   *)
(* places or started twice, and with job control the threads at work are no more than   *)
(* any task of a group among them allows, for every number of threads and every build.  *)
THEOREM AlwaysAccounted == Spec => []Accounted
<1>1. IInv => Accounted
  <2> SUFFICES ASSUME IInv PROVE Accounted
    OBVIOUS
  <2>0. CountOK /\ PlacesOK /\ StartedOK /\ LimitOK /\ RunShape /\ GroupShape
    BY Zenon DEF IInv, Shape
  <2>1. count = Len(ready) + Len(out) + Cardinality(Busy)
    BY <2>0, SameOperators, Zenon DEF CountOK
  <2>2. ASSUME NEW t \in Tasks PROVE Places(t) <= 1 /\ started[t] <= 1
    <3>1. PlacesIn(ready, out, consumer, outstanding, frozen, tasks_done, t) <= 1
      BY <2>0, Zenon DEF PlacesOK
    <3>2. CountsOf(ready, out, consumer, outstanding, frozen, tasks_done, t)
      BY <2>0, CountsAre, Zenon
    <3>3. started[t] <= Copies(out, t) + HeldIn(consumer, t) + tasks_done[t] /\ started[t] \in Nat
      BY <2>0, Zenon DEF StartedOK, RunShape
    <3>4. started[t] <= 1
      BY <3>1, <3>2, <3>3 DEF PlacesIn, CountsOf
    <3> QED
      BY <3>1, <3>4, SameOperators, Zenon
  <2>3. ASSUME bld.algotype = "JOBCONTROL", NEW c \in Busy, InGroup(consumer[c].task)
        PROVE  Cardinality(Busy) <= bld.maxjobs[consumer[c].task]
    <3>1. c \in BusyIn(consumer) /\ Grouped(bld, consumer[c].task)
      BY <2>3, SameOperators, Zenon
    <3>2. bld.maxjobs[consumer[c].task] = maxjobs
      BY <2>0, <2>3, <3>1, HeldTask, Zenon DEF LimitOK
    <3>3. Len(ready) \in Nat /\ Len(out) \in Nat /\ count \in Nat /\ maxjobs \in Nat
      BY <2>0 DEF RunShape, GroupShape
    <3>4. Cardinality(Busy) \in Nat
      BY BusyFinite, SameOperators, Zenon
    <3>5. count <= maxjobs
      BY <2>0, Zenon DEF CountOK
    <3>6. Cardinality(Busy) <= maxjobs
      BY <2>1, <3>3, <3>4, <3>5
    <3> QED
      BY <3>2, <3>6, Zenon
  <2> QED
    BY <2>1, <2>2, <2>3, Zenon DEF Accounted
<1> QED
  BY <1>1, Invariance, PTL

(* A thread executes a task only when those of run_after, those of the types that come  *)
(* before its own and those of the earlier groups are finished, for every build.        *)
THEOREM AlwaysOrdered == Spec => []Ordered
<1>1. IInv => Ordered
  <2> SUFFICES ASSUME IInv, NEW c \in BusyIn(consumer), NEW i \in DOMAIN bld.groups,
                      consumer[c].task \in bld.groups[i]
               PROVE  /\ \A p \in Tasks : <<consumer[c].task, p>> \in bld.run_after => hasrun[p] # "not_run"
                      /\ \A p \in BeforeIn(bld, consumer[c].task, bld.groups[i]) : hasrun[p] # "not_run"
                      /\ \A j \in 1..(i - 1) : \A p \in bld.groups[j] : tasks_done[p] = 1
    BY SameOperators, Zenon DEF Ordered
  <2> DEFINE t == consumer[c].task
  <2>0. /\ t \in Tasks /\ HeldIn(consumer, t) > 0 /\ tasks_done[t] = 0
        /\ PlacesIn(ready, out, consumer, outstanding, frozen, tasks_done, t) = 1
    BY HeldTask, Zenon
  <2>1. t \in bld.groups[i]
    OBVIOUS
  <2> HIDE DEF t
  <2>2. /\ GroupShape /\ RunShape /\ GroupsOK /\ BeforeOK /\ HandedOK /\ PlacesOK
        /\ group \in Nat \ {0} /\ bld.groups \in Seq(SUBSET Tasks) /\ BuildOK(bld)
        /\ bld.run_after \subseteq run_after /\ group \in DOMAIN bld.groups
    BY BuildIs, Zenon DEF IInv, Shape, GroupShape
  <2>3. ASSUME NEW p \in Tasks, <<t, p>> \in run_after PROVE hasrun[p] # "not_run"
    <3>1. CountsOf(ready, out, consumer, outstanding, frozen, tasks_done, t)
      BY <2>0, <2>2, CountsAre, Zenon
    <3>2. Copies(ready, t) + HeldIn(consumer, t) > 0
      BY <2>0, <3>1 DEF CountsOf
    <3> QED
      BY <2>0, <2>2, <2>3, <3>2, Zenon DEF HandedOK
  <2>4. ~Pending(bld, group, left, temp_tasks, t)
    <3>1. 1 # 0
      OBVIOUS
    <3> QED
      BY <2>0, <2>2, <3>1, Zenon DEF PlacesOK
  <2>5. i = group
    <3>1. ~(i > group)
      BY <2>1, <2>4, Zenon DEF Pending
    <3>2. ~(i < group)
      <4>1. 1 # 0
        OBVIOUS
      <4> QED
        BY <2>0, <2>1, <2>2, <4>1, Zenon DEF GroupsOK
    <3> QED
      BY <2>2, <3>1, <3>2
  <2>6. bld.type[t] \notin left
    BY <2>1, <2>4, <2>5, Zenon DEF Pending
  <2>7. ASSUME NEW p \in BeforeIn(bld, t, bld.groups[i]) PROVE hasrun[p] # "not_run"
    <3>1. p \in Tasks /\ p \in BeforeIn(bld, t, bld.groups[group])
      BY <2>2, <2>5 DEF BeforeIn
    <3>2. CASE bld.algotype = "MAXPARALLEL"
      <4>1. <<t, p>> \in run_after
        BY <2>1, <2>2, <2>5, <2>6, <3>1, <3>2, Zenon DEF BeforeOK
      <4> QED
        BY <2>3, <3>1, <4>1, Zenon
    <3>3. CASE bld.algotype # "MAXPARALLEL"
      BY <2>0, <2>1, <2>2, <2>5, <2>6, <3>1, <3>3, Zenon DEF BeforeOK
    <3> QED
      BY <3>2, <3>3, Zenon
  <2>8. ASSUME NEW j \in 1..(i - 1) PROVE \A p \in bld.groups[j] : tasks_done[p] = 1
    <3>1. j \in DOMAIN bld.groups /\ j < group
      BY <2>2, <2>5
    <3> QED
      BY <2>2, <3>1, Zenon DEF GroupsOK
  <2> QED
    BY <2>2, <2>3, <2>7, <2>8, Zenon DEF t
<1> QED
  BY <1>1, Invariance, PTL

(* A build that ends without BuildError has finished every task, each with success or   *)
(* skipped, with those that the tasks it executed have added, unless a thread is between *)
(* the two stores of error_handler().                                                    *)
THEOREM AlwaysWhole == Spec => []GoodIsWhole
<1>1. IInv => GoodIsWhole
  <2> SUFFICES ASSUME IInv, main = "ok", ~\E c \in Consumers : consumer[c].at = "error",
                      NEW t \in Tasks,
                      Grouped(bld, t) \/ (\E p \in Tasks : started[p] = 1 /\ t \in bld.more[p])
               PROVE  tasks_done[t] = 1 /\ hasrun[t] \in {"success", "skipped"}
    BY SameOperators, Zenon DEF GoodIsWhole
  <2>0. /\ EndOK /\ ThreadsOK /\ PlacesOK /\ AddedOK /\ DoneOK /\ StartedOK /\ RunShape /\ GroupShape
        /\ bld.groups \in Seq(SUBSET Tasks)
    BY BuildIs, Zenon DEF IInv, Shape
  <2>1. ~error /\ ~stop
    BY <2>0, Zenon DEF EndOK, ThreadsOK
  <2>2. AllGiven /\ frozen = {} /\ outstanding = {} /\ count = 0
    <3>1. main \in {"collect", "save", "ok"}
      OBVIOUS
    <3> QED
      BY <2>0, <2>1, <3>1, Zenon DEF EndOK
  <2>3. BusyIn(consumer) = {}
    BY <2>2, Quiet, Zenon
  <2>4. ASSUME NEW s \in Tasks
        PROVE  /\ PlacesIn(ready, out, consumer, outstanding, frozen, tasks_done, s) = tasks_done[s]
               /\ tasks_done[s] \in Nat /\ started[s] <= tasks_done[s] /\ tasks_done[s] <= 1
    <3>1. Copies(ready, s) = 0 /\ Copies(out, s) = 0 /\ HeldIn(consumer, s) = 0
      BY <2>2, Quiet, Zenon
    <3>2. Bit(s, outstanding) = 0 /\ Bit(s, frozen) = 0
      BY <2>2, Zenon DEF Bit
    <3>3. tasks_done[s] \in Nat
      BY <2>0, Zenon DEF RunShape
    <3>4. started[s] <= Copies(out, s) + HeldIn(consumer, s) + tasks_done[s]
      BY <2>0, Zenon DEF StartedOK
    <3>5. PlacesIn(ready, out, consumer, outstanding, frozen, tasks_done, s) <= 1
      BY <2>0, Zenon DEF PlacesOK
    <3>6. PlacesIn(ready, out, consumer, outstanding, frozen, tasks_done, s) = tasks_done[s]
      BY <3>1, <3>2, <3>3 DEF PlacesIn
    <3> QED
      BY <3>1, <3>3, <3>4, <3>5, <3>6
  <2>5. tasks_done[t] = 1
    <3>1. CASE Grouped(bld, t)
      <4>1. \A j \in DOMAIN bld.groups : ~(j > group)
        BY <2>0, <2>2 DEF AllGiven
      <4>2. ~Pending(bld, group, left, temp_tasks, t)
        BY <2>2, <4>1, Zenon DEF AllGiven, Pending
      <4> QED
        BY <2>0, <2>4, <3>1, <4>2, Zenon DEF PlacesOK
    <3>2. CASE \E p \in Tasks : started[p] = 1 /\ t \in bld.more[p]
      <4>1. PICK p \in Tasks : started[p] = 1 /\ t \in bld.more[p]
        BY <3>2, Zenon
      <4>2. tasks_done[p] = 1
        BY <2>4, <4>1
      <4> QED
        BY <2>0, <2>1, <2>4, <4>1, <4>2, Zenon DEF AddedOK
    <3> QED
      BY <3>1, <3>2, Zenon
  <2>6. hasrun[t] # "not_run"
    <3>1. Copies(out, t) = 0
      BY <2>2, Quiet, Zenon
    <3>2. tasks_done[t] + Copies(out, t) > 0
      BY <2>5, <3>1
    <3> QED
      BY <2>0, <2>1, <3>2, Zenon DEF DoneOK
  <2>7. hasrun[t] \notin Bad
    <3>1. \A c \in Consumers : consumer[c].at \notin {"stop", "error", "gone"}
      BY <2>3, Zenon DEF BusyIn, Running
    <3> QED
      BY <2>0, <2>1, <3>1, Zenon DEF ThreadsOK
  <2>8. hasrun[t] \in {"not_run", "success", "skipped"} \cup Bad
    BY <2>0, Zenon DEF RunShape
  <2> QED
    BY <2>5, <2>6, <2>7, <2>8, Zenon
<1> QED
  BY <1>1, Invariance, PTL
=============================================================================
