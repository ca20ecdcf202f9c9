---------------------------- MODULE TimersProofs ----------------------------
(***************************************************************************)
(* Proofs about lib/timers.js and src/node_timer.cc for any number of      *)
(* timers, sockets and timeouts, and any time bound.                        *)
(***************************************************************************)
EXTENDS Timers, TLAPS

\* Removing an item from a list yields a list.
LEMMA WithoutType ==
  ASSUME NEW S, NEW s \in Seq(S), NEW i
  PROVE  Without(s, i) \in Seq(S) /\ (s = << >> => Without(s, i) = << >>)
<1>1. CASE In(s, i)
  <2> DEFINE k == CHOOSE k \in 1..Len(s) : s[k] = i
  <2>1. k \in 1..Len(s)
    BY <1>1 DEF In
  <2> HIDE DEF k
  <2>2. SubSeq(s, 1, k - 1) \in Seq(S) /\ SubSeq(s, k + 1, Len(s)) \in Seq(S)
    BY <2>1
  <2>3. SubSeq(s, 1, k - 1) \o SubSeq(s, k + 1, Len(s)) \in Seq(S)
    BY <2>2
  <2>4. s # << >>
    BY <2>1
  <2> QED
    BY <1>1, <2>3, <2>4 DEF Without, k
<1>2. CASE ~In(s, i)
  BY <1>2 DEF Without
<1> QED
  BY <1>1, <1>2

LEMMA ListsType ==
  ASSUME NEW ls \in [Msecs -> Seq(Items)], NEW i \in Items
  PROVE  /\ L_remove(ls, i) \in [Msecs -> Seq(Items)]
         /\ \A m \in Msecs : ls[m] = << >> => L_remove(ls, i)[m] = << >>
         /\ \A m \in Msecs : L_append(ls, m, i) \in [Msecs -> Seq(Items)]
<1>1. \A m \in Msecs : /\ Without(ls[m], i) \in Seq(Items)
                       /\ ls[m] = << >> => Without(ls[m], i) = << >>
  BY WithoutType
<1>2. L_remove(ls, i) \in [Msecs -> Seq(Items)]
  BY <1>1 DEF L_remove
<1>3. ASSUME NEW m \in Msecs
      PROVE  L_append(ls, m, i) \in [Msecs -> Seq(Items)]
  <2> DEFINE r == L_remove(ls, i)
  <2>1. r \in [Msecs -> Seq(Items)]
    BY <1>2
  <2> HIDE DEF r
  <2>2. Append(r[m], i) \in Seq(Items)
    BY <2>1
  <2> QED
    BY <2>1, <2>2 DEF L_append, r
<1> QED
  BY <1>1, <1>2, <1>3 DEF L_remove

-----------------------------------------------------------------------------
(* Reference counts.  The watcher of a list is referenced exactly while it  *)
(* is active and always repeats, so it never stops by itself.  A raw Timer  *)
(* is referenced while libev may call it; a one-shot is already stopped     *)
(* when it is fed, and stays referenced until its callback returns.         *)

ListOK(w) == w.refs = (IF w.active THEN 1 ELSE 0) /\ (w.active => w.repeat > 0)

RawOK(w) == w.refs <= 1 /\ (w.active => w.refs = 1)
FedOK(w) == w.refs = 1 /\ (w.active <=> w.repeat > 0)
RunningOK(w) == w.repeat = 0 => w.refs = 1 /\ ~w.active

WatchersOK ==
  /\ cur \notin pending
  /\ \A m \in Msecs : ListOK(watcher[m]) /\ (m \in pending => watcher[m].active)
  /\ \A t \in RawTimers :
        /\ RawOK(watcher[t])
        /\ t \in pending => FedOK(watcher[t])
        /\ t = cur => RunningOK(watcher[t])

IInv == TypeOK /\ WatchersOK

\* What the watcher operations preserve.
LEMMA StopOK ==
  ASSUME NEW w \in WatcherType
  PROVE  /\ ListOK(w) => EvStop(w) \in WatcherType /\ ListOK(EvStop(w))
         /\ RawOK(w) => EvStop(w) \in WatcherType /\ RawOK(EvStop(w))
         /\ RunningOK(w) => RunningOK(EvStop(w))
         /\ ~w.active => EvStop(w) = w
BY DEF WatcherType, EvStop, ListOK, RawOK, RunningOK

LEMMA AgainOK ==
  ASSUME NEW w \in WatcherType, ListOK(w), NEW rep \in Nat \ {0}, evNow \in Nat
  PROVE  /\ EvAgain(w, rep) \in WatcherType
         /\ EvAgain(w, rep).active
         /\ ListOK(EvAgain(w, rep))
BY DEF WatcherType, EvAgain, ListOK

LEMMA StartOK ==
  ASSUME NEW after \in Nat, NEW rep \in Nat, NEW t \in Nat
  PROVE  /\ EvStart(Stopped, after, rep, t) \in WatcherType
         /\ RawOK(EvStart(Stopped, after, rep, t))
BY DEF WatcherType, EvStart, Stopped, RawOK

LEMMA RearmedOK ==
  ASSUME NEW w \in WatcherType, NEW t \in Nat, w.active
  PROVE  /\ Rearmed(w, t) \in WatcherType
         /\ ListOK(w) => ListOK(Rearmed(w, t)) /\ Rearmed(w, t).active
         /\ RawOK(w) => RawOK(Rearmed(w, t)) /\ FedOK(Rearmed(w, t))
BY DEF WatcherType, Rearmed, LaterOf, ListOK, RawOK, FedOK

\* unenroll() and clearTimeout() on the watchers.
LEMMA StopIfEmptyOK ==
  ASSUME IInv, NEW m, NEW ls, StopIfEmpty(m, ls), cur' = cur
  PROVE  /\ watcher' \in [Watchers -> WatcherType] /\ pending' \subseteq Watchers
         /\ WatchersOK'
<1>0. watcher \in [Watchers -> WatcherType] /\ pending \subseteq Watchers /\ created \subseteq Msecs
  BY DEF IInv, TypeOK
<1>1. CASE m \in created /\ L_isEmpty(ls, m)
  <2>1. m \in Msecs /\ m \in Watchers /\ m \notin RawTimers
    BY <1>0, <1>1, IdentityAssumption DEF Watchers
  <2>2. watcher' = [watcher EXCEPT ![m] = EvStop(@)]
        /\ pending' = IF watcher[m].active THEN pending \ {m} ELSE pending
    BY <1>1 DEF StopIfEmpty
  <2>3. watcher[m] \in WatcherType /\ ListOK(watcher[m]) /\ (m \in pending => watcher[m].active)
    BY <1>0, <2>1 DEF IInv, WatchersOK
  <2>4. EvStop(watcher[m]) \in WatcherType /\ ListOK(EvStop(watcher[m]))
    BY <2>3, StopOK
  <2>5. m \notin pending' /\ pending' \subseteq pending
    BY <2>2, <2>3
  <2> QED
    BY <1>0, <2>1, <2>2, <2>4, <2>5 DEF IInv, WatchersOK, Watchers
<1>2. CASE ~(m \in created /\ L_isEmpty(ls, m))
  BY <1>2 DEF StopIfEmpty, IInv, TypeOK, WatchersOK
<1> QED
  BY <1>1, <1>2

-----------------------------------------------------------------------------
\* insert() on the watchers.
LEMMA InsertOK ==
  ASSUME IInv, NEW i \in Items, NEW m \in Msecs, insert(i, m), cur' = cur, pending' = pending
  PROVE  /\ watcher' \in [Watchers -> WatcherType]
         /\ WatchersOK'
         /\ list' \in [Msecs -> Seq(Items)]
         /\ created' \subseteq Msecs
         /\ start' \in [Items -> 0..now] /\ touched' \in [Items -> 0..now]
         /\ link' \in [Items -> {"undefined", "self", "listed", "null"}]
         /\ skew' \in [Msecs -> 0..now]
<1>1. /\ watcher \in [Watchers -> WatcherType] /\ evNow \in Nat /\ m \in Nat \ {0}
      /\ m \in Watchers /\ m \notin RawTimers
      /\ list \in [Msecs -> Seq(Items)] /\ now \in Nat
      /\ start \in [Items -> 0..now] /\ touched \in [Items -> 0..now]
      /\ link \in [Items -> {"undefined", "self", "listed", "null"}]
      /\ created \subseteq Msecs /\ skew \in [Msecs -> 0..now]
  BY TimeAssumption, IdentityAssumption DEF IInv, TypeOK, Watchers
<1>2. list' \in [Msecs -> Seq(Items)]
  BY <1>1, ListsType, Zenon DEF insert, MarkActive
<1>3. /\ created' \subseteq Msecs
      /\ start' \in [Items -> 0..now] /\ touched' \in [Items -> 0..now]
      /\ link' \in [Items -> {"undefined", "self", "listed", "null"}]
      /\ skew' \in [Msecs -> 0..now]
  BY <1>1 DEF insert, MarkActive
<1>4. watcher' \in [Watchers -> WatcherType] /\ WatchersOK'
  <2>1. CASE L_isEmpty(list, m)
    <3>1. watcher' = [watcher EXCEPT ![m] = EvAgain(watcher[m], m)]
      BY <2>1 DEF insert, NeedsStart
    <3>2. watcher[m] \in WatcherType /\ ListOK(watcher[m])
      BY <1>1 DEF IInv, WatchersOK
    <3>3. /\ EvAgain(watcher[m], m) \in WatcherType /\ EvAgain(watcher[m], m).active
          /\ ListOK(EvAgain(watcher[m], m))
      BY <1>1, <3>2, AgainOK
    <3> HIDE DEF ListOK
    <3> QED
      BY <1>1, <3>1, <3>3 DEF IInv, WatchersOK, Watchers
  <2>2. CASE ~L_isEmpty(list, m)
    BY <1>1, <2>2 DEF IInv, WatchersOK, insert, NeedsStart
  <2> QED
    BY <2>1, <2>2
<1> QED
  BY <1>2, <1>3, <1>4

\* The initial state and every step keep IInv.
LEMMA InitIInv == Init => IInv
<1> SUFFICES ASSUME Init PROVE IInv
  OBVIOUS
<1>1. Stopped \in WatcherType /\ ListOK(Stopped) /\ RawOK(Stopped)
  BY DEF Stopped, WatcherType, ListOK, RawOK
<1>2. cur = NoOne /\ NoOne \notin RawTimers
  BY IdentityAssumption DEF Init, Watchers
<1>3. TypeOK
  BY <1>1, TimeAssumption DEF Init, TypeOK, Items
<1>4. WatchersOK
  BY <1>1, <1>2 DEF Init, WatchersOK, Watchers
<1> QED
  BY <1>3, <1>4 DEF IInv

LEMMA CallsIInv ==
  ASSUME IInv, DomCalls \/ SocketCalls \/ RawCalls, program' = program
  PROVE  IInv'
<1> USE DEF IInv
<1>0. /\ 0 \notin Msecs /\ Msecs \subseteq Nat
      /\ RawTimers \subseteq Watchers /\ Msecs \subseteq Watchers
      /\ \A m \in Msecs : m \notin RawTimers
      /\ DomTimers \subseteq Items /\ Sockets \subseteq Items
      /\ now \in Nat /\ now \in 0..now /\ list \in [Msecs -> Seq(Items)]
  BY TimeAssumption, IdentityAssumption DEF Items, Watchers, TypeOK
<1>1. ASSUME NEW i \in DomTimers, NEW m \in Msecs, SetTimeout(i, m) PROVE IInv'
  <2>1. i \in Items /\ insert(i, m) /\ cur' = cur /\ pending' = pending
    BY <1>0, <1>1 DEF SetTimeout, loopVars
  <2>2. /\ watcher' \in [Watchers -> WatcherType] /\ WatchersOK'
        /\ list' \in [Msecs -> Seq(Items)] /\ created' \subseteq Msecs
        /\ start' \in [Items -> 0..now] /\ touched' \in [Items -> 0..now]
        /\ link' \in [Items -> {"undefined", "self", "listed", "null"}]
        /\ skew' \in [Msecs -> 0..now]
    BY <2>1, InsertOK
  <2> QED
    BY <1>1, <2>1, <2>2, Zenon DEF SetTimeout, loopVars, TypeOK
<1>2. ASSUME NEW i \in DomTimers, ClearTimeout(i) PROVE IInv'
  <2>1. i \in Items /\ list' \in [Msecs -> Seq(Items)]
    BY <1>0, <1>2, ListsType DEF ClearTimeout
  <2>2. watcher' \in [Watchers -> WatcherType] /\ pending' \subseteq Watchers /\ WatchersOK'
    BY <1>2, StopIfEmptyOK DEF ClearTimeout, loopVars
  <2> QED
    BY <1>2, <2>1, <2>2 DEF ClearTimeout, loopVars, TypeOK
<1>3. ASSUME NEW i \in Sockets, NEW m \in Msecs, Enroll(i, m) PROVE IInv'
  <2>1. i \in Items /\ list' \in [Msecs -> Seq(Items)]
    BY <1>0, <1>3, ListsType DEF Enroll
  <2>2. cur' = cur
    BY <1>3 DEF Enroll, loopVars
  <2>3. watcher' \in [Watchers -> WatcherType] /\ pending' \subseteq Watchers /\ WatchersOK'
    <3>1. CASE HasNext(i)
      BY <1>3, <2>2, <3>1, StopIfEmptyOK DEF Enroll
    <3>2. CASE ~HasNext(i)
      BY <1>3, <2>2, <3>2 DEF Enroll, TypeOK, WatchersOK
    <3> QED BY <3>1, <3>2
  <2> QED
    BY <1>3, <2>1, <2>3 DEF Enroll, loopVars, TypeOK
<1>4. ASSUME NEW i \in Sockets, Unenroll(i) PROVE IInv'
  <2>1. i \in Items /\ list' \in [Msecs -> Seq(Items)]
    BY <1>0, <1>4, ListsType DEF Unenroll
  <2>2. watcher' \in [Watchers -> WatcherType] /\ pending' \subseteq Watchers /\ WatchersOK'
    BY <1>4, StopIfEmptyOK DEF Unenroll, loopVars
  <2> QED
    BY <1>4, <2>1, <2>2 DEF Unenroll, loopVars, TypeOK
<1>5. ASSUME NEW i \in Sockets, ActiveFresh(i) PROVE IInv'
  <2>1. i \in Items /\ timeout[i] \in Msecs /\ insert(i, timeout[i])
        /\ cur' = cur /\ pending' = pending
    BY <1>0, <1>5 DEF ActiveFresh, loopVars, TypeOK
  <2>2. /\ watcher' \in [Watchers -> WatcherType] /\ WatchersOK'
        /\ list' \in [Msecs -> Seq(Items)] /\ created' \subseteq Msecs
        /\ start' \in [Items -> 0..now] /\ touched' \in [Items -> 0..now]
        /\ link' \in [Items -> {"undefined", "self", "listed", "null"}]
        /\ skew' \in [Msecs -> 0..now]
    BY <2>1, InsertOK
  <2> QED
    BY <1>5, <2>1, <2>2 DEF ActiveFresh, loopVars, TypeOK
<1>6. ASSUME NEW i \in Sockets, ActiveAgain(i) PROVE IInv'
  <2>1. i \in Items /\ timeout[i] \in Msecs
    BY <1>0, <1>6 DEF ActiveAgain, TypeOK
  <2>2. list' \in [Msecs -> Seq(Items)]
    BY <1>0, <1>6, <2>1, ListsType, Zenon DEF ActiveAgain
  <2> QED
    BY <1>0, <1>6, <2>1, <2>2, Zenon DEF ActiveAgain, MarkActive, loopVars, TypeOK, WatchersOK
<1>7. ASSUME NEW i \in Sockets, ActiveThrows(i) PROVE IInv'
  BY <1>0, <1>7 DEF ActiveThrows, loopVars, TypeOK, WatchersOK
<1>8. ASSUME NEW t \in RawTimers, StopRaw(t) PROVE IInv'
  <2>1. t \in Watchers /\ watcher[t] \in WatcherType /\ RawOK(watcher[t])
        /\ watcher \in [Watchers -> WatcherType] /\ pending \subseteq Watchers
    BY <1>0 DEF TypeOK, WatchersOK
  <2>2. /\ EvStop(watcher[t]) \in WatcherType /\ RawOK(EvStop(watcher[t]))
        /\ RunningOK(watcher[t]) => RunningOK(EvStop(watcher[t]))
        /\ ~watcher[t].active => EvStop(watcher[t]) = watcher[t]
    BY <2>1, StopOK
  <2>3. /\ watcher' = [watcher EXCEPT ![t] = EvStop(watcher[t])]
        /\ pending' = IF watcher[t].active THEN pending \ {t} ELSE pending
        /\ cur' = cur
    BY <1>8 DEF StopRaw, loopVars
  <2>4. watcher' \in [Watchers -> WatcherType] /\ pending' \subseteq Watchers
    BY <2>1, <2>2, <2>3
  <2>5. WatchersOK'
    <3>1. CASE watcher[t].active
      BY <1>0, <2>1, <2>2, <2>3, <3>1 DEF WatchersOK
    <3>2. CASE ~watcher[t].active
      BY <1>0, <2>1, <2>2, <2>3, <3>2 DEF WatchersOK
    <3> QED BY <3>1, <3>2
  <2> QED
    BY <1>8, <2>4, <2>5 DEF StopRaw, itemVars, loopVars, TypeOK
<1>9. ASSUME NEW t \in RawTimers, NEW after \in Nat, NEW rep \in Nat, StartRaw(t, after, rep)
      PROVE  IInv'
  <2> DEFINE w == EvStart(Stopped, after, rep, now)
  <2>1. w \in WatcherType /\ RawOK(w)
    BY <1>0, StartOK
  <2>2. watcher' = [watcher EXCEPT ![t] = w] /\ pending' = pending /\ cur' = cur
        /\ t \notin pending /\ t # cur
    BY <1>9 DEF StartRaw, loopVars
  <2> HIDE DEF w
  <2>3. watcher' \in [Watchers -> WatcherType] /\ WatchersOK'
    BY <1>0, <2>1, <2>2 DEF TypeOK, WatchersOK
  <2> QED
    BY <1>0, <1>9, <2>3 DEF StartRaw, itemVars, loopVars, TypeOK
<1>10. \A r \in Repeats : r \in Nat /\ LaterOf(r, 1) \in Nat
  BY TimeAssumption DEF LaterOf
<1>11. program.msecs \subseteq Msecs
  BY IdentityAssumption DEF TypeOK
<1> QED
  BY <1>1, <1>2, <1>3, <1>4, <1>5, <1>6, <1>7, <1>8, <1>9, <1>10, <1>11
  DEF DomCalls, SocketCalls, RawCalls

LEMMA LoopIInv ==
  ASSUME IInv, Tick \/ LoopSteps \/ ThrowFromList, program' = program
  PROVE  IInv'
<1> USE DEF IInv
<1>0. /\ Msecs \subseteq Nat \ {0} /\ RawTimers \subseteq Watchers /\ Msecs \subseteq Watchers
      /\ \A m \in Msecs : m \notin RawTimers
      /\ NoOne \notin Watchers
      /\ now \in Nat /\ now \in 0..now /\ list \in [Msecs -> Seq(Items)]
      /\ watcher \in [Watchers -> WatcherType] /\ evNow \in Nat /\ cbNow \in Nat
      /\ pending \subseteq Watchers
  BY TimeAssumption, IdentityAssumption DEF Watchers, TypeOK
<1>1. ASSUME Tick PROVE IInv'
  BY <1>0, <1>1, TimeAssumption DEF Tick, itemVars, loopVars, TypeOK, WatchersOK
<1>2. ASSUME Reify PROVE IInv'
  <2> DEFINE due == {w \in Watchers : watcher[w].active /\ watcher[w].at < now}
  <2>1. /\ mode = "idle" /\ pending = {} /\ pending' = due /\ evNow' = now /\ cur' = cur
        /\ watcher' = [w \in Watchers |-> IF w \in due THEN Rearmed(watcher[w], now)
                                                       ELSE watcher[w]]
    BY <1>2 DEF Reify, loopVars
  <2>2. cur = NoOne /\ cur \notin Watchers
    BY <1>0, <2>1 DEF TypeOK
  <2>3. \A w \in due : w \in Watchers /\ watcher[w] \in WatcherType /\ watcher[w].active
    BY <1>0
  <2> HIDE DEF due
  <2>4. ASSUME NEW w \in due
        PROVE  /\ Rearmed(watcher[w], now) \in WatcherType
               /\ ListOK(watcher[w]) =>
                    ListOK(Rearmed(watcher[w], now)) /\ Rearmed(watcher[w], now).active
               /\ RawOK(watcher[w]) =>
                    RawOK(Rearmed(watcher[w], now)) /\ FedOK(Rearmed(watcher[w], now))
    BY <1>0, <2>3, RearmedOK
  <2>5. watcher' \in [Watchers -> WatcherType] /\ pending' \subseteq Watchers
    BY <1>0, <2>1, <2>3, <2>4
  <2>6. WatchersOK'
    BY <1>0, <2>1, <2>2, <2>3, <2>4 DEF WatchersOK
  <2> QED
    BY <1>0, <1>2, <2>5, <2>6 DEF Reify, itemVars, loopVars, TypeOK
<1>3. ASSUME NEW m \in Msecs, InvokeList(m) PROVE IInv'
  <2>1. WatchersOK'
    BY <1>0, <1>3 DEF InvokeList, itemVars, WatchersOK
  <2> QED
    BY <1>0, <1>3, <2>1 DEF InvokeList, itemVars, TypeOK
<1>4. ASSUME LoopWait PROVE IInv'
  <2> DEFINE i == Head(list[cur])
             rep == cur - Diff(i)
  <2>1. cur \in Msecs /\ cur \in Nat /\ list[cur] \in Seq(Items) /\ list[cur] # << >>
    BY <1>0, <1>4 DEF LoopWait, L_isEmpty, TypeOK
  <2>2. i \in Items /\ start[i] \in Nat
    BY <1>0, <2>1 DEF TypeOK
  <2>3. rep \in Nat \ {0}
    BY <1>0, <1>4, <2>1, <2>2 DEF LoopWait, Diff, Due
  <2>4. watcher' = [watcher EXCEPT ![cur] = EvAgain(watcher[cur], rep)]
    BY <1>4 DEF LoopWait
  <2>5. watcher[cur] \in WatcherType /\ ListOK(watcher[cur])
    BY <1>0, <2>1 DEF WatchersOK
  <2> HIDE DEF rep, i
  <2>6. EvAgain(watcher[cur], rep) \in WatcherType /\ ListOK(EvAgain(watcher[cur], rep))
        /\ EvAgain(watcher[cur], rep).active
    BY <1>0, <2>3, <2>5, AgainOK
  <2>7. watcher' \in [Watchers -> WatcherType] /\ WatchersOK'
    BY <1>0, <1>4, <2>1, <2>4, <2>6, Zenon DEF WatchersOK, LoopWait
  <2>8. LaterOf(evNow - cbNow, 0) \in 0..now
    BY <1>0 DEF LaterOf, TypeOK
  <2>9. skew' \in [Msecs -> 0..now]
    BY <1>4, <2>8 DEF LoopWait, TypeOK
  <2> QED
    BY <1>0, <1>4, <2>7, <2>9, Zenon DEF LoopWait, itemVars, TypeOK
<1>5. ASSUME LoopExpire PROVE IInv'
  <2> DEFINE i == Head(list[cur])
  <2>1. cur \in Msecs /\ list[cur] \in Seq(Items) /\ list[cur] # << >>
    BY <1>0, <1>5 DEF LoopExpire, L_isEmpty, TypeOK
  <2>2. i \in Items
    BY <2>1
  <2>3. /\ list' = L_remove(list, i) /\ link' = [link EXCEPT ![i] = "null"]
        /\ mode' = IF onTimeout[i] THEN "user" ELSE "loop"
    BY <1>5 DEF LoopExpire
  <2> HIDE DEF i
  <2>4. list' \in [Msecs -> Seq(Items)]
    BY <1>0, <2>2, <2>3, ListsType
  <2>5. WatchersOK'
    BY <1>5 DEF LoopExpire, WatchersOK
  <2> QED
    BY <1>0, <1>5, <2>1, <2>2, <2>3, <2>4, <2>5, Zenon DEF LoopExpire, TypeOK
<1>6. ASSUME LoopDone PROVE IInv'
  <2>1. cur \in Msecs /\ watcher[cur] \in WatcherType /\ ListOK(watcher[cur]) /\ cur \notin pending
    BY <1>0, <1>6 DEF LoopDone, TypeOK, WatchersOK
  <2>2. EvStop(watcher[cur]) \in WatcherType /\ ListOK(EvStop(watcher[cur]))
    BY <2>1, StopOK
  <2>3. watcher' = [watcher EXCEPT ![cur] = EvStop(watcher[cur])]
    BY <1>6 DEF LoopDone
  <2>4. watcher' \in [Watchers -> WatcherType] /\ WatchersOK'
    BY <1>0, <1>6, <2>1, <2>2, <2>3, Zenon DEF WatchersOK, LoopDone
  <2> QED
    BY <1>0, <1>6, <2>4 DEF LoopDone, itemVars, TypeOK
<1>7. ASSUME NEW t \in RawTimers, InvokeRaw(t) PROVE IInv'
  <2>1. /\ t \in Watchers /\ watcher[t] \in WatcherType /\ RawOK(watcher[t])
        /\ FedOK(watcher[t]) /\ mode = "idle" /\ cur = NoOne
    BY <1>0, <1>7 DEF InvokeRaw, TypeOK, WatchersOK
  <2>2. CASE callback[t]
    <3>1. RunningOK(watcher[t])
      BY <2>1 DEF FedOK, RunningOK, WatcherType
    <3>2. WatchersOK'
      BY <1>0, <1>7, <2>1, <2>2, <3>1, Zenon DEF InvokeRaw, WatchersOK
    <3> QED
      BY <1>0, <1>7, <2>1, <2>2, <3>2, Zenon DEF InvokeRaw, itemVars, TypeOK
  <2>3. CASE ~callback[t]
    <3>1. EvStop(watcher[t]) \in WatcherType /\ RawOK(EvStop(watcher[t]))
      BY <2>1, StopOK, Zenon
    <3>2. watcher' = [watcher EXCEPT ![t] = EvStop(watcher[t])] /\ pending' = pending \ {t}
          /\ cur' = cur /\ mode' = mode
      BY <1>7, <2>3, Zenon DEF InvokeRaw
    <3>3. watcher' \in [Watchers -> WatcherType] /\ WatchersOK'
      BY <1>0, <2>1, <3>1, <3>2, Zenon DEF WatchersOK
    <3> QED
      BY <1>0, <1>7, <2>1, <3>2, <3>3, Zenon DEF InvokeRaw, itemVars, TypeOK
  <2> QED BY <2>2, <2>3, Zenon
<1>8. ASSUME ReturnToList PROVE IInv'
  BY <1>0, <1>8, Zenon DEF ReturnToList, itemVars, TypeOK, WatchersOK
<1>9. ASSUME FinishRaw PROVE IInv'
  <2>1. cur \in RawTimers /\ watcher[cur] \in WatcherType /\ RawOK(watcher[cur])
        /\ RunningOK(watcher[cur]) /\ cur \notin pending
    BY <1>0, <1>9, Zenon DEF FinishRaw, TypeOK, WatchersOK
  <2>2. CASE watcher[cur].repeat = 0
    <3> DEFINE w == [watcher[cur] EXCEPT !.refs = @ - 1]
    <3>1. watcher' = [watcher EXCEPT ![cur] = w]
      BY <1>9, <2>2, Zenon DEF FinishRaw, OneShot
    <3>2. w \in WatcherType /\ RawOK(w)
      BY <2>1, <2>2 DEF WatcherType, RunningOK, RawOK
    <3> HIDE DEF w
    <3>3. watcher' \in [Watchers -> WatcherType] /\ WatchersOK'
      BY <1>0, <1>9, <2>1, <3>1, <3>2, Zenon DEF FinishRaw, OneShot, WatchersOK
    <3> QED
      BY <1>0, <1>9, <3>3, Zenon DEF FinishRaw, OneShot, itemVars, TypeOK
  <2>3. CASE watcher[cur].repeat # 0
    <3>1. WatchersOK'
      BY <1>0, <1>9, <2>1, <2>3, Zenon DEF FinishRaw, OneShot, WatchersOK
    <3> QED
      BY <1>0, <1>9, <2>3, <3>1, Zenon DEF FinishRaw, OneShot, itemVars, TypeOK
  <2> QED BY <2>2, <2>3, Zenon
<1>10. ASSUME ThrowFromList PROVE IInv'
  <2>1. WatchersOK'
    BY <1>0, <1>10, Zenon DEF ThrowFromList, WatchersOK
  <2> QED
    BY <1>0, <1>10, <2>1, Zenon DEF ThrowFromList, itemVars, TypeOK
<1> QED
  BY <1>1, <1>2, <1>3, <1>4, <1>5, <1>6, <1>7, <1>8, <1>9, <1>10, Zenon DEF LoopSteps

-----------------------------------------------------------------------------
LEMMA StepIInv == IInv /\ [Next]_vars => IInv'
<1> SUFFICES ASSUME IInv, [Next]_vars PROVE IInv'
  OBVIOUS
<1>1. CASE UNCHANGED vars
  BY <1>1, Zenon DEF vars, IInv, TypeOK, WatchersOK
<1>2. CASE Next
  <2>1. /\ program' = program
        /\ Tick \/ LoopSteps \/ ThrowFromList \/ DomCalls \/ SocketCalls \/ RawCalls
    BY <1>2, Zenon DEF Next
  <2> QED
    BY <2>1, CallsIInv, LoopIInv, Zenon
<1> QED
  BY <1>1, <1>2, Zenon

LEMMA Invariance == Spec => []IInv
<1>1. Init => IInv
  BY InitIInv, Zenon
<1>2. IInv /\ [Next]_vars => IInv'
  BY StepIInv, Zenon
<1> QED
  BY <1>1, <1>2, PTL DEF Spec

\* Every variable of timers.js and of the Timer binding keeps its type: in
\* particular refs_ never drops below zero, which ObjectWrap::Unref asserts.
THEOREM TypeCorrect == Spec => []TypeOK
<1>1. IInv => TypeOK
  BY Zenon DEF IInv
<1> QED
  BY <1>1, Invariance, PTL

\* A Timer libev may still call is referenced exactly once, so its wrap is
\* not collected before its callback.
THEOREM RefsCorrect == Spec => []RefsSafe
<1>1. IInv => RefsSafe
  <2> SUFFICES ASSUME IInv, NEW w \in Watchers
               PROVE  /\ watcher[w].refs <= 1
                      /\ (\/ watcher[w].active
                          \/ w \in pending
                          \/ w \in RawTimers /\ w = cur /\ watcher[w].repeat = 0)
                         => watcher[w].refs = 1
    BY Zenon DEF RefsSafe
  <2>1. CASE w \in Msecs
    <3>1. ListOK(watcher[w]) /\ (w \in pending => watcher[w].active) /\ w \notin RawTimers
      BY <2>1, IdentityAssumption, Zenon DEF IInv, WatchersOK
    <3> QED BY <3>1 DEF ListOK
  <2>2. CASE w \in RawTimers
    BY <2>2, Zenon DEF IInv, WatchersOK, RawOK, FedOK, RunningOK
  <2> QED
    BY <2>1, <2>2, Zenon DEF Watchers
<1> QED
  BY <1>1, Invariance, PTL

\* A list with items in it has a running watcher, unless active() has put an item
\* into it while it was empty: insert() starts the watcher for the first item, it
\* repeats until it is stopped, and it is stopped only when the list is empty.
THEOREM AlwaysArmed == Spec => []Armed
<1>1. Init => Armed
  BY Zenon DEF Init, Armed
<1>2. IInv /\ Armed /\ [Next]_vars => Armed'
  <2> SUFFICES ASSUME IInv, Armed, [Next]_vars PROVE Armed'
    OBVIOUS
  <2>0. /\ list \in [Msecs -> Seq(Items)] /\ DomTimers \subseteq Items /\ Sockets \subseteq Items
        /\ watcher \in [Watchers -> WatcherType] /\ Msecs \subseteq Watchers
        /\ \A m \in Msecs : ListOK(watcher[m]) /\ m \notin RawTimers
        /\ now \in Nat
    BY TimeAssumption, IdentityAssumption DEF IInv, TypeOK, WatchersOK, Watchers, Items
  <2>1. ASSUME NEW i \in DomTimers, NEW m \in Msecs, SetTimeout(i, m) PROVE Armed'
    <3>1. \A n \in Msecs \ {m} : list[n] = << >> => list'[n] = << >>
      BY <2>0, <2>1, ListsType, Zenon DEF SetTimeout, insert, L_append
    <3>2. /\ watcher' = IF NeedsStart(m) THEN [watcher EXCEPT ![m] = EvAgain(@, m)] ELSE watcher
      BY <2>1, Zenon DEF SetTimeout, insert
    <3>3. EvAgain(watcher[m], m).active
      BY Zenon DEF EvAgain
    <3> QED
      BY <2>0, <2>1, <3>1, <3>2, <3>3, Zenon DEF SetTimeout, Armed, NeedsStart, L_isEmpty
  <2>2. ASSUME NEW i \in DomTimers, ClearTimeout(i) PROVE Armed'
    <3>1. \A n \in Msecs : list[n] = << >> => list'[n] = << >>
      BY <2>0, <2>2, ListsType, Zenon DEF ClearTimeout
    <3>2. \A n \in Msecs : list'[n] # << >> => watcher'[n] = watcher[n]
      BY <2>0, <2>2, Zenon DEF ClearTimeout, StopIfEmpty, L_isEmpty
    <3> QED
      BY <2>2, <3>1, <3>2, Zenon DEF ClearTimeout, Armed
  <2>3. ASSUME NEW t \in RawTimers, StopRaw(t) PROVE Armed'
    BY <2>0, <2>3, Zenon DEF StopRaw, itemVars, Armed
  <2>4. ASSUME NEW t \in RawTimers, NEW after, NEW rep, StartRaw(t, after, rep) PROVE Armed'
    BY <2>0, <2>4, Zenon DEF StartRaw, itemVars, Armed
  <2>5. ASSUME Tick PROVE Armed'
    BY <2>5, Zenon DEF Tick, itemVars, Armed
  <2>6. ASSUME Reify PROVE Armed'
    <3>1. ASSUME NEW m \in Msecs, watcher[m].active PROVE Rearmed(watcher[m], now).active
      BY <2>0, <3>1, RearmedOK, Zenon
    <3> QED
      BY <2>0, <2>6, <3>1, Zenon DEF Reify, itemVars, Armed
  <2>7. ASSUME NEW m \in Msecs, InvokeList(m) PROVE Armed'
    BY <2>7, Zenon DEF InvokeList, itemVars, Armed
  <2>8. ASSUME LoopWait PROVE Armed'
    <3>1. \A rep : EvAgain(watcher[cur], rep).active
      BY Zenon DEF EvAgain
    <3> QED
      BY <2>0, <2>8, <3>1, Zenon DEF LoopWait, itemVars, Armed
  <2>9. ASSUME LoopExpire PROVE Armed'
    <3>1. cur \in Msecs /\ Head(list[cur]) \in Items
      BY <2>0, <2>9 DEF LoopExpire, L_isEmpty, IInv, TypeOK
    <3>2. \A n \in Msecs : list[n] = << >> => list'[n] = << >>
      BY <2>0, <2>9, <3>1, ListsType, Zenon DEF LoopExpire
    <3> QED
      BY <2>9, <3>2, Zenon DEF LoopExpire, Armed
  <2>10. ASSUME LoopDone PROVE Armed'
    BY <2>0, <2>10, Zenon DEF LoopDone, L_isEmpty, itemVars, Armed
  <2>11. ASSUME NEW t \in RawTimers, InvokeRaw(t) PROVE Armed'
    BY <2>0, <2>11, Zenon DEF InvokeRaw, itemVars, Armed
  <2>12. ASSUME ReturnToList PROVE Armed'
    BY <2>12, Zenon DEF ReturnToList, itemVars, Armed
  <2>13. ASSUME ThrowFromList PROVE Armed'
    BY <2>13, Zenon DEF ThrowFromList, itemVars, Armed
  <2>14. ASSUME FinishRaw PROVE Armed'
    BY <2>0, <2>14, Zenon DEF FinishRaw, OneShot, itemVars, Armed
  <2>15. CASE UNCHANGED vars
    BY <2>15, Zenon DEF vars, Armed
  <2>16. ASSUME NEW i \in Sockets, NEW m \in Msecs, Enroll(i, m) PROVE Armed'
    <3>1. \A n \in Msecs : list[n] = << >> => list'[n] = << >>
      BY <2>0, <2>16, ListsType, Zenon DEF Enroll
    <3>2. \A n \in Msecs : list'[n] # << >> => watcher'[n] = watcher[n]
      BY <2>0, <2>16, SMTT(30) DEF Enroll, StopIfEmpty, L_isEmpty
    <3> QED
      BY <2>16, <3>1, <3>2, Zenon DEF Enroll, Armed
  <2>17. ASSUME NEW i \in Sockets, Unenroll(i) PROVE Armed'
    <3>1. \A n \in Msecs : list[n] = << >> => list'[n] = << >>
      BY <2>0, <2>17, ListsType, Zenon DEF Unenroll
    <3>2. \A n \in Msecs : list'[n] # << >> => watcher'[n] = watcher[n]
      BY <2>0, <2>17, Zenon DEF Unenroll, StopIfEmpty, L_isEmpty
    <3> QED
      BY <2>17, <3>1, <3>2, Zenon DEF Unenroll, Armed
  <2>18. ASSUME NEW i \in Sockets, ActiveFresh(i) PROVE Armed'
    <3> DEFINE m == timeout[i]
    <3>1. m \in Msecs /\ i \in Items /\ insert(i, m) /\ joined' = joined
      BY <2>0, <2>18, Zenon DEF ActiveFresh, IInv, TypeOK
    <3> HIDE DEF m
    <3>2. \A n \in Msecs \ {m} : list[n] = << >> => list'[n] = << >>
      BY <2>0, <3>1, ListsType, Zenon DEF insert, L_append
    <3>3. watcher' = IF NeedsStart(m) THEN [watcher EXCEPT ![m] = EvAgain(@, m)] ELSE watcher
      BY <3>1, Zenon DEF insert
    <3>4. EvAgain(watcher[m], m).active
      BY Zenon DEF EvAgain
    <3> QED
      BY <2>0, <3>1, <3>2, <3>3, <3>4, Zenon DEF Armed, NeedsStart, L_isEmpty
  <2>19. ASSUME NEW i \in Sockets, ActiveAgain(i) PROVE Armed'
    <3> DEFINE m == timeout[i]
    <3>1. /\ m \in Msecs /\ i \in Items /\ list' = L_append(list, m, i) /\ watcher' = watcher
          /\ joined' = IF L_isEmpty(list, m) THEN joined \cup {m} ELSE joined
      BY <2>0, <2>19, Zenon DEF ActiveAgain, IInv, TypeOK
    <3> HIDE DEF m
    <3>2. \A n \in Msecs \ {m} : list[n] = << >> => list'[n] = << >>
      BY <2>0, <3>1, ListsType, Zenon DEF L_append
    <3> QED
      BY <2>0, <3>1, <3>2, Zenon DEF Armed, L_isEmpty
  <2>20. ASSUME NEW i \in Sockets, ActiveThrows(i) PROVE Armed'
    BY <2>20, Zenon DEF ActiveThrows, Armed
  <2>21. CASE Next
    <3>1. \/ Tick \/ LoopSteps \/ ThrowFromList
          \/ \E i \in DomTimers : ClearTimeout(i) \/ \E m \in program.msecs : SetTimeout(i, m)
          \/ \E i \in Sockets :
                \/ \E m \in program.msecs : Enroll(i, m)
                \/ Unenroll(i) \/ ActiveFresh(i) \/ ActiveAgain(i) \/ ActiveThrows(i)
          \/ \E t \in RawTimers :
                \/ StopRaw(t) \/ StartRaw(t, 0, 0)
                \/ \E r \in Repeats : StartRaw(t, r, LaterOf(r, 1))
      BY <2>21, Zenon DEF Next, DomCalls, SocketCalls, RawCalls
    <3>2. program.msecs \subseteq Msecs
      BY IdentityAssumption, Zenon DEF IInv, TypeOK
    <3> QED
      BY <2>1, <2>2, <2>3, <2>4, <2>5, <2>6, <2>7, <2>8, <2>9, <2>10, <2>11, <2>12,
         <2>13, <2>14, <2>16, <2>17, <2>18, <2>19, <2>20, <3>1, <3>2, Zenon DEF LoopSteps
  <2> QED
    BY <2>15, <2>21, Zenon
<1> QED
  BY <1>1, <1>2, Invariance, PTL DEF Spec

-----------------------------------------------------------------------------
\* s is a list of timeout m, for items with timeouts T, links L, _idleStart S and last
\* activity U.
Tidy(m, s, T, L, S, U) ==
  /\ \A k \in 1..Len(s) : L[s[k]] = "listed" /\ T[s[k]] = m /\ S[s[k]] = U[s[k]]
  /\ \A k, l \in 1..Len(s) : k < l => s[k] # s[l] /\ U[s[k]] <= U[s[l]]

\* Only item i differs.
Elsewhere(i, T, L, S, U, T2, L2, S2, U2) ==
  \A j \in Items \ {i} : T2[j] = T[j] /\ L2[j] = L[j] /\ S2[j] = S[j] /\ U2[j] = U[j]

\* Item i is listed under n and was the last to be active.
Latest(i, n, T, L, S, U) ==
  /\ T[i] = n /\ L[i] = "listed" /\ S[i] = U[i]
  /\ \A j \in Items : U[j] <= U[i]

\* The parts of s before and after a position.
LEMMA TwoParts ==
  ASSUME NEW S, NEW s \in Seq(S), NEW p \in 1..Len(s)
  PROVE  LET a == SubSeq(s, 1, p - 1)
             b == SubSeq(s, p + 1, Len(s))
         IN /\ Len(a) = p - 1 /\ Len(b) = Len(s) - p /\ a \in Seq(S) /\ b \in Seq(S)
            /\ \A k \in 1..(p - 1) : a[k] = s[k]
            /\ \A k \in 1..(Len(s) - p) : b[k] = s[k + p]
<1> DEFINE a == SubSeq(s, 1, p - 1)
           b == SubSeq(s, p + 1, Len(s))
<1>1. Len(a) = p - 1 /\ a \in Seq(S)
  OBVIOUS
<1>2. \A k \in 1..(p - 1) : a[k] = s[k]
  OBVIOUS
<1>3. Len(b) = Len(s) - p /\ b \in Seq(S)
  OBVIOUS
<1>4. \A k \in 1..(Len(s) - p) : b[k] = s[k + p]
  OBVIOUS
<1> QED
  BY <1>1, <1>2, <1>3, <1>4, Zenon

LEMMA LenBoth ==
  ASSUME NEW S, NEW a \in Seq(S), NEW b \in Seq(S)
  PROVE  Len(a \o b) = Len(a) + Len(b)
OBVIOUS

\* What is left of s is in the order of s.
LEMMA WithoutOrder ==
  ASSUME NEW S, NEW s \in Seq(S), NEW i,
         \A k, l \in 1..Len(s) : k < l => s[k] # s[l]
  PROVE  LET t == Without(s, i) IN
         /\ t \in Seq(S)
         /\ \A k \in 1..Len(t) : t[k] # i /\ \E q \in 1..Len(s) : t[k] = s[q]
         /\ \A k, l \in 1..Len(t) : k < l =>
              \E q, r \in 1..Len(s) : q < r /\ t[k] = s[q] /\ t[l] = s[r]
         /\ t # << >> => s # << >> /\ \E q \in 1..Len(s) : Head(t) = s[q]
<1> DEFINE t == Without(s, i)
<1>0. t \in Seq(S)
  BY WithoutType, Zenon
<1>1. CASE In(s, i)
  <2> DEFINE p == CHOOSE k \in 1..Len(s) : s[k] = i
  <2>1. p \in 1..Len(s) /\ s[p] = i
    BY <1>1, Zenon DEF In
  <2>2. t = SubSeq(s, 1, p - 1) \o SubSeq(s, p + 1, Len(s))
    BY <1>1, Zenon DEF Without
  <2> HIDE DEF p, t
  <2> DEFINE a == SubSeq(s, 1, p - 1)
             b == SubSeq(s, p + 1, Len(s))
  <2>3. /\ Len(a) = p - 1 /\ Len(b) = Len(s) - p /\ a \in Seq(S) /\ b \in Seq(S)
        /\ \A k \in 1..(p - 1) : a[k] = s[k]
        /\ \A k \in 1..(Len(s) - p) : b[k] = s[k + p]
    BY <2>1, TwoParts, Zenon
  <2>a. t = a \o b
    BY <2>2, Zenon
  <2> HIDE DEF a, b
  <2>4. Len(t) = Len(s) - 1
    <3>1. Len(a \o b) = Len(a) + Len(b)
      BY <2>3, LenBoth, Zenon
    <3>2. Len(t) = (p - 1) + (Len(s) - p)
      BY <2>3, <2>a, <3>1, Zenon
    <3>3. p \in Int /\ Len(s) \in Int
      BY <2>1
    <3> QED
      BY <3>2, <3>3
  <2>5. ASSUME NEW k \in 1..Len(t)
        PROVE  t[k] = IF k < p THEN s[k] ELSE s[k + 1]
    <3>1. k \in 1..(Len(a) + Len(b)) /\ p \in Nat /\ Len(s) \in Nat
      BY <2>1, <2>3, <2>4
    <3>2. (a \o b)[k] = IF k <= Len(a) THEN a[k] ELSE b[k - Len(a)]
      BY <2>3, <3>1
    <3>3. CASE k < p
      BY <2>3, <2>a, <3>1, <3>2, <3>3
    <3>4. CASE ~(k < p)
      <4>1. k - (p - 1) \in 1..(Len(s) - p) /\ ~(k <= p - 1) /\ (k - (p - 1)) + p = k + 1
        BY <2>3, <3>1, <3>4
      <4> QED
        BY <2>3, <2>a, <3>2, <3>4, <4>1, Zenon
    <3> QED
      BY <3>3, <3>4, Zenon
  <2> DEFINE o(k) == IF k < p THEN k ELSE k + 1
  <2>6. \A k \in 1..Len(t) : o(k) \in 1..Len(s) /\ t[k] = s[o(k)] /\ o(k) # p
    BY <2>1, <2>4, <2>5
  <2>7. \A k, l \in 1..Len(t) : k < l => o(k) < o(l)
    BY <2>1, <2>4
  <2> HIDE DEF o
  <2>8. \A k \in 1..Len(t) : t[k] # i
    BY <2>1, <2>6
  <2>9. t # << >> => s # << >> /\ 1 \in 1..Len(t) /\ Head(t) = t[1]
    BY <2>1, <1>0
  <2> QED
    BY <1>0, <2>6, <2>7, <2>8, <2>9, Zenon DEF t
<1>2. CASE ~In(s, i)
  <2>1. t = s /\ \A k \in 1..Len(s) : s[k] # i
    BY <1>2, Zenon DEF Without, In
  <2>2. s # << >> => 1 \in 1..Len(s) /\ Head(s) = s[1]
    OBVIOUS
  <2> QED
    BY <2>1, <2>2, Zenon
<1> QED
  BY <1>1, <1>2, Zenon

LEMMA RemoveTidy ==
  ASSUME NEW m, NEW s \in Seq(Items), NEW i,
         NEW T, NEW L, NEW S, NEW U, NEW T2, NEW L2, NEW S2, NEW U2,
         Tidy(m, s, T, L, S, U),
         Elsewhere(i, T, L, S, U, T2, L2, S2, U2)
  PROVE  Tidy(m, Without(s, i), T2, L2, S2, U2)
<1> DEFINE t == Without(s, i)
<1>1. \A k, l \in 1..Len(s) : k < l => s[k] # s[l]
  BY Zenon DEF Tidy
<1>2. /\ t \in Seq(Items)
      /\ \A k \in 1..Len(t) : t[k] # i /\ \E q \in 1..Len(s) : t[k] = s[q]
      /\ \A k, l \in 1..Len(t) : k < l =>
           \E q, r \in 1..Len(s) : q < r /\ t[k] = s[q] /\ t[l] = s[r]
  BY <1>1, WithoutOrder
<1> HIDE DEF t
<1>3. \A k \in 1..Len(t) : t[k] \in Items \ {i}
  <2>1. t \in Seq(Items) /\ \A k \in 1..Len(t) : t[k] # i
    BY <1>2, Zenon
  <2> QED
    BY <2>1
<1> USE DEF Elsewhere
<1>4. \A k \in 1..Len(t) : L2[t[k]] = "listed" /\ T2[t[k]] = m /\ S2[t[k]] = U2[t[k]]
  BY <1>2, <1>3 DEF Tidy
<1>5. ASSUME NEW k \in 1..Len(t), NEW l \in 1..Len(t), k < l
      PROVE  t[k] # t[l] /\ U2[t[k]] <= U2[t[l]]
  <2>1. PICK q \in 1..Len(s), r \in 1..Len(s) : q < r /\ t[k] = s[q] /\ t[l] = s[r]
    BY <1>2, <1>5, Zenon
  <2>2. s[q] # s[r] /\ U[s[q]] <= U[s[r]]
    BY <2>1, Zenon DEF Tidy
  <2> QED
    BY <1>3, <2>1, <2>2, Zenon
<1> QED
  BY <1>4, <1>5, Zenon DEF Tidy, t

LEMMA AppendTidy ==
  ASSUME NEW m, NEW s \in Seq(Items), NEW i \in Items,
         NEW T, NEW L, NEW S, NEW U,
         Tidy(m, s, T, L, S, U),
         T[i] = m, L[i] = "listed", S[i] = U[i],
         \A k \in 1..Len(s) : s[k] # i /\ U[s[k]] <= U[i]
  PROVE  Tidy(m, Append(s, i), T, L, S, U)
<1> DEFINE t == Append(s, i)
<1>1. /\ Len(t) = Len(s) + 1 /\ t[Len(s) + 1] = i
      /\ \A k \in 1..Len(t) : k = Len(s) + 1 \/ (k \in 1..Len(s) /\ t[k] = s[k])
  OBVIOUS
<1> HIDE DEF t
<1>2. \A k \in 1..Len(t) : L[t[k]] = "listed" /\ T[t[k]] = m /\ S[t[k]] = U[t[k]]
  BY <1>1 DEF Tidy
<1>3. ASSUME NEW k \in 1..Len(t), NEW l \in 1..Len(t), k < l
      PROVE  t[k] # t[l] /\ U[t[k]] <= U[t[l]]
  <2>1. k \in 1..Len(s) /\ t[k] = s[k]
    BY <1>1, <1>3
  <2>2. CASE l = Len(s) + 1
    BY <1>1, <2>1, <2>2, Zenon
  <2>3. CASE l \in 1..Len(s) /\ t[l] = s[l]
    BY <1>3, <2>1, <2>3, Zenon DEF Tidy
  <2> QED
    BY <1>1, <2>2, <2>3, Zenon
<1> QED
  BY <1>2, <1>3, Zenon DEF Tidy, t

AllTidy(ls, T, L, S, U) == \A m \in Msecs : Tidy(m, ls[m], T, L, S, U)

\* L.remove() keeps all the lists tidy, whatever happens to the item it removes.
LEMMA RemoveLists ==
  ASSUME NEW ls \in [Msecs -> Seq(Items)], NEW i,
         NEW T, NEW L, NEW S, NEW U, NEW T2, NEW L2, NEW S2, NEW U2,
         AllTidy(ls, T, L, S, U),
         Elsewhere(i, T, L, S, U, T2, L2, S2, U2)
  PROVE  AllTidy(L_remove(ls, i), T2, L2, S2, U2)
<1> SUFFICES ASSUME NEW m \in Msecs
             PROVE  Tidy(m, Without(ls[m], i), T2, L2, S2, U2)
  BY Zenon DEF AllTidy, L_remove
<1>1. ls[m] \in Seq(Items) /\ Tidy(m, ls[m], T, L, S, U)
  BY Zenon DEF AllTidy
<1> QED
  BY <1>1, RemoveTidy, Zenon

\* So does L.append() of an item that is the last to have been active.
LEMMA AppendLists ==
  ASSUME NEW ls \in [Msecs -> Seq(Items)], NEW i \in Items, NEW n \in Msecs,
         NEW T, NEW L, NEW S, NEW U, NEW T2, NEW L2, NEW S2, NEW U2,
         AllTidy(ls, T, L, S, U),
         Elsewhere(i, T, L, S, U, T2, L2, S2, U2),
         Latest(i, n, T2, L2, S2, U2)
  PROVE  AllTidy(L_append(ls, n, i), T2, L2, S2, U2)
<1> DEFINE r == L_remove(ls, i)
<1>1. AllTidy(r, T2, L2, S2, U2) /\ r \in [Msecs -> Seq(Items)]
  <2>1. AllTidy(L_remove(ls, i), T2, L2, S2, U2)
    BY RemoveLists, Zenon
  <2> QED
    BY <2>1, ListsType, Zenon
<1>2. \A k \in 1..Len(r[n]) : r[n][k] # i /\ r[n][k] \in Items
  <2>1. ls[n] \in Seq(Items) /\ \A k, l \in 1..Len(ls[n]) : k < l => ls[n][k] # ls[n][l]
    <3>1. ls[n] \in Seq(Items) /\ Tidy(n, ls[n], T, L, S, U)
      BY Zenon DEF AllTidy
    <3>2. \A k, l \in 1..Len(ls[n]) : k < l => ls[n][k] # ls[n][l] /\ U[ls[n][k]] <= U[ls[n][l]]
      BY <3>1, Zenon DEF Tidy
    <3> QED
      BY <3>1, <3>2, Zenon
  <2>2. r[n] = Without(ls[n], i)
    BY Zenon DEF L_remove
  <2>3. \A k \in 1..Len(Without(ls[n], i)) : Without(ls[n], i)[k] # i
    BY <2>1, WithoutOrder
  <2> QED
    BY <1>1, <2>2, <2>3
<1> HIDE DEF r
<1>3. Tidy(n, Append(r[n], i), T2, L2, S2, U2)
  <2>1. r[n] \in Seq(Items) /\ Tidy(n, r[n], T2, L2, S2, U2)
    BY <1>1, Zenon DEF AllTidy
  <2> QED
    BY <1>2, <2>1, AppendTidy, Zenon DEF Latest
<1> QED
  BY <1>1, <1>3, Zenon DEF AllTidy, L_append, r

\* What happens to an item that is in no list does not matter.
LEMMA OtherLists ==
  ASSUME NEW ls \in [Msecs -> Seq(Items)], NEW i,
         NEW T, NEW L, NEW S, NEW U, NEW T2, NEW L2, NEW S2, NEW U2,
         AllTidy(ls, T, L, S, U), L[i] # "listed",
         Elsewhere(i, T, L, S, U, T2, L2, S2, U2)
  PROVE  AllTidy(ls, T2, L2, S2, U2)
<1> SUFFICES ASSUME NEW m \in Msecs
             PROVE  Tidy(m, ls[m], T2, L2, S2, U2)
  BY Zenon DEF AllTidy
<1>1. ls[m] \in Seq(Items) /\ Tidy(m, ls[m], T, L, S, U)
  BY Zenon DEF AllTidy
<1>2. \A k \in 1..Len(ls[m]) : ls[m][k] \in Items \ {i}
  BY <1>1 DEF Tidy
<1> QED
  BY <1>1, <1>2, Zenon DEF Tidy, Elsewhere

\* Every list is tidy, and the list of an item that is in one exists.
ListsOK ==
  /\ AllTidy(list, timeout, link, start, touched)
  /\ \A i \in Items : link[i] = "listed" => timeout[i] \in created

\* The calls that take an item out of its list.
LEMMA RemoveListsOK ==
  ASSUME IInv, ListsOK, NEW i \in Items, NEW x, x # "listed", NEW m,
         list' = L_remove(list, i) \/ (list' = list /\ link[i] # "listed"),
         link' = [link EXCEPT ![i] = x],
         timeout' = timeout \/ timeout' = [timeout EXCEPT ![i] = m],
         start' = start, touched' = touched, created' = created
  PROVE  ListsOK'
<1>0. /\ list \in [Msecs -> Seq(Items)]
      /\ link \in [Items -> {"undefined", "self", "listed", "null"}]
      /\ timeout \in [Items -> Msecs \cup {0}]
  BY Zenon DEF IInv, TypeOK
<1>1. Elsewhere(i, timeout, link, start, touched, timeout', link', start', touched')
  BY <1>0, Zenon DEF Elsewhere
<1>2. AllTidy(list, timeout, link, start, touched)
  BY Zenon DEF ListsOK
<1>3. AllTidy(list', timeout', link', start', touched')
  <2>1. CASE list' = L_remove(list, i)
    <3>1. AllTidy(L_remove(list, i), timeout', link', start', touched')
      BY <1>0, <1>1, <1>2, RemoveLists, Zenon
    <3> QED BY <2>1, <3>1, Zenon
  <2>2. CASE list' = list /\ link[i] # "listed"
    <3>1. AllTidy(list, timeout', link', start', touched')
      BY <1>0, <1>1, <1>2, <2>2, OtherLists
    <3> QED BY <2>2, <3>1, Zenon
  <2> QED BY <2>1, <2>2, Zenon
<1>4. link'[i] # "listed"
  BY <1>0, Zenon
<1> QED
  BY <1>1, <1>3, <1>4, Zenon DEF ListsOK, AllTidy, Elsewhere

\* The calls that put an item at the end of the list of n.
LEMMA AppendListsOK ==
  ASSUME IInv, ListsOK, NEW i \in Items, NEW n \in Msecs,
         list' = L_append(list, n, i), MarkActive(i),
         link' = [link EXCEPT ![i] = "listed"],
         timeout' = [timeout EXCEPT ![i] = n], n \in created', created \subseteq created'
  PROVE  ListsOK'
<1>0. /\ list \in [Msecs -> Seq(Items)]
      /\ link \in [Items -> {"undefined", "self", "listed", "null"}]
      /\ timeout \in [Items -> Msecs \cup {0}]
      /\ now \in Nat /\ start \in [Items -> 0..now] /\ touched \in [Items -> 0..now]
  BY DEF IInv, TypeOK
<1>1. Elsewhere(i, timeout, link, start, touched, timeout', link', start', touched')
  BY <1>0, Zenon DEF MarkActive, Elsewhere
<1>2. AllTidy(list, timeout, link, start, touched)
  BY Zenon DEF ListsOK
<1>3. timeout'[i] = n /\ link'[i] = "listed" /\ start'[i] = touched'[i] /\ touched'[i] = now
  BY <1>0, Zenon DEF MarkActive
<1>4. \A j \in Items : touched'[j] <= touched'[i]
  BY <1>0, <1>3 DEF MarkActive
<1>a. Latest(i, n, timeout', link', start', touched')
  BY <1>3, <1>4, Zenon DEF Latest
<1>5. AllTidy(L_append(list, n, i), timeout', link', start', touched')
  BY <1>0, <1>1, <1>2, <1>a, AppendLists, Zenon
<1> QED
  BY <1>1, <1>3, <1>5, Zenon DEF ListsOK, AllTidy, Elsewhere

LEMMA StepListsOK ==
  ASSUME IInv, ListsOK, [Next]_vars
  PROVE  ListsOK'
<1>0. /\ list \in [Msecs -> Seq(Items)] /\ DomTimers \subseteq Items /\ Sockets \subseteq Items
      /\ timeout \in [Items -> Msecs \cup {0}] /\ created \subseteq Msecs /\ 0 \notin Msecs
      /\ program.msecs \subseteq Msecs
  BY TimeAssumption, IdentityAssumption, Zenon DEF IInv, TypeOK, Items
<1>1. ASSUME NEW i \in DomTimers, NEW m \in Msecs, SetTimeout(i, m) PROVE ListsOK'
  <2>1. /\ i \in Items /\ list' = L_append(list, m, i) /\ MarkActive(i)
        /\ link' = [link EXCEPT ![i] = "listed"] /\ timeout' = [timeout EXCEPT ![i] = m]
        /\ m \in created' /\ created \subseteq created'
    BY <1>0, <1>1, Zenon DEF SetTimeout, insert
  <2> QED
    BY <2>1, AppendListsOK, Zenon
<1>2. ASSUME NEW i \in DomTimers, ClearTimeout(i) PROVE ListsOK'
  <2>1. /\ i \in Items /\ list' = L_remove(list, i) /\ link' = [link EXCEPT ![i] = "null"]
        /\ timeout' = timeout /\ start' = start /\ touched' = touched /\ created' = created
    BY <1>0, <1>2, Zenon DEF ClearTimeout
  <2> QED
    BY <2>1, RemoveListsOK, Zenon
<1>3. ASSUME NEW i \in Sockets, NEW m \in Msecs, Enroll(i, m) PROVE ListsOK'
  <2>1. /\ i \in Items /\ link' = [link EXCEPT ![i] = "self"]
        /\ list' = L_remove(list, i) \/ (list' = list /\ link[i] # "listed")
        /\ timeout' = [timeout EXCEPT ![i] = m]
        /\ start' = start /\ touched' = touched /\ created' = created
    BY <1>0, <1>3, Zenon DEF Enroll, HasNext
  <2> QED
    BY <2>1, RemoveListsOK, Zenon
<1>4. ASSUME NEW i \in Sockets, Unenroll(i) PROVE ListsOK'
  <2>1. /\ i \in Items /\ list' = L_remove(list, i) /\ link' = [link EXCEPT ![i] = "null"]
        /\ timeout' = timeout /\ start' = start /\ touched' = touched /\ created' = created
    BY <1>0, <1>4, Zenon DEF Unenroll
  <2> QED
    BY <2>1, RemoveListsOK, Zenon
<1>5. ASSUME NEW i \in Sockets, ActiveFresh(i) \/ ActiveAgain(i) PROVE ListsOK'
  <2> DEFINE m == timeout[i]
  <2>1. /\ i \in Items /\ m \in Msecs /\ list' = L_append(list, m, i) /\ MarkActive(i)
        /\ link' = [link EXCEPT ![i] = "listed"] /\ timeout' = timeout
        /\ m \in created' /\ created \subseteq created'
    BY <1>0, <1>5, Zenon DEF ActiveFresh, ActiveAgain, insert
  <2>2. timeout' = [timeout EXCEPT ![i] = m]
    BY <1>0, <2>1, Zenon
  <2> HIDE DEF m
  <2> QED
    BY <2>1, <2>2, AppendListsOK, Zenon
<1>6. ASSUME NEW i \in Sockets, ActiveThrows(i) PROVE ListsOK'
  <2>1. i \in Items /\ link[i] # "listed"
    BY <1>0, <1>6, Zenon DEF ActiveThrows, ListsOK
  <2>2. Elsewhere(i, timeout, link, start, touched, timeout', link', start', touched')
        /\ link'[i] # "listed"
    BY <1>6, <2>1, Zenon DEF ActiveThrows, Elsewhere, IInv, TypeOK
  <2>3. AllTidy(list, timeout, link, start, touched)
    BY Zenon DEF ListsOK
  <2>4. AllTidy(list, timeout', link', start', touched')
    BY <1>0, <2>1, <2>2, <2>3, OtherLists
  <2> QED
    BY <1>6, <2>2, <2>4, Zenon DEF ActiveThrows, ListsOK, AllTidy, Elsewhere
<1>7. ASSUME LoopExpire PROVE ListsOK'
  <2> DEFINE i == Head(list[cur])
  <2>1. /\ i \in Items /\ list' = L_remove(list, i) /\ link' = [link EXCEPT ![i] = "null"]
        /\ timeout' = timeout /\ start' = start /\ touched' = touched /\ created' = created
    BY <1>0, <1>7 DEF LoopExpire, L_isEmpty, IInv, TypeOK
  <2> HIDE DEF i
  <2> QED
    BY <2>1, RemoveListsOK, Zenon
<1>8. ASSUME UNCHANGED itemVars PROVE ListsOK'
  BY <1>8, Zenon DEF itemVars, ListsOK, AllTidy
<1>9. CASE UNCHANGED vars
  BY <1>8, <1>9, Zenon DEF vars, itemVars
<1>10. CASE Next
  <2>1. ASSUME Tick \/ LoopSteps \/ ThrowFromList PROVE UNCHANGED itemVars \/ LoopExpire
    BY <2>1, Zenon DEF Tick, LoopSteps, ThrowFromList, Reify, LoopWait, LoopDone, ReturnToList,
                FinishRaw, InvokeList, InvokeRaw
  <2>2. ASSUME RawCalls PROVE UNCHANGED itemVars
    BY <2>2, Zenon DEF RawCalls, StopRaw, StartRaw
  <2> QED
    BY <1>0, <1>1, <1>2, <1>3, <1>4, <1>5, <1>6, <1>7, <1>8, <1>10, <2>1, <2>2, Zenon
    DEF Next, DomCalls, SocketCalls
<1> QED
  BY <1>9, <1>10, Zenon

LEMMA ListsInvariance == Spec => [](IInv /\ ListsOK)
<1>1. Init => ListsOK
  BY DEF Init, ListsOK, AllTidy, Tidy
<1>2. IInv /\ ListsOK /\ [Next]_vars => ListsOK'
  BY StepListsOK, Zenon
<1> QED
  BY <1>1, <1>2, Invariance, PTL DEF Spec

\* The callback of a list removes only the head of its list, after its timeout up to one
\* millisecond: the head is an item of that timeout, and its _idleStart is the time it was
\* last armed or active.
THEOREM NeverEarly == Spec => NotEarly
<1> DEFINE Late == \A i \in Items : (mode = "loop" /\ link[i] = "listed" /\ link'[i] # "listed")
                                  => now - touched[i] >= timeout[i] - 1
<1>1. ASSUME IInv, ListsOK, [Next]_vars PROVE [Late]_vars
  <2> SUFFICES ASSUME Next, mode = "loop", NEW i \in Items, link[i] = "listed", link'[i] # "listed"
               PROVE  now - touched[i] >= timeout[i] - 1
    BY <1>1, Zenon
  <2>1. LoopExpire
    <3>1. ~DomCalls /\ ~SocketCalls /\ ~RawCalls
      BY Zenon DEF DomCalls, SocketCalls, RawCalls, SetTimeout, ClearTimeout, Enroll, Unenroll,
             ActiveFresh, ActiveAgain, ActiveThrows, StopRaw, StartRaw, UserCode
    <3>2. ASSUME UNCHANGED itemVars PROVE FALSE
      BY <3>2, Zenon DEF itemVars
    <3>3. ASSUME Tick \/ LoopSteps \/ ThrowFromList PROVE UNCHANGED itemVars \/ LoopExpire
      BY <3>3, Zenon DEF Tick, LoopSteps, ThrowFromList, Reify, LoopWait, LoopDone, ReturnToList,
                  FinishRaw, InvokeList, InvokeRaw
    <3> QED
      BY <3>1, <3>2, <3>3, Zenon DEF Next
  <2>2. cur \in Msecs /\ cur \in Nat /\ list[cur] \in Seq(Items) /\ list[cur] # << >>
    BY <1>1, <2>1, TimeAssumption, Zenon DEF LoopExpire, L_isEmpty, IInv, TypeOK
  <2>3. i = Head(list[cur])
    BY <1>1, <2>1, Zenon DEF LoopExpire, IInv, TypeOK
  <2>4. 1 \in 1..Len(list[cur]) /\ i = list[cur][1]
    BY <2>2, <2>3
  <2>5. timeout[i] = cur /\ start[i] = touched[i]
    BY <1>1, <2>2, <2>4, Zenon DEF ListsOK, AllTidy, Tidy
  <2>6. ~(cbNow - start[i] + 1 < cur)
    BY <2>1, <2>3, Zenon DEF LoopExpire, Due, Diff
  <2>7. cbNow \in 0..now /\ now \in Nat /\ touched[i] \in Nat
    BY <1>1 DEF IInv, TypeOK
  <2> QED
    BY <2>2, <2>5, <2>6, <2>7
<1>2. IInv /\ ListsOK /\ [Next]_vars => [Late]_vars
  BY <1>1, Zenon
<1>3. NotEarly <=> [][Late]_vars
  BY Zenon DEF NotEarly
<1> HIDE DEF Late
<1> QED
  BY <1>2, <1>3, ListsInvariance, PTL DEF Spec

-----------------------------------------------------------------------------
(* When the watcher of a list goes off.  OnTime says nothing of a list whose *)
(* callback is about to run; the invariant says that its watcher has been    *)
(* re-armed relative to a loop time that is not ahead of the clock.          *)

HeardAt(m) == IF m \in pending THEN now ELSE ranAt[m]

Bound(m) ==
  watcher[m].at <= LaterOf(touched[Head(list[m])] + m + skew[m],
                           HeardAt(m) + watcher[m].repeat)

Bounds == \A m \in Msecs \ joined : list[m] # << >> => Bound(m)

\* The head of a list only gives way to an item that was active later.
HeadLater(m) ==
  /\ list[m] # << >>
  /\ touched[Head(list[m])] <= touched'[Head(list'[m])]

LEMMA WithoutHead ==
  ASSUME NEW m, NEW s \in Seq(Items), NEW i, NEW T, NEW L, NEW S, NEW U \in [Items -> Nat],
         Tidy(m, s, T, L, S, U), Without(s, i) # << >>
  PROVE  /\ s # << >> /\ Head(s) \in Items /\ Head(Without(s, i)) \in Items
         /\ U[Head(s)] <= U[Head(Without(s, i))]
<1> DEFINE t == Without(s, i)
<1>1. \A k, l \in 1..Len(s) : k < l => s[k] # s[l]
  BY Zenon DEF Tidy
<1>2. t # << >> => s # << >> /\ \E q \in 1..Len(s) : Head(t) = s[q]
  BY <1>1, WithoutOrder
<1>3. PICK q \in 1..Len(s) : Head(t) = s[q]
  BY <1>2, Zenon
<1> HIDE DEF t
<1>4. s # << >> /\ 1 \in 1..Len(s) /\ Head(s) = s[1] /\ s[1] \in Items /\ s[q] \in Items
  OBVIOUS
<1>5. U[s[1]] <= U[s[q]]
  <2>1. CASE q = 1
    BY <1>4, <2>1
  <2>2. CASE q > 1
    BY <1>4, <2>2, Zenon DEF Tidy
  <2> QED
    BY <2>1, <2>2
<1> QED
  BY <1>3, <1>4, <1>5, Zenon DEF t

LEMMA RemoveHead ==
  ASSUME IInv, ListsOK, NEW i \in Items, list' = L_remove(list, i), touched' = touched,
         NEW m \in Msecs, list'[m] # << >>
  PROVE  HeadLater(m) /\ Head(list'[m]) \in Items
<1>1. /\ list[m] \in Seq(Items) /\ list'[m] = Without(list[m], i) /\ touched \in [Items -> Nat]
  BY DEF L_remove, IInv, TypeOK
<1>2. Tidy(m, list[m], timeout, link, start, touched)
  BY Zenon DEF ListsOK, AllTidy
<1>3. /\ list[m] # << >> /\ Head(Without(list[m], i)) \in Items
      /\ touched[Head(list[m])] <= touched[Head(Without(list[m], i))]
  BY <1>1, <1>2, WithoutHead, Zenon
<1> QED
  BY <1>1, <1>3, Zenon DEF HeadLater

LEMMA AppendHead ==
  ASSUME IInv, ListsOK, NEW i \in Items, NEW n \in Msecs,
         list' = L_append(list, n, i), MarkActive(i), NEW m \in Msecs, list'[m] # << >>
  PROVE  /\ Head(list'[m]) \in Items
         /\ \/ HeadLater(m)
            \/ m = n /\ list[n] = << >> /\ Head(list'[n]) = i
<1> DEFINE t == Without(list[m], i)
<1>1. /\ list[m] \in Seq(Items) /\ touched \in [Items -> 0..now] /\ now \in Nat
      /\ touched' = [touched EXCEPT ![i] = now] /\ touched \in [Items -> Nat]
  BY DEF MarkActive, IInv, TypeOK
<1>2. list'[m] = IF m = n THEN Append(t, i) ELSE t
  BY Zenon DEF L_append, L_remove
<1>3. Tidy(m, list[m], timeout, link, start, touched)
  BY Zenon DEF ListsOK, AllTidy
<1>4. t \in Seq(Items)
  BY <1>1, WithoutType, Zenon
<1>5. t # << >> => /\ list[m] # << >> /\ Head(list[m]) \in Items /\ Head(t) \in Items
                   /\ touched[Head(list[m])] <= touched[Head(t)]
  BY <1>1, <1>3, WithoutHead, Zenon
<1> HIDE DEF t
<1>6. CASE t # << >>
  <2>1. Head(list'[m]) = Head(t)
    BY <1>2, <1>4, <1>6
  <2>2. touched[Head(t)] <= touched'[Head(t)] /\ touched[Head(list[m])] \in Nat
        /\ touched[Head(t)] \in Nat /\ touched'[Head(t)] \in Nat
    BY <1>1, <1>5, <1>6
  <2>3. touched[Head(list[m])] <= touched'[Head(t)]
    BY <1>5, <1>6, <2>2
  <2> QED
    BY <1>5, <1>6, <2>1, <2>3, Zenon DEF HeadLater
<1>7. CASE t = << >>
  <2>1. m = n /\ list'[m] = <<i>>
    BY <1>2, <1>7
  <2>2. Head(list'[m]) = i /\ touched'[i] = now
    BY <1>1, <2>1
  <2>3. list[m] # << >> => touched[Head(list[m])] <= now
    BY <1>1
  <2> QED
    BY <2>1, <2>2, <2>3, Zenon DEF HeadLater
<1> QED
  BY <1>6, <1>7, Zenon

\* A bound stays true when what it is computed from grows.
LEMMA LaterGrows ==
  ASSUME NEW a \in Nat, NEW u \in Nat, NEW u2 \in Nat, NEW m \in Nat, NEW k \in Nat,
         NEW h \in Nat, NEW h2 \in Nat, NEW r \in Nat,
         a <= LaterOf(u + m + k, h + r), u <= u2, h <= h2
  PROVE  a <= LaterOf(u2 + m + k, h2 + r)
BY DEF LaterOf

\* libev re-arms a watcher that went off before t.
LEMMA RearmedBound ==
  ASSUME NEW a \in Nat, NEW b \in Nat, NEW r \in Nat, NEW t \in Nat, a < t
  PROVE  LaterOf(a + r, t) <= LaterOf(b, t + r)
BY DEF LaterOf

\* The callback sets the watcher by what is left of the timeout m of an item idle since t.
LEMMA WaitBound ==
  ASSUME NEW e \in Nat, NEW c \in Nat, NEW t \in Nat, NEW m \in Nat, NEW h \in Nat
  PROVE  e + (m - (c - t)) <= LaterOf(t + m + LaterOf(e - c, 0), h + (m - (c - t)))
BY DEF LaterOf

\* Steps that do not set the watcher of m.
LEMMA KeepBound ==
  ASSUME IInv, NEW m \in Msecs, Bound(m), HeadLater(m), Head(list[m]) \in Items,
         touched'[Head(list'[m])] \in Nat,
         watcher'[m] = watcher[m], skew'[m] = skew[m],
         HeardAt(m)' \in Nat, HeardAt(m) <= HeardAt(m)'
  PROVE  Bound(m)'
<1>1. /\ watcher[m].at \in Nat /\ watcher[m].repeat \in Nat /\ m \in Nat /\ skew[m] \in Nat
      /\ touched[Head(list[m])] \in Nat /\ HeardAt(m) \in Nat
  <2>1. watcher[m] \in WatcherType /\ m \in Nat /\ skew[m] \in Nat /\ ranAt[m] \in Nat
        /\ now \in Nat /\ touched \in [Items -> Nat]
    BY TimeAssumption DEF IInv, TypeOK, Watchers
  <2> QED
    BY <2>1, Zenon DEF WatcherType, HeardAt
<1> DEFINE h == HeardAt(m)
           h2 == HeardAt(m)'
<1>2. watcher[m].at <= LaterOf(touched[Head(list[m])] + m + skew[m], h + watcher[m].repeat)
  BY Zenon DEF Bound
<1>3. h \in Nat /\ h2 \in Nat /\ h <= h2
  BY <1>1, Zenon
<1>4. touched[Head(list[m])] <= touched'[Head(list'[m])]
  BY Zenon DEF HeadLater
<1> HIDE DEF h, h2
<1>5. watcher[m].at <= LaterOf(touched'[Head(list'[m])] + m + skew[m], h2 + watcher[m].repeat)
  BY <1>1, <1>2, <1>3, <1>4, LaterGrows, Zenon
<1> QED
  BY <1>5, Zenon DEF Bound, h2

\* clearTimeout(), enroll() and unenroll(): the watcher and a pending invocation of a
\* list that is not empty stay as they are.
LEMMA RemoveBounds ==
  ASSUME IInv, ListsOK, Bounds, NEW i \in Items, NEW n, list' = L_remove(list, i),
         StopIfEmpty(n, L_remove(list, i)) \/ UNCHANGED <<watcher, pending>>,
         UNCHANGED <<now, touched, joined, ranAt, skew>>
  PROVE  Bounds'
<1> SUFFICES ASSUME NEW m \in Msecs \ joined, list'[m] # << >> PROVE Bound(m)'
  BY Zenon DEF Bounds
<1>1. /\ watcher \in [Watchers -> WatcherType] /\ Msecs \subseteq Watchers /\ now \in Nat
      /\ ranAt \in [Msecs -> Nat] /\ touched \in [Items -> Nat] /\ list[m] \in Seq(Items)
      /\ created \subseteq Msecs
  BY DEF IInv, TypeOK, Watchers
<1>2. HeadLater(m) /\ Head(list'[m]) \in Items
  BY RemoveHead, Zenon
<1>3. Head(list[m]) \in Items /\ Bound(m)
  <2>1. list[m] # << >>
    BY <1>2, Zenon DEF HeadLater
  <2> DEFINE s == list[m]
  <2>2. s \in Seq(Items) /\ s # << >>
    BY <1>1, <2>1, Zenon
  <2> HIDE DEF s
  <2>3. Head(s) \in Items
    BY <2>2
  <2> QED
    BY <2>1, <2>3, Zenon DEF Bounds, s
<1>4. watcher'[m] = watcher[m] /\ (m \in pending' <=> m \in pending)
  BY <1>1, Zenon DEF StopIfEmpty, L_isEmpty
<1>5. HeardAt(m)' = HeardAt(m) /\ HeardAt(m) \in Nat
  BY <1>1, <1>4, Zenon DEF HeardAt
<1>6. touched'[Head(list'[m])] \in Nat /\ skew'[m] = skew[m]
  BY <1>1, <1>2, Zenon
<1>7. HeardAt(m)' \in Nat /\ HeardAt(m) <= HeardAt(m)'
  BY <1>5
<1> QED
  BY <1>2, <1>3, <1>4, <1>6, <1>7, KeepBound, Zenon

\* insert(): the watcher is set for the first item of a list.
LEMMA InsertBounds ==
  ASSUME IInv, ListsOK, Bounds, NEW i \in Items, NEW n \in Msecs, insert(i, n),
         UNCHANGED <<now, pending, joined, ranAt>>
  PROVE  Bounds'
<1> SUFFICES ASSUME NEW m \in Msecs \ joined, list'[m] # << >> PROVE Bound(m)'
  BY Zenon DEF Bounds
<1>1. /\ watcher \in [Watchers -> WatcherType] /\ Msecs \subseteq Watchers /\ now \in Nat
      /\ ranAt \in [Msecs -> Nat] /\ touched \in [Items -> Nat] /\ list[m] \in Seq(Items)
      /\ skew \in [Msecs -> 0..now] /\ evNow \in 0..now /\ n \in Nat
  BY TimeAssumption DEF IInv, TypeOK, Watchers
<1>2. /\ list' = L_append(list, n, i) /\ MarkActive(i)
      /\ touched' = [touched EXCEPT ![i] = now]
      /\ watcher' = IF NeedsStart(n) THEN [watcher EXCEPT ![n] = EvAgain(@, n)] ELSE watcher
      /\ skew' = IF NeedsStart(n) THEN [skew EXCEPT ![n] = 0] ELSE skew
  BY Zenon DEF insert, MarkActive
<1>3. /\ Head(list'[m]) \in Items
      /\ \/ HeadLater(m)
         \/ m = n /\ list[n] = << >> /\ Head(list'[n]) = i
  BY <1>2, AppendHead, Zenon
<1>4. touched'[Head(list'[m])] \in Nat
  BY <1>1, <1>2, <1>3, Zenon
<1>5. HeardAt(m)' \in Nat /\ HeardAt(m) <= HeardAt(m)'
  BY <1>1, SMTT(30) DEF HeardAt
<1>6. CASE HeadLater(m)
  <2>1. Head(list[m]) \in Items /\ Bound(m)
    BY <1>1, <1>6 DEF HeadLater, Bounds
  <2>2. watcher'[m] = watcher[m] /\ skew'[m] = skew[m]
    BY <1>1, <1>2, <1>6, Zenon DEF HeadLater, NeedsStart, L_isEmpty
  <2> QED
    BY <1>4, <1>5, <1>6, <2>1, <2>2, KeepBound, Zenon
<1>7. CASE m = n /\ list[n] = << >> /\ Head(list'[n]) = i
  <2>1. watcher'[m].at = evNow + m /\ skew'[m] = 0 /\ touched'[i] = now /\ watcher'[m].repeat = m
    BY <1>1, <1>2, <1>7, Zenon DEF NeedsStart, L_isEmpty, EvAgain
  <2> DEFINE h == HeardAt(m)'
  <2>2. h \in Nat
    BY <1>5, Zenon
  <2> HIDE DEF h
  <2>3. evNow + m <= LaterOf(now + m + 0, h + m)
    BY <1>1, <1>7, <2>2, SMTT(30) DEF LaterOf
  <2> QED
    BY <1>7, <2>1, <2>3, Zenon DEF Bound, h
<1> QED
  BY <1>3, <1>6, <1>7, Zenon

\* Steps that leave the lists alone, and the watchers of the lists that are not empty.
LEMMA SameBounds ==
  ASSUME IInv, Bounds, UNCHANGED <<list, touched, joined, skew>>,
         \A m \in Msecs : list[m] # << >> =>
            watcher'[m] = watcher[m] /\ HeardAt(m)' \in Nat /\ HeardAt(m) <= HeardAt(m)'
  PROVE  Bounds'
<1> SUFFICES ASSUME NEW m \in Msecs \ joined, list[m] # << >> PROVE Bound(m)'
  BY Zenon DEF Bounds
<1>1. touched \in [Items -> Nat] /\ list[m] \in Seq(Items)
  BY DEF IInv, TypeOK
<1>2. Head(list[m]) \in Items /\ touched[Head(list[m])] \in Nat /\ Bound(m)
  BY <1>1 DEF Bounds
<1>3. HeadLater(m)
  BY <1>2 DEF HeadLater
<1> QED
  BY <1>2, <1>3, KeepBound, Zenon

LEMMA CallsBounds ==
  ASSUME IInv, ListsOK, Bounds, DomCalls \/ SocketCalls \/ RawCalls
  PROVE  Bounds'
<1>0. /\ DomTimers \subseteq Items /\ Sockets \subseteq Items /\ now \in Nat
      /\ timeout \in [Items -> Msecs \cup {0}] /\ created \subseteq Msecs /\ 0 \notin Msecs
      /\ program.msecs \subseteq Msecs /\ ranAt \in [Msecs -> Nat]
      /\ watcher \in [Watchers -> WatcherType] /\ Msecs \subseteq Watchers
      /\ \A m \in Msecs : m \notin RawTimers
  BY TimeAssumption, IdentityAssumption DEF IInv, TypeOK, Items, Watchers
<1>1. ASSUME NEW i \in DomTimers, NEW m \in Msecs, SetTimeout(i, m) PROVE Bounds'
  BY <1>0, <1>1, InsertBounds, Zenon DEF SetTimeout
<1>2. ASSUME NEW i \in DomTimers, ClearTimeout(i) PROVE Bounds'
  BY <1>0, <1>2, RemoveBounds, Zenon DEF ClearTimeout
<1>3. ASSUME NEW i \in Sockets, NEW m \in Msecs, Enroll(i, m) PROVE Bounds'
  <2>1. CASE HasNext(i)
    BY <1>0, <1>3, <2>1, RemoveBounds, Zenon DEF Enroll
  <2>2. CASE ~HasNext(i)
    BY <1>3, <2>2, Zenon DEF Enroll, Bounds, Bound, HeardAt
  <2> QED
    BY <2>1, <2>2, Zenon
<1>4. ASSUME NEW i \in Sockets, Unenroll(i) PROVE Bounds'
  BY <1>0, <1>4, RemoveBounds, Zenon DEF Unenroll
<1>5. ASSUME NEW i \in Sockets, ActiveFresh(i) PROVE Bounds'
  <2>1. i \in Items /\ timeout[i] \in Msecs /\ insert(i, timeout[i])
        /\ UNCHANGED <<now, pending, joined, ranAt>>
    BY <1>0, <1>5, Zenon DEF ActiveFresh
  <2> QED
    BY <2>1, InsertBounds, Zenon
<1>6. ASSUME NEW i \in Sockets, ActiveAgain(i) PROVE Bounds'
  <2> DEFINE n == timeout[i]
  <2>1. /\ i \in Items /\ n \in Msecs /\ list' = L_append(list, n, i) /\ MarkActive(i)
        /\ joined' = IF L_isEmpty(list, n) THEN joined \cup {n} ELSE joined
        /\ UNCHANGED <<now, watcher, pending, ranAt, skew>>
    BY <1>0, <1>6, Zenon DEF ActiveAgain
  <2> HIDE DEF n
  <2> SUFFICES ASSUME NEW m \in Msecs \ joined', list'[m] # << >> PROVE Bound(m)'
    BY Zenon DEF Bounds
  <2>2. Head(list'[m]) \in Items /\ HeadLater(m)
    BY <2>1, AppendHead, Zenon DEF L_isEmpty
  <2>3. touched'[Head(list'[m])] \in Nat
    <3>1. touched \in [Items -> Nat]
      BY <1>0 DEF IInv, TypeOK
    <3>2. touched' = [touched EXCEPT ![i] = now]
      BY <2>1, Zenon DEF MarkActive
    <3> QED
      BY <1>0, <3>1, <3>2, <2>2, Zenon
  <2>4. Head(list[m]) \in Items /\ Bound(m)
    <3>1. list[m] # << >> /\ m \in Msecs /\ m \notin joined
      BY <2>1, <2>2, Zenon DEF HeadLater
    <3>2. list[m] \in Seq(Items)
      BY <3>1, Zenon DEF IInv, TypeOK
    <3>3. Bound(m)
      BY <3>1, Zenon DEF Bounds
    <3> QED
      BY <3>1, <3>2, <3>3, SMTT(30)
  <2>5. HeardAt(m)' \in Nat /\ HeardAt(m) <= HeardAt(m)'
    <3>1. HeardAt(m)' = HeardAt(m)
      BY <2>1, Zenon DEF HeardAt
    <3>2. HeardAt(m) \in Nat
      BY <1>0, Zenon DEF HeardAt
    <3> QED
      BY <3>1, <3>2
  <2> QED
    BY <2>1, <2>2, <2>3, <2>4, <2>5, KeepBound, Zenon
<1>7. ASSUME NEW i \in Sockets, ActiveThrows(i) PROVE Bounds'
  BY <1>7, Zenon DEF ActiveThrows, Bounds, Bound, HeardAt
<1>8. ASSUME NEW t \in RawTimers, StopRaw(t) \/ \E a, r : StartRaw(t, a, r) PROVE Bounds'
  <2>1. /\ UNCHANGED <<list, touched, joined, skew, now, ranAt>>
        /\ \A m \in Msecs : watcher'[m] = watcher[m] /\ (m \in pending' <=> m \in pending)
    BY <1>0, <1>8, Zenon DEF StopRaw, StartRaw, itemVars
  <2>2. \A m \in Msecs : HeardAt(m)' \in Nat /\ HeardAt(m) <= HeardAt(m)'
    BY <1>0, <2>1 DEF HeardAt
  <2> QED
    BY <2>1, <2>2, SameBounds, Zenon
<1> QED
  BY <1>0, <1>1, <1>2, <1>3, <1>4, <1>5, <1>6, <1>7, <1>8, Zenon DEF DomCalls, SocketCalls, RawCalls

LEMMA LoopBounds ==
  ASSUME IInv, ListsOK, Bounds, Tick \/ LoopSteps \/ ThrowFromList
  PROVE  Bounds'
<1>0. /\ now \in Nat /\ ranAt \in [Msecs -> 0..now] /\ evNow \in 0..now /\ cbNow \in 0..now
      /\ watcher \in [Watchers -> WatcherType] /\ Msecs \subseteq Watchers /\ Msecs \subseteq Nat
      /\ \A m \in Msecs : m \notin RawTimers
      /\ list \in [Msecs -> Seq(Items)] /\ touched \in [Items -> 0..now]
  BY TimeAssumption, IdentityAssumption DEF IInv, TypeOK, Watchers
<1>1. ASSUME UNCHANGED <<list, touched, joined, skew>>, now' \in Nat, now <= now',
             \A m \in Msecs : /\ list[m] # << >> => watcher'[m] = watcher[m]
                             /\ \/ (m \in pending' <=> m \in pending) /\ ranAt'[m] = ranAt[m]
                                \/ m \notin pending' /\ ranAt'[m] = now
      PROVE  Bounds'
  <2>1. \A m \in Msecs : HeardAt(m)' \in Nat /\ HeardAt(m) <= HeardAt(m)'
    BY <1>0, <1>1 DEF HeardAt
  <2> QED
    BY <1>1, <2>1, SameBounds, Zenon
<1>2. ASSUME Tick PROVE Bounds'
  BY <1>0, <1>1, <1>2 DEF Tick, itemVars
<1>3. ASSUME Reify PROVE Bounds'
  <2> DEFINE due == {w \in Watchers : watcher[w].active /\ watcher[w].at < now}
  <2>1. /\ pending = {} /\ pending' = due
        /\ watcher' = [w \in Watchers |-> IF w \in due THEN Rearmed(watcher[w], now)
                                                       ELSE watcher[w]]
        /\ UNCHANGED <<now, list, touched, joined, skew, ranAt>>
    BY <1>3, Zenon DEF Reify, itemVars
  <2> SUFFICES ASSUME NEW m \in Msecs \ joined, list[m] # << >> PROVE Bound(m)'
    BY <2>1, Zenon DEF Bounds
  <2>2. /\ Head(list[m]) \in Items /\ touched[Head(list[m])] \in Nat /\ Bound(m)
        /\ skew[m] \in Nat /\ watcher[m] \in WatcherType
    BY <1>0 DEF Bounds, IInv, TypeOK
  <2>3. CASE m \in due
    <3>1. watcher[m].at < now /\ watcher[m].repeat > 0
      BY <2>3, Zenon DEF IInv, WatchersOK, ListOK
    <3>2. watcher'[m] = Rearmed(watcher[m], now) /\ m \in pending'
      BY <1>0, <2>1, <2>3, Zenon
    <3>3. /\ watcher'[m].at = LaterOf(watcher[m].at + watcher[m].repeat, now)
          /\ watcher'[m].repeat = watcher[m].repeat
      <4> DEFINE w == watcher[m]
      <4>1. Rearmed(w, now) = [active |-> TRUE, at |-> LaterOf(w.at + w.repeat, now),
                               repeat |-> w.repeat, refs |-> w.refs]
        BY <3>1, Zenon DEF Rearmed
      <4> HIDE DEF w
      <4>2. /\ Rearmed(w, now).at = LaterOf(w.at + w.repeat, now)
            /\ Rearmed(w, now).repeat = w.repeat
        BY <4>1, SMTT(30)
      <4> QED
        BY <3>2, <4>2, Zenon DEF w
    <3>4. HeardAt(m)' = now
      BY <2>1, <3>2, Zenon DEF HeardAt
    <3>5. watcher[m].at \in Nat /\ watcher[m].repeat \in Nat
      BY <2>2, Zenon DEF WatcherType
    <3>6. LaterOf(watcher[m].at + watcher[m].repeat, now)
             <= LaterOf(touched[Head(list[m])] + m + skew[m], now + watcher[m].repeat)
      <4>1. touched[Head(list[m])] + m + skew[m] \in Nat
        BY <1>0, <2>2
      <4> QED
        BY <1>0, <3>1, <3>5, <4>1, RearmedBound, Zenon
    <3> QED
      BY <2>1, <3>3, <3>4, <3>6, Zenon DEF Bound
  <2>4. CASE m \notin due
    <3>1. watcher'[m] = watcher[m] /\ m \notin pending'
      BY <1>0, <2>1, <2>4, Zenon
    <3> QED
      BY <2>1, <2>2, <3>1, Zenon DEF Bound, HeardAt
  <2> QED
    BY <2>3, <2>4, Zenon
<1>4. ASSUME NEW m \in Msecs, InvokeList(m) PROVE Bounds'
  <2>1. /\ UNCHANGED <<list, touched, joined, skew, now, watcher>> /\ pending' = pending \ {m}
        /\ ranAt' = [ranAt EXCEPT ![m] = now]
    BY <1>4, Zenon DEF InvokeList, itemVars
  <2> QED
    BY <1>0, <1>1, <2>1
<1>5. ASSUME LoopWait PROVE Bounds'
  <2> DEFINE i == Head(list[cur])
             rep == cur - (cbNow - start[i])
  <2>1. /\ cur \in Msecs /\ list[cur] # << >>
        /\ watcher' = [watcher EXCEPT ![cur] = EvAgain(watcher[cur], rep)]
        /\ skew' = [skew EXCEPT ![cur] = LaterOf(evNow - cbNow, 0)]
        /\ ~(cbNow - start[i] + 1 < cur) => FALSE
        /\ UNCHANGED <<now, list, touched, joined, pending, ranAt>>
    BY <1>5, Zenon DEF LoopWait, itemVars, L_isEmpty, IInv, TypeOK, Diff, Due
  <2>2. i \in Items /\ start[i] = touched[i] /\ touched[i] \in Nat
    <3>1. list[cur] \in Seq(Items) /\ Tidy(cur, list[cur], timeout, link, start, touched)
      BY <1>0, <2>1, Zenon DEF ListsOK, AllTidy
    <3>2. 1 \in 1..Len(list[cur]) /\ i = list[cur][1] /\ i \in Items
      <4> DEFINE s == list[cur]
      <4>1. s \in Seq(Items) /\ s # << >>
        BY <2>1, <3>1, Zenon
      <4> HIDE DEF s
      <4>2. 1 \in 1..Len(s) /\ Head(s) = s[1] /\ s[1] \in Items
        BY <4>1
      <4> QED
        BY <4>2, Zenon DEF s
    <3> QED
      BY <1>0, <3>1, <3>2 DEF Tidy
  <2> SUFFICES ASSUME NEW m \in Msecs \ joined, list[m] # << >> PROVE Bound(m)'
    BY <2>1, Zenon DEF Bounds
  <2>3. HeardAt(m)' = HeardAt(m) /\ HeardAt(m) \in Nat
    BY <1>0, <2>1 DEF HeardAt
  <2>4. CASE m = cur
    <3>1. watcher'[m].at = evNow + rep /\ watcher'[m].repeat = rep
          /\ skew'[m] = LaterOf(evNow - cbNow, 0)
      <4>1. watcher'[m] = EvAgain(watcher[cur], rep)
        BY <1>0, <2>1, <2>4, Zenon
      <4>2. skew'[m] = LaterOf(evNow - cbNow, 0)
        BY <2>1, <2>4, Zenon DEF IInv, TypeOK
      <4> HIDE DEF rep
      <4> QED
        BY <4>1, <4>2 DEF EvAgain
    <3> DEFINE h == HeardAt(m)'
    <3>2. h \in Nat /\ m \in Nat
      BY <1>0, <2>3, Zenon
    <3> HIDE DEF h, i
    <3>3. evNow + rep <= LaterOf(touched[i] + m + LaterOf(evNow - cbNow, 0), h + rep)
      <4>1. evNow \in Nat /\ cbNow \in Nat
        BY <1>0
      <4>2. rep = m - (cbNow - touched[i])
        BY <2>2, <2>4, Zenon
      <4> HIDE DEF rep
      <4> QED
        BY <2>2, <3>2, <4>1, <4>2, WaitBound, Zenon
    <3> HIDE DEF rep
    <3> QED
      BY <2>1, <2>4, <3>1, <3>3, Zenon DEF Bound, h, i
  <2>5. CASE m # cur
    <3>1. watcher'[m] = watcher[m] /\ skew'[m] = skew[m]
      BY <1>0, <2>1, <2>5, Zenon DEF IInv, TypeOK
    <3>2. Bound(m)
      BY Zenon DEF Bounds
    <3> HIDE DEF rep, i
    <3> QED
      BY <2>1, <2>3, <3>1, <3>2, Zenon DEF Bound
  <2> QED
    BY <2>4, <2>5, Zenon
<1>6. ASSUME LoopExpire PROVE Bounds'
  <2> DEFINE i == Head(list[cur])
  <2>1. /\ i \in Items /\ list' = L_remove(list, i)
        /\ UNCHANGED <<now, touched, joined, ranAt, skew, watcher, pending>>
    BY <1>0, <1>6 DEF LoopExpire, L_isEmpty, IInv, TypeOK
  <2> HIDE DEF i
  <2> QED
    BY <2>1, RemoveBounds, Zenon
<1>7. ASSUME LoopDone PROVE Bounds'
  <2>1. /\ UNCHANGED <<list, touched, joined, skew, now, pending, ranAt>>
        /\ \A m \in Msecs : list[m] # << >> => watcher'[m] = watcher[m]
    BY <1>0, <1>7, Zenon DEF LoopDone, itemVars, L_isEmpty
  <2> QED
    BY <1>0, <1>1, <2>1
<1>8. ASSUME NEW t \in RawTimers, InvokeRaw(t) PROVE Bounds'
  <2>1. /\ UNCHANGED <<list, touched, joined, skew, now, ranAt>>
        /\ \A m \in Msecs : watcher'[m] = watcher[m] /\ (m \in pending' <=> m \in pending)
    BY <1>0, <1>8, Zenon DEF InvokeRaw, itemVars
  <2> QED
    BY <1>0, <1>1, <2>1
<1>9. ASSUME ReturnToList \/ ThrowFromList PROVE Bounds'
  BY <1>9, Zenon DEF ReturnToList, ThrowFromList, itemVars, Bounds, Bound, HeardAt
<1>10. ASSUME FinishRaw PROVE Bounds'
  <2>1. /\ UNCHANGED <<list, touched, joined, skew, now, ranAt, pending>>
        /\ \A m \in Msecs : watcher'[m] = watcher[m]
    BY <1>0, <1>10, Zenon DEF FinishRaw, OneShot, itemVars
  <2> QED
    BY <1>0, <1>1, <2>1
<1> QED
  BY <1>2, <1>3, <1>4, <1>5, <1>6, <1>7, <1>8, <1>9, <1>10, Zenon DEF LoopSteps

\* The watcher of a list goes off no later than the timeout of its most idle item, but for
\* a callback that set it from a libev time ahead of its own and one that an exception cut
\* short: the head of a list only gives way to an item that was active later, and every
\* step that sets the watcher sets it for the head.
THEOREM AlwaysOnTime == Spec => []OnTime
<1>1. Init => Bounds
  BY Zenon DEF Init, Bounds
<1>2. IInv /\ ListsOK /\ Bounds /\ [Next]_vars => Bounds'
  <2> SUFFICES ASSUME IInv, ListsOK, Bounds, [Next]_vars PROVE Bounds'
    OBVIOUS
  <2>1. CASE UNCHANGED vars
    BY <2>1, Zenon DEF vars, Bounds, Bound, HeardAt
  <2>2. CASE Next
    BY <2>2, CallsBounds, LoopBounds, Zenon DEF Next
  <2> QED
    BY <2>1, <2>2, Zenon
<1>3. Bounds => OnTime
  BY Zenon DEF Bounds, Bound, HeardAt, OnTime
<1> QED
  BY <1>1, <1>2, <1>3, ListsInvariance, PTL DEF Spec
=============================================================================
