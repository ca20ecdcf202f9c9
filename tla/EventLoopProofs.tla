--------------------------- MODULE EventLoopProofs ---------------------------
(***************************************************************************)
(* For any requests, workers and bounds, the main loop loses no tick and no *)
(* result and counts its references exactly.                                *)
(***************************************************************************)
EXTENDS EventLoop, FiniteSetTheorems, TLAPS

\* A tick has been asked for.
Sched == need_tick_cb /\ "tick_spinner" \in ev.idle

\* Where a running _tickCallback stands in the queue.  Ticks are named by the order of
\* the calls, so the queue holds the last Len(nextTickQueue) names; those that ran are
\* the ones before them and, while a _tickCallback is running, the first tickI of them.
TickInv ==
  /\ nextTickQueue \in Seq(Nat) /\ ran \in Seq(Nat)
  /\ ticked \in Nat /\ tickI \in Nat /\ tickL \in Nat
  /\ phase = "load" => js # "tick"
  /\ js = "tick" => /\ 1 <= tickI /\ tickI <= tickL /\ tickL <= Len(nextTickQueue)
                    /\ Len(nextTickQueue) > tickL => Sched
  /\ js # "tick" => tickI = 0 /\ (nextTickQueue # << >> => Sched)
  /\ Len(ran) + Len(nextTickQueue) = ticked + tickI
  /\ \A k \in 1..Len(nextTickQueue) :
        nextTickQueue[k] + Len(nextTickQueue) = ticked + k
  /\ \A k \in 1..Len(ran) : ran[k] = k

\* Steps that leave the ticks alone.
LEMMA TickKept ==
  ASSUME TickInv, UNCHANGED tickVars, js' = "tick" <=> js = "tick",
         phase' = "load" => phase = "load",
         "tick_spinner" \in ev.idle => "tick_spinner" \in ev'.idle
  PROVE  TickInv'
<1>1. Sched => Sched'
  BY Zenon DEF Sched, tickVars
<1> QED
  BY <1>1, Zenon DEF TickInv, tickVars

\* Watchers other than the spinner.
LEMMA SpinnerKept ==
  ASSUME NEW L, NEW w, w # "tick_spinner"
  PROVE  /\ "tick_spinner" \in ev_idle_start(L, w).idle <=> "tick_spinner" \in L.idle
         /\ "tick_spinner" \in ev_idle_stop(L, w).idle <=> "tick_spinner" \in L.idle
BY Zenon DEF ev_idle_start, ev_idle_stop

\* Tick() on a loop with the same idle watchers.
LEMMA TickTicks ==
  ASSUME TickInv, NEW STATE L, L.idle = ev.idle, Tick(L), js = "none", phase' # "load",
         nextTickQueue' = nextTickQueue, ticked' = ticked
  PROVE  TickInv'
<1>1. CASE ~need_tick_cb
  <2>1. ev' = L /\ UNCHANGED tickVars /\ js' = js
    BY <1>1, Zenon DEF Tick, tickVars
  <2> QED
    BY <2>1, TickKept, Zenon
<1>2. CASE need_tick_cb /\ nextTickQueue = << >>
  <2>1. tickI' = tickI /\ tickL' = tickL /\ js' = js /\ ran' = ran
    BY <1>2, Zenon DEF Tick
  <2> QED
    BY <1>2, <2>1, Zenon DEF TickInv
<1>3. CASE need_tick_cb /\ nextTickQueue # << >>
  <2>1. /\ tickI' = 1 /\ tickL' = Len(nextTickQueue) /\ js' = "tick"
        /\ ran' = Append(ran, nextTickQueue[1])
    BY <1>3, Zenon DEF Tick
  <2>2. /\ nextTickQueue \in Seq(Nat) /\ ran \in Seq(Nat) /\ ticked \in Nat
        /\ \A k \in 1..Len(ran) : ran[k] = k
        /\ \A k \in 1..Len(nextTickQueue) :
              nextTickQueue[k] + Len(nextTickQueue) = ticked + k
    BY Zenon DEF TickInv
  <2>3. /\ Len(nextTickQueue) \in Nat /\ Len(nextTickQueue) >= 1 /\ Len(ran) \in Nat
        /\ Len(ran) + Len(nextTickQueue) = ticked
        /\ nextTickQueue[1] + Len(nextTickQueue) = ticked + 1 /\ nextTickQueue[1] \in Nat
    BY <1>3 DEF TickInv
  <2>4. nextTickQueue[1] = Len(ran) + 1
    BY <2>2, <2>3
  <2>5. ran' \in Seq(Nat) /\ Len(ran') = Len(ran) + 1
    BY <2>1, <2>2, <2>4
  <2>6. \A k \in 1..Len(ran') : ran'[k] = k
    BY <2>1, <2>2, <2>3, <2>4, <2>5
  <2>7. Len(ran') + Len(nextTickQueue) = ticked + 1
    BY <2>3, <2>5
  <2> QED
    BY <2>1, <2>2, <2>3, <2>5, <2>6, <2>7 DEF TickInv
<1> QED
  BY <1>1, <1>2, <1>3, Zenon

-----------------------------------------------------------------------------
\* Initially there are no ticks.
LEMMA InitTick == Init => TickInv
BY DEF Init, TickInv

\* process.nextTick() adds a tick behind the others and asks for it.
LEMMA NextTickTick == TickInv /\ NextTick => TickInv'
<1> SUFFICES ASSUME TickInv, NextTick PROVE TickInv'
  OBVIOUS
<1>1. /\ nextTickQueue \in Seq(Nat)
      /\ ticked' = ticked + 1 /\ nextTickQueue' = Append(nextTickQueue, ticked')
  BY Zenon DEF TickInv, NextTick
<1>2. ticked \in Nat /\ ticked' \in Nat /\ Len(nextTickQueue) \in Nat /\ Len(ran) \in Nat
      /\ tickI \in Nat
  BY DEF TickInv, NextTick
<1>3. UNCHANGED <<tickI, tickL, js, phase, ran>>
  BY Zenon DEF NextTick
<1>4. Sched'
  BY Zenon DEF NextTick, Sched, NeedTickCallback, ev_idle_start
<1>5. Len(nextTickQueue') = Len(nextTickQueue) + 1
  BY <1>1
<1>6. nextTickQueue' \in Seq(Nat) /\ nextTickQueue' # << >>
  BY <1>1, <1>2
<1>7. ASSUME NEW k \in 1..Len(nextTickQueue')
      PROVE  nextTickQueue'[k] + Len(nextTickQueue') = ticked' + k
  <2>1. CASE k = Len(nextTickQueue')
    <3>1. nextTickQueue'[k] = ticked'
      BY <1>1, <1>5, <2>1
    <3> QED
      BY <1>2, <1>5, <2>1, <3>1, Zenon
  <2>2. CASE k # Len(nextTickQueue')
    <3>1. k \in 1..Len(nextTickQueue)
      BY <1>2, <1>5, <2>2
    <3>2. nextTickQueue'[k] = nextTickQueue[k] /\ nextTickQueue[k] \in Nat
      BY <1>1, <3>1
    <3>3. nextTickQueue[k] + Len(nextTickQueue) = ticked + k
      BY <3>1, Zenon DEF TickInv
    <3>4. ticked' = ticked + 1
      BY <1>1, Zenon
    <3> QED
      BY <1>2, <1>5, <3>2, <3>3, <3>4
  <2> QED
    BY <2>1, <2>2, Zenon
<1>8. Len(ran) + Len(nextTickQueue') = ticked' + tickI
  <2>1. Len(ran) + Len(nextTickQueue) = ticked + tickI
    BY Zenon DEF TickInv
  <2>2. ticked' = ticked + 1
    BY <1>1, Zenon
  <2> QED
    BY <1>2, <1>5, <2>1, <2>2
<1>9. tickL <= Len(nextTickQueue) => tickL <= Len(nextTickQueue')
  <2>1. tickL \in Nat
    BY Zenon DEF TickInv
  <2> QED
    BY <1>2, <1>5, <2>1
<1> QED
  BY <1>2, <1>3, <1>4, <1>6, <1>7, <1>8, <1>9, Zenon DEF TickInv

\* The rest of the queue once the first n ticks of it have run and are dropped.
Drops(n) ==
  /\ nextTickQueue' = SubSeq(nextTickQueue, n + 1, Len(nextTickQueue))
  /\ tickI' = 0 /\ tickL' = 0 /\ ticked' = ticked /\ ran' = ran

\* _tickCallback is left, normally or by an exception, after tickI ticks.
LEMMA DropTicks ==
  ASSUME TickInv, tickI <= Len(nextTickQueue), Drops(tickI),
         js' # "tick", Len(nextTickQueue) > tickI => Sched'
  PROVE  TickInv'
<1>1. /\ Len(nextTickQueue) \in Nat /\ tickI \in Nat /\ ticked \in Nat /\ Len(ran) \in Nat
      /\ Len(ran) + Len(nextTickQueue) = ticked + tickI
  BY DEF TickInv
<1>2. /\ nextTickQueue' = SubSeq(nextTickQueue, tickI + 1, Len(nextTickQueue))
      /\ nextTickQueue \in Seq(Nat)
  BY Zenon DEF TickInv, Drops
<1>3. /\ nextTickQueue' \in Seq(Nat) /\ Len(nextTickQueue') = Len(nextTickQueue) - tickI
      /\ \A k \in 1..Len(nextTickQueue') : nextTickQueue'[k] = nextTickQueue[tickI + k]
  BY <1>1, <1>2
<1>4. Len(nextTickQueue') = Len(nextTickQueue) - tickI
  BY <1>3, Zenon
<1>5. Len(ran) + Len(nextTickQueue') = ticked
  BY <1>1, <1>4
<1>6. ASSUME NEW k \in 1..Len(nextTickQueue')
      PROVE  nextTickQueue'[k] + Len(nextTickQueue') = ticked + k
  <2>1. tickI + k \in 1..Len(nextTickQueue)
    BY <1>1, <1>4
  <2>2. nextTickQueue[tickI + k] + Len(nextTickQueue) = ticked + (tickI + k)
    BY <2>1, Zenon DEF TickInv
  <2>3. nextTickQueue'[k] = nextTickQueue[tickI + k] /\ nextTickQueue[tickI + k] \in Nat
    BY <1>2, <1>3, <2>1
  <2> DEFINE x == nextTickQueue[tickI + k]
             m == Len(nextTickQueue')
             n == Len(nextTickQueue)
  <2>4. /\ x \in Nat /\ n \in Nat /\ tickI \in Nat /\ ticked \in Nat /\ k \in Int
        /\ m = n - tickI /\ x + n = ticked + (tickI + k)
    BY <1>1, <1>4, <2>2, <2>3
  <2>5. nextTickQueue'[k] + Len(nextTickQueue') = x + m
    BY <2>3, Zenon
  <2> HIDE DEF x, m, n
  <2>6. x + m = ticked + k
    BY <2>4
  <2> QED
    BY <2>5, <2>6, Zenon
<1>7. nextTickQueue' # << >> => Sched'
  <2>1. Len(nextTickQueue') = 0 => nextTickQueue' = << >>
    BY <1>3
  <2> QED
    BY <1>1, <1>4, <2>1
<1>8. nextTickQueue' \in Seq(Nat)
  BY <1>3, Zenon
<1>9. tickI' = 0 /\ tickL' = 0 /\ ticked' = ticked /\ ran' = ran
  BY Zenon DEF Drops
<1> QED
  BY <1>1, <1>5, <1>6, <1>7, <1>8, <1>9 DEF TickInv

\* The loop of _tickCallback goes on, or ends.
LEMMA TickReturnTick == TickInv /\ TickReturn => TickInv'
<1> SUFFICES ASSUME TickInv, TickReturn PROVE TickInv'
  OBVIOUS
<1>1. /\ ticked \in Nat /\ Len(nextTickQueue) \in Nat
      /\ Len(ran) \in Nat /\ tickI \in Nat /\ tickL \in Nat
      /\ 1 <= tickI /\ tickI <= tickL /\ tickL <= Len(nextTickQueue)
      /\ Len(ran) + Len(nextTickQueue) = ticked + tickI
  BY DEF TickInv, TickReturn
<1>2. /\ js = "tick" /\ UNCHANGED <<need_tick_cb, ticked, ev, phase>> /\ phase # "load"
      /\ Len(nextTickQueue) > tickL => Sched
      /\ nextTickQueue \in Seq(Nat) /\ ran \in Seq(Nat)
  BY Zenon DEF TickInv, TickReturn
<1>3. Sched' <=> Sched
  BY <1>2, Zenon DEF Sched
<1>4. CASE tickI < tickL
  <2>1. /\ tickI' = tickI + 1 /\ ran' = Append(ran, nextTickQueue[tickI + 1])
        /\ nextTickQueue' = nextTickQueue /\ tickL' = tickL /\ js' = js
    BY <1>4, Zenon DEF TickReturn
  <2>2. tickI + 1 \in 1..Len(nextTickQueue)
    BY <1>1, <1>4
  <2>3. nextTickQueue[tickI + 1] + Len(nextTickQueue) = ticked + (tickI + 1)
    BY <2>2, Zenon DEF TickInv
  <2>4. nextTickQueue[tickI + 1] \in Nat
    BY <1>2, <2>2
  <2>5. nextTickQueue[tickI + 1] = Len(ran) + 1
    BY <1>1, <2>3, <2>4
  <2>6. ran' \in Seq(Nat) /\ Len(ran') = Len(ran) + 1
    BY <1>2, <2>1, <2>4
  <2>7. \A k \in 1..Len(ran) : ran[k] = k
    BY Zenon DEF TickInv
  <2>8. \A k \in 1..Len(ran') : ran'[k] = k
    BY <1>2, <2>1, <2>5, <2>6, <2>7
  <2>9. Len(ran') = Len(ran) + 1 /\ tickI' = tickI + 1
    BY <2>1, <2>6, Zenon
  <2>10. Len(ran') + Len(nextTickQueue) = ticked + tickI' /\ tickI' \in Nat
         /\ 1 <= tickI' /\ tickI' <= tickL
    BY <1>1, <1>4, <2>9
  <2>11. nextTickQueue' = nextTickQueue /\ tickL' = tickL /\ js' = js /\ ran' \in Seq(Nat)
    BY <2>1, <2>6, Zenon
  <2> QED
    BY <1>1, <1>2, <1>3, <2>8, <2>10, <2>11, Zenon DEF TickInv
<1>5. CASE ~(tickI < tickL)
  <2>1. tickL = tickI
    BY <1>1, <1>5
  <2>2. js' = "none" /\ Drops(tickI)
    BY <1>2, <1>5, <2>1, Zenon DEF TickReturn, Drops
  <2> QED
    BY <1>1, <1>2, <1>3, <2>1, <2>2, DropTicks, Zenon
<1> QED
  BY <1>4, <1>5, Zenon

\* The handler of _tickCallback asks for the ticks it leaves behind.
LEMMA TickThrowTick == TickInv /\ TickThrow => TickInv'
<1> SUFFICES ASSUME TickInv, TickThrow PROVE TickInv'
  OBVIOUS
<1>1. /\ tickI \in Nat /\ tickL \in Nat /\ Len(nextTickQueue) \in Nat
      /\ 1 <= tickI /\ tickI <= tickL /\ tickL <= Len(nextTickQueue)
      /\ Len(nextTickQueue) > tickL => Sched
  BY DEF TickInv, TickThrow
<1>2. Drops(tickI)
  BY Zenon DEF TickThrow, Kept, Drops
<1>3. js' # "tick"
  BY Zenon DEF TickThrow, Fatal
<1>4. Len(nextTickQueue) > tickI => Sched'
  <2>1. CASE MoreTicks
    BY <2>1 DEF TickThrow, Sched, NeedTickCallback, ev_idle_start
  <2>2. CASE ~MoreTicks
    <3>1. need_tick_cb' = need_tick_cb /\ ev' = ev
      BY <2>2, Zenon DEF TickThrow
    <3>2. Sched => Sched'
      BY <3>1, Zenon DEF Sched
    <3>3. tickL = tickI
      BY <1>1, <2>2 DEF MoreTicks
    <3> QED
      BY <1>1, <3>2, <3>3, Zenon
  <2> QED
    BY <2>1, <2>2, Zenon
<1> QED
  BY <1>1, <1>2, <1>3, <1>4, DropTicks

\* Every step keeps TickInv.
LEMMA StepTick == TickInv /\ [Next]_vars => TickInv'
<1> SUFFICES ASSUME TickInv, [Next]_vars PROVE TickInv'
  OBVIOUS
<1>1. ASSUME NEW r, Submit(r) PROVE TickInv'
  <2>1. UNCHANGED tickVars /\ js' = js /\ phase' = phase /\ ev'.idle = ev.idle
    BY <1>1, Zenon DEF Submit, KeepAlive, ev_ref
  <2> QED
    BY <2>1, TickKept, Zenon
<1>2. CASE WatchIo \/ UnwatchIo
  <2>1. UNCHANGED tickVars /\ js' = js /\ phase' = phase /\ ev'.idle = ev.idle
    BY <1>2 DEF WatchIo, UnwatchIo, ev_ref
  <2> QED
    BY <2>1, TickKept, Zenon
<1>3. CASE EnterLoop
  <2>1. /\ UNCHANGED tickVars /\ phase = "load" /\ js' = "none" /\ phase' = "prepare"
        /\ ev' = ev_idle_start(ev, "eio_poller")
    BY <1>3, Zenon DEF EnterLoop
  <2>2. js # "tick"
    BY <2>1, Zenon DEF TickInv
  <2> QED
    BY <2>1, <2>2, TickKept, SpinnerKept, Zenon
<1>4. CASE PrepareTick
  <2>1. /\ Tick(ev) /\ js = "none" /\ phase' # "load" /\ nextTickQueue' = nextTickQueue
        /\ ticked' = ticked
    BY <1>4, Zenon DEF PrepareTick
  <2> QED
    BY <2>1, TickTicks, Zenon
<1>5. CASE CheckTick
  <2>1. /\ Tick(Popped("check_tick")) /\ js = "none" /\ phase' # "load"
        /\ nextTickQueue' = nextTickQueue /\ ticked' = ticked
        /\ Popped("check_tick").idle = ev.idle
    BY <1>5, Zenon DEF CheckTick, Invoked, Popped
  <2> QED
    BY <2>1, TickTicks, Zenon
<1>6. CASE Poll
  <2>1. UNCHANGED tickVars /\ js' = js /\ phase' = "invoke" /\ ev'.idle = ev.idle
    BY <1>6 DEF Poll
  <2> QED
    BY <2>1, TickKept, Zenon
<1>7. CASE Iterate
  <2>1. UNCHANGED tickVars /\ js' = js /\ phase' # "load" /\ ev' = ev
    BY <1>7, Zenon DEF Iterate
  <2> QED
    BY <2>1, TickKept, Zenon
<1>8. CASE Check \/ CheckStatus \/ Idle
  <2>1. /\ UNCHANGED tickVars /\ js' = js /\ phase' = phase
        /\ \E w \in {"gc_check", "gc_timer", "gc_idle"} :
             ev' \in {Popped(w), ev_idle_start(Popped(w), "gc_idle"),
                     ev_idle_stop(Popped(w), "gc_idle")}
    BY <1>8, Zenon DEF Check, CheckStatus, Idle
  <2>2. "tick_spinner" \in ev.idle => "tick_spinner" \in ev'.idle
    BY <2>1 DEF ev_idle_start, ev_idle_stop, Popped
  <2> QED
    BY <2>1, <2>2, TickKept, Zenon
<1>9. ASSUME NEW w, StartPoll(w) PROVE TickInv'
  <2>1. UNCHANGED tickVars /\ js' = js /\ phase' = phase /\ ev'.idle = ev.idle
    BY <1>9, Zenon DEF StartPoll, Popped
  <2> QED
    BY <2>1, TickKept, Zenon
<1>10. CASE PollShift
  <2>1. /\ UNCHANGED tickVars /\ js = "none" /\ js' = "after" /\ phase' = phase
        /\ ev'.idle = ev.idle
    BY <1>10, Zenon DEF PollShift, ev_unref
  <2> QED
    BY <2>1, TickKept, Zenon
<1>11. CASE PollEmpty \/ PollLimit
  <2>1. /\ UNCHANGED tickVars /\ js' = js /\ phase' = phase
        /\ ev' \in {ev, ev_idle_start(ev, "eio_poller"), ev_idle_stop(ev, "eio_poller")}
    BY <1>11, Zenon DEF PollEmpty, PollLimit, PolledAll, PolledSome
  <2>2. "tick_spinner" \in ev.idle => "tick_spinner" \in ev'.idle
    BY <2>1 DEF ev_idle_start, ev_idle_stop
  <2> QED
    BY <2>1, <2>2, TickKept, Zenon
<1>12. CASE OnIo
  <2>1. UNCHANGED tickVars /\ js = "none" /\ js' = "io" /\ phase' = phase /\ ev'.idle = ev.idle
    BY <1>12, Zenon DEF OnIo, Invoked, Popped
  <2> QED
    BY <2>1, TickKept, Zenon
<1>13. CASE Return \/ Throw
  <2>1. /\ UNCHANGED tickVars /\ js # "tick" /\ js' # "tick" /\ ev' = ev
        /\ phase' = phase \/ phase' = "dead"
    BY <1>13, Zenon DEF Return, Throw, Fatal
  <2> QED
    BY <2>1, TickKept, Zenon
<1>14. ASSUME NEW w, Work(w) \/ WorkerTimesOut(w) PROVE TickInv'
  <2>1. UNCHANGED <<tickVars, js, phase, ev>>
    BY <1>14, Zenon DEF Work, WorkerTakes, WorkerWaits, WorkerIdles, WorkerFinishes, WorkerTimesOut
  <2> QED
    BY <2>1, TickKept, Zenon
<1>15. CASE Terminated \/ UNCHANGED vars
  <2>1. UNCHANGED <<tickVars, js, phase, ev>>
    BY <1>15, Zenon DEF Terminated, vars, tickVars
  <2> QED
    BY <2>1, TickKept, Zenon
<1> QED
  BY <1>1, <1>2, <1>3, <1>4, <1>5, <1>6, <1>7, <1>8, <1>9, <1>10, <1>11, <1>12, <1>13,
     <1>14, <1>15, NextTickTick, TickReturnTick, TickThrowTick DEF Next, Calls, Main

\* No tick is stranded: when no _tickCallback is running and the queue is not empty, a
\* tick has been asked for and the spinner is active, whatever ticks and other callbacks
\* throw, for any number of ticks.
THEOREM TicksNotStranded == Spec => []TicksScheduled
<1>1. TickInv => TicksScheduled
  BY Zenon DEF TickInv, TicksScheduled, Sched
<1> QED
  BY <1>1, InitTick, StepTick, PTL DEF Spec

\* Every callback given to nextTick runs at most once and in the order of the calls, for
\* any number of ticks.
THEOREM TicksOrdered == Spec => []TicksInOrder
<1>1. TickInv => TicksInOrder
  BY Zenon DEF TickInv, TicksInOrder
<1> QED
  BY <1>1, InitTick, StepTick, PTL DEF Spec

-----------------------------------------------------------------------------
(* The pool.                                                                *)

WorkerStates == {"unborn", "running", "timedwait", "timedout", "wait"}
Jobs == {w \in Workers : job[w] # NoReq}

PoolType ==
  /\ req_queue \in Seq(Reqs) /\ res_queue \in Seq(Reqs) /\ finished \subseteq Reqs
  /\ nreqs \in Nat /\ nready \in Nat /\ npending \in Nat /\ timeouts \in Nat
  /\ worker \in [Workers -> WorkerStates]
  /\ job \in [Workers -> Reqs \cup {NoReq}]
  /\ program \in Programs

PoolInv == PoolType /\ PoolCounted

\* Starting and waking threads changes nothing but what they are doing.
LEMMA ThreadsType ==
  ASSUME worker \in [Workers -> WorkerStates], NEW n, NEW m
  PROVE  /\ \A wk \in Signalled : wk \in [Workers -> WorkerStates]
         /\ \A wk \in [Workers -> WorkerStates] :
               \A x \in MaybeStartThread(wk, n, m) : x \in [Workers -> WorkerStates]
BY Zenon DEF Signalled, MaybeStartThread, Waiting, WorkerStates

\* The workers that have a request can be counted.
LEMMA JobsFinite == IsFiniteSet(Jobs) /\ Cardinality(Jobs) \in Nat
<1>1. Jobs \subseteq Workers /\ IsFiniteSet(Workers)
  BY LoopAssumption, Zenon DEF Jobs
<1> QED
  BY <1>1, FS_Subset, FS_CardinalityType, Zenon

\* Steps that leave the pool alone.
LEMMA PoolKept ==
  ASSUME PoolInv, UNCHANGED <<poolVars, finished, program>>
  PROVE  PoolInv'
BY Zenon DEF PoolInv, PoolType, PoolCounted, poolVars

\* Initially the pool is empty.
LEMMA InitPool == Init => PoolInv
<1> SUFFICES ASSUME Init PROVE PoolInv
  OBVIOUS
<1>1. Jobs = {}
  BY Zenon DEF Init, Jobs
<1>2. Cardinality(Jobs) = 0
  BY <1>1, FS_EmptySet, Zenon
<1>3. PoolType
  BY DEF Init, PoolType, WorkerStates
<1> QED
  BY <1>2, <1>3 DEF Init, PoolInv, PoolCounted, Jobs

\* etp_submit counts a request that waits.
LEMMA SubmitPool ==
  ASSUME PoolInv, NEW r \in program.reqs, Submit(r), program' = program
  PROVE  PoolInv' /\ nreqs' = nreqs + 1
<1>1. r \in Reqs
  BY LoopAssumption, Zenon DEF PoolInv, PoolType
<1>2. worker' \in [Workers -> WorkerStates]
  BY ThreadsType, Zenon DEF Submit, PoolInv, PoolType
<1>3. /\ req_queue' = Append(req_queue, r) /\ nready' = nready + 1 /\ nreqs' = nreqs + 1
      /\ UNCHANGED <<res_queue, npending, job, timeouts, finished>>
  BY Zenon DEF Submit, pollVars
<1>4. req_queue' \in Seq(Reqs) /\ Len(req_queue') = Len(req_queue) + 1
  BY <1>1, <1>3 DEF PoolInv, PoolType
<1>5. PoolType'
  BY <1>2, <1>3, <1>4 DEF PoolInv, PoolType
<1>6. Len(req_queue') = Len(req_queue) + 1 /\ Jobs' = Jobs /\ Cardinality(Jobs) \in Nat
  BY <1>3, <1>4, JobsFinite, Zenon DEF Jobs
<1>7. PoolCounted'
  <2>1. /\ nready = Len(req_queue) /\ npending = Len(res_queue)
        /\ nreqs = nready + npending + Cardinality(Jobs)
        /\ nreqs \in Nat /\ nready \in Nat /\ npending \in Nat
    BY Zenon DEF PoolInv, PoolType, PoolCounted, Jobs
  <2>2. nready' = nready + 1 /\ nreqs' = nreqs + 1 /\ npending' = npending /\ res_queue' = res_queue
    BY <1>3, Zenon
  <2>3. nreqs' = nready' + npending' + Cardinality(Jobs')
    BY <1>6, <2>1, <2>2
  <2> QED
    BY <1>6, <2>1, <2>2, <2>3, Zenon DEF PoolCounted, Jobs
<1> QED
  BY <1>3, <1>5, <1>7, Zenon DEF PoolInv

\* etp_poll takes a result and counts it off.
LEMMA PollShiftPool ==
  ASSUME PoolInv, PollShift, program' = program
  PROVE  PoolInv' /\ nreqs' = nreqs - 1 /\ nreqs >= 1
<1>1. worker' \in [Workers -> WorkerStates]
  BY ThreadsType, Zenon DEF PollShift, PoolInv, PoolType
<1>2. /\ res_queue # << >> /\ res_queue' = Tail(res_queue)
      /\ npending' = npending - 1 /\ nreqs' = nreqs - 1
      /\ finished' = finished \cup {Head(res_queue)}
      /\ UNCHANGED <<req_queue, nready, job, timeouts>>
  BY Zenon DEF PollShift, Uncounted
<1>3. /\ res_queue' \in Seq(Reqs) /\ Len(res_queue') = Len(res_queue) - 1
      /\ Head(res_queue) \in Reqs /\ Len(res_queue) >= 1
  BY <1>2 DEF PoolInv, PoolType
<1>4. /\ Len(res_queue') = Len(res_queue) - 1 /\ Len(res_queue) >= 1
      /\ Jobs' = Jobs /\ Cardinality(Jobs) \in Nat
  BY <1>2, <1>3, JobsFinite, Zenon DEF Jobs
<1>5. /\ nready = Len(req_queue) /\ npending = Len(res_queue)
      /\ nreqs = nready + npending + Cardinality(Jobs)
      /\ nreqs \in Nat /\ nready \in Nat /\ npending \in Nat
  BY Zenon DEF PoolInv, PoolType, PoolCounted, Jobs
<1>6. nready' = nready /\ nreqs' = nreqs - 1 /\ npending' = npending - 1 /\ req_queue' = req_queue
  BY <1>2, Zenon
<1>7. /\ nreqs' = nready' + npending' + Cardinality(Jobs') /\ nreqs >= 1
      /\ nreqs' \in Nat /\ npending' \in Nat /\ npending' = Len(res_queue')
  BY <1>4, <1>5, <1>6
<1>8. PoolType'
  BY <1>1, <1>2, <1>3, <1>7, Zenon DEF PoolInv, PoolType
<1>9. PoolCounted'
  BY <1>5, <1>6, <1>7, Zenon DEF PoolCounted, Jobs
<1> QED
  BY <1>6, <1>7, <1>8, <1>9, Zenon DEF PoolInv

\* A request that a worker takes waits no longer and still counts.
LEMMA WorkerTakesPool ==
  ASSUME PoolInv, NEW w \in Workers, WorkerTakes(w), program' = program
  PROVE  PoolInv'
<1>1. /\ job[w] = NoReq /\ req_queue # << >> /\ req_queue' = Tail(req_queue)
      /\ job' = [job EXCEPT ![w] = Head(req_queue)] /\ nready' = nready - 1
      /\ UNCHANGED <<res_queue, nreqs, npending, worker, timeouts, finished>>
  BY Zenon DEF WorkerTakes, pollVars
<1>2. /\ req_queue' \in Seq(Reqs) /\ Len(req_queue') = Len(req_queue) - 1
      /\ Head(req_queue) \in Reqs /\ Len(req_queue) >= 1
  BY <1>1 DEF PoolInv, PoolType
<1>3. Jobs' = Jobs \cup {w} /\ w \notin Jobs
  BY <1>1, <1>2, LoopAssumption, Zenon DEF PoolInv, PoolType, Jobs
<1>4. /\ Len(req_queue') = Len(req_queue) - 1 /\ Len(req_queue) >= 1
      /\ Cardinality(Jobs') = Cardinality(Jobs) + 1 /\ Cardinality(Jobs) \in Nat
  BY <1>2, <1>3, JobsFinite, FS_AddElement, Zenon
<1>5. /\ nready = Len(req_queue) /\ npending = Len(res_queue)
      /\ nreqs = nready + npending + Cardinality(Jobs)
      /\ nreqs \in Nat /\ nready \in Nat /\ npending \in Nat
  BY Zenon DEF PoolInv, PoolType, PoolCounted, Jobs
<1>6. nready' = nready - 1 /\ nreqs' = nreqs /\ npending' = npending /\ res_queue' = res_queue
  BY <1>1, Zenon
<1>7. /\ nreqs' = nready' + npending' + Cardinality(Jobs')
      /\ nready' \in Nat /\ nready' = Len(req_queue')
  BY <1>4, <1>5, <1>6
<1>8. PoolType'
  BY <1>1, <1>2, <1>7, Zenon DEF PoolInv, PoolType
<1>9. PoolCounted'
  BY <1>5, <1>6, <1>7, Zenon DEF PoolCounted, Jobs
<1> QED
  BY <1>8, <1>9, Zenon DEF PoolInv

\* A result is pending until etp_poll takes it.
LEMMA WorkerFinishesPool ==
  ASSUME PoolInv, NEW w \in Workers, WorkerFinishes(w), program' = program
  PROVE  PoolInv'
<1>1. /\ job[w] # NoReq /\ res_queue' = Append(res_queue, job[w])
      /\ job' = [job EXCEPT ![w] = NoReq] /\ npending' = npending + 1
      /\ UNCHANGED <<req_queue, nreqs, nready, worker, timeouts, finished>>
  BY Zenon DEF WorkerFinishes, pollVars
<1>2. job[w] \in Reqs
  BY <1>1, Zenon DEF PoolInv, PoolType
<1>3. res_queue' \in Seq(Reqs) /\ Len(res_queue') = Len(res_queue) + 1
  BY <1>1, <1>2 DEF PoolInv, PoolType
<1>4. Jobs' = Jobs \ {w} /\ w \in Jobs
  BY <1>1, LoopAssumption, Zenon DEF PoolInv, PoolType, Jobs
<1>5. /\ Len(res_queue') = Len(res_queue) + 1
      /\ Cardinality(Jobs') = Cardinality(Jobs) - 1 /\ Cardinality(Jobs) \in Nat
  BY <1>3, <1>4, JobsFinite, FS_RemoveElement, Zenon
<1>6. /\ nready = Len(req_queue) /\ npending = Len(res_queue)
      /\ nreqs = nready + npending + Cardinality(Jobs)
      /\ nreqs \in Nat /\ nready \in Nat /\ npending \in Nat
  BY Zenon DEF PoolInv, PoolType, PoolCounted, Jobs
<1>7. nready' = nready /\ nreqs' = nreqs /\ npending' = npending + 1 /\ req_queue' = req_queue
  BY <1>1, Zenon
<1>8. /\ nreqs' = nready' + npending' + Cardinality(Jobs')
      /\ npending' \in Nat /\ npending' = Len(res_queue')
  BY <1>5, <1>6, <1>7
<1>9. PoolType'
  BY <1>1, <1>3, <1>8, Zenon DEF PoolInv, PoolType
<1>10. PoolCounted'
  BY <1>6, <1>7, <1>8, Zenon DEF PoolCounted, Jobs
<1> QED
  BY <1>9, <1>10, Zenon DEF PoolInv

\* Steps that change only what the workers are doing.
LEMMA WorkersPool ==
  ASSUME PoolInv, program' = program, worker' \in [Workers -> WorkerStates], timeouts' \in Nat,
         UNCHANGED <<req_queue, res_queue, nreqs, nready, npending, job, finished>>
  PROVE  PoolInv'
BY Zenon DEF PoolInv, PoolType, PoolCounted

\* Every step keeps PoolInv.
LEMMA StepPool == PoolInv /\ [Next]_vars => PoolInv'
<1> SUFFICES ASSUME PoolInv, [Next]_vars PROVE PoolInv'
  OBVIOUS
<1>1. program' = program
  BY Zenon DEF Next, vars
<1>2. CASE NextTick \/ WatchIo \/ UnwatchIo
  BY <1>1, <1>2, PoolKept, Zenon DEF NextTick, WatchIo, UnwatchIo, pollVars
<1>3. ASSUME NEW r \in program.reqs, Submit(r) PROVE PoolInv'
  BY <1>1, <1>3, SubmitPool, Zenon
<1>4. CASE EnterLoop \/ PrepareTick \/ CheckTick \/ Poll \/ Iterate \/ Check \/ Idle \/ CheckStatus
  BY <1>1, <1>4, PoolKept, Zenon
  DEF EnterLoop, PrepareTick, CheckTick, Poll, Iterate, Check, Idle, CheckStatus, pollVars
<1>5. ASSUME NEW w, StartPoll(w) PROVE PoolInv'
  BY <1>1, <1>5, PoolKept, Zenon DEF StartPoll
<1>6. CASE PollLimit \/ OnIo \/ Return \/ TickReturn \/ TickThrow \/ Throw
  BY <1>1, <1>6, PoolKept, Zenon DEF PollLimit, OnIo, Return, TickReturn, TickThrow, Throw, pollVars
<1>7. CASE PollShift
  BY <1>1, <1>7, PollShiftPool, Zenon
<1>8. CASE PollEmpty
  <2>1. worker' \in [Workers -> WorkerStates]
    BY <1>8, ThreadsType, Zenon DEF PollEmpty, PoolInv, PoolType
  <2>2. UNCHANGED <<req_queue, res_queue, nreqs, nready, npending, job, finished, timeouts>>
    BY <1>8, Zenon DEF PollEmpty
  <2>3. timeouts' \in Nat
    BY <2>2, Zenon DEF PoolInv, PoolType
  <2> QED
    BY <1>1, <2>1, <2>2, <2>3, WorkersPool, Zenon
<1>9. ASSUME NEW w \in Workers, Work(w) \/ WorkerTimesOut(w) PROVE PoolInv'
  <2>1. CASE WorkerWaits(w) \/ WorkerIdles(w) \/ WorkerTimesOut(w)
    <3>1. worker' \in [Workers -> WorkerStates] /\ timeouts' \in Nat
      BY <2>1 DEF WorkerWaits, WorkerIdles, WorkerTimesOut, PoolInv, PoolType, WorkerStates
    <3>2. UNCHANGED <<req_queue, res_queue, nreqs, nready, npending, job, finished>>
      BY <2>1, Zenon DEF WorkerWaits, WorkerIdles, WorkerTimesOut, pollVars
    <3> QED
      BY <1>1, <3>1, <3>2, WorkersPool, Zenon
  <2>2. CASE WorkerTakes(w) \/ WorkerFinishes(w)
    BY <1>1, <2>2, WorkerTakesPool, WorkerFinishesPool, Zenon
  <2> QED
    BY <1>9, <2>1, <2>2, Zenon DEF Work
<1>10. CASE Terminated \/ UNCHANGED vars
  BY <1>1, <1>10, PoolKept, Zenon DEF Terminated, vars, poolVars
<1> QED
  BY <1>2, <1>3, <1>4, <1>5, <1>6, <1>7, <1>8, <1>9, <1>10, Zenon DEF Next, Calls, Main

-----------------------------------------------------------------------------
(* References on the loop.                                                  *)

\* A loop with n references besides those of its idle watchers.
EvOK(L, n) ==
  /\ L \in [idle : SUBSET Idles, activecnt : Nat, pending : SUBSET Watchers]
  /\ n \in Nat /\ L.activecnt = Cardinality(L.idle) + n

\* Idle watchers can be counted.
LEMMA IdlesFinite ==
  ASSUME NEW S, S \subseteq Idles
  PROVE  IsFiniteSet(S) /\ Cardinality(S) \in Nat
<1>1. IsFiniteSet({"tick_spinner"} \cup {"eio_poller"} \cup {"gc_idle"})
  BY FS_Singleton, FS_Union, Zenon
<1>2. Idles = {"tick_spinner"} \cup {"eio_poller"} \cup {"gc_idle"}
  BY Zenon DEF Idles
<1> QED
  BY <1>1, <1>2, FS_Subset, FS_CardinalityType, Zenon

\* ev_idle_start takes a reference for the watcher it starts only.
LEMMA IdleStartOK ==
  ASSUME NEW L, NEW n, EvOK(L, n), NEW w \in Idles
  PROVE  EvOK(ev_idle_start(L, w), n)
<1>1. L.idle \subseteq Idles /\ L.pending \subseteq Watchers /\ n \in Nat /\ L.activecnt \in Nat
      /\ L.activecnt = Cardinality(L.idle) + n
  BY Zenon DEF EvOK
<1>2. CASE w \in L.idle
  <2>1. L.idle \cup {w} = L.idle
    BY <1>2, Zenon
  <2> QED
    BY <1>1, <1>2, <2>1, Zenon DEF EvOK, ev_idle_start
<1>3. CASE w \notin L.idle
  <2>1. Cardinality(L.idle \cup {w}) = Cardinality(L.idle) + 1 /\ Cardinality(L.idle) \in Nat
    BY <1>1, <1>3, IdlesFinite, FS_AddElement, Zenon
  <2>2. L.activecnt + 1 = Cardinality(L.idle \cup {w}) + n
    BY <1>1, <2>1
  <2>3. L.idle \cup {w} \subseteq Idles
    BY <1>1, Zenon
  <2> QED
    BY <1>1, <1>3, <2>2, <2>3 DEF EvOK, ev_idle_start
<1> QED
  BY <1>2, <1>3, Zenon

\* ev_idle_stop drops a reference for the watcher it stops only.
LEMMA IdleStopOK ==
  ASSUME NEW L, NEW n, EvOK(L, n), NEW w
  PROVE  EvOK(ev_idle_stop(L, w), n)
<1>1. L.idle \subseteq Idles /\ L.pending \subseteq Watchers /\ n \in Nat /\ L.activecnt \in Nat
      /\ L.activecnt = Cardinality(L.idle) + n
  BY Zenon DEF EvOK
<1>2. L.pending \ {w} \subseteq Watchers /\ L.idle \ {w} \subseteq Idles
  BY <1>1, Zenon
<1>3. CASE w \notin L.idle
  <2>1. L.idle \ {w} = L.idle
    BY <1>3, Zenon
  <2> QED
    BY <1>1, <1>2, <1>3, <2>1, Zenon DEF EvOK, ev_idle_stop
<1>4. CASE w \in L.idle
  <2>1. /\ Cardinality(L.idle \ {w}) = Cardinality(L.idle) - 1
        /\ Cardinality(L.idle \ {w}) \in Nat /\ Cardinality(L.idle) \in Nat
    BY <1>1, <1>2, <1>4, IdlesFinite, FS_RemoveElement, Zenon
  <2>2. L.activecnt - 1 = Cardinality(L.idle \ {w}) + n /\ L.activecnt - 1 \in Nat
    BY <1>1, <2>1
  <2> QED
    BY <1>1, <1>2, <1>4, <2>2, Zenon DEF EvOK, ev_idle_stop
<1> QED
  BY <1>3, <1>4, Zenon

\* A reference more.
LEMMA RefOK ==
  ASSUME NEW L, NEW n, EvOK(L, n)
  PROVE  EvOK([idle |-> L.idle, activecnt |-> L.activecnt + 1, pending |-> L.pending], n + 1)
<1>1. L.idle \subseteq Idles /\ n \in Nat /\ L.activecnt = Cardinality(L.idle) + n
      /\ Cardinality(L.idle) \in Nat
  BY IdlesFinite, Zenon DEF EvOK
<1>2. L.activecnt + 1 = Cardinality(L.idle) + (n + 1) /\ L.activecnt + 1 \in Nat
  BY <1>1
<1> QED
  BY <1>1, <1>2 DEF EvOK

\* A reference less, and other pending watchers.
LEMMA UnrefOK ==
  ASSUME NEW L, NEW n, EvOK(L, n), n - 1 \in Nat, NEW P, P \subseteq Watchers
  PROVE  EvOK([idle |-> L.idle, activecnt |-> L.activecnt - 1, pending |-> P], n - 1)
<1>1. L.idle \subseteq Idles /\ n \in Nat /\ L.activecnt = Cardinality(L.idle) + n
      /\ Cardinality(L.idle) \in Nat
  BY IdlesFinite, Zenon DEF EvOK
<1>2. L.activecnt - 1 = Cardinality(L.idle) + (n - 1) /\ L.activecnt - 1 \in Nat
  BY <1>1
<1> QED
  BY <1>1, <1>2, Zenon DEF EvOK

\* What is pending does not count.
LEMMA PendingOK ==
  ASSUME NEW L, NEW n, EvOK(L, n), NEW P, P \subseteq Watchers
  PROVE  EvOK([idle |-> L.idle, activecnt |-> L.activecnt, pending |-> P], n)
BY Zenon DEF EvOK

\* Nor does calling back a watcher.
LEMMA PoppedOK ==
  ASSUME NEW STATE n, EvOK(ev, n), NEW w
  PROVE  EvOK(Popped(w), n)
<1>1. ev.pending \ {w} \subseteq Watchers
  BY Zenon DEF EvOK
<1> QED
  BY <1>1, PendingOK, Zenon DEF Popped

\* The references of requests and of the socket.
IoRef == IF io THEN 1 ELSE 0
Refs == nreqs + IoRef

EvInv == EvOK(ev, Refs) /\ sent \subseteq Asyncs

\* Steps that take and drop no reference.
LEMMA EvKept ==
  ASSUME EvInv, UNCHANGED <<nreqs, io>>, sent' \subseteq Asyncs, EvOK(ev', Refs)
  PROVE  EvInv'
<1>1. Refs' = Refs
  BY Zenon DEF Refs, IoRef
<1> QED
  BY <1>1, Zenon DEF EvInv

\* Initially nothing is active.
LEMMA InitEv == Init => EvInv
<1> SUFFICES ASSUME Init PROVE EvInv
  OBVIOUS
<1>1. Cardinality({}) = 0
  BY FS_EmptySet, Zenon
<1>2. Refs = 0
  BY DEF Init, Refs, IoRef
<1> QED
  BY <1>1, <1>2 DEF Init, EvInv, EvOK

\* Tick() stops the spinner at most.
LEMMA TickEv ==
  ASSUME EvInv, NEW STATE L, EvOK(L, Refs), Tick(L)
  PROVE  EvOK(ev', Refs)
<1>1. CASE ~need_tick_cb
  BY <1>1, Zenon DEF Tick
<1>2. CASE need_tick_cb
  <2>1. ev' = ev_idle_stop(L, "tick_spinner")
    BY <1>2, Zenon DEF Tick
  <2> QED
    BY <2>1, IdleStopOK, Zenon
<1> QED
  BY <1>1, <1>2, Zenon

\* Every step keeps EvInv.
LEMMA StepEv == PoolInv /\ EvInv /\ [Next]_vars => EvInv'
<1> SUFFICES ASSUME PoolInv, EvInv, [Next]_vars PROVE EvInv'
  OBVIOUS
<1>0. /\ EvOK(ev, Refs) /\ sent \subseteq Asyncs /\ Refs \in Nat /\ nreqs \in Nat
      /\ ev.pending \subseteq Watchers /\ ev.idle \subseteq Idles /\ ev.idle \subseteq Watchers
  BY Zenon DEF EvInv, EvOK, PoolInv, PoolType, Watchers
<1>00. nreqs \in Nat /\ IoRef \in 0..1 /\ Refs = nreqs + IoRef /\ Refs' = nreqs' + IoRef'
  BY <1>0 DEF Refs, IoRef
<1>1. CASE NextTick
  <2>1. ev' = ev_idle_start(ev, "tick_spinner") /\ UNCHANGED <<nreqs, io, sent>>
    BY <1>1, Zenon DEF NextTick, NeedTickCallback, poolVars
  <2>2. EvOK(ev', Refs)
    BY <1>0, <2>1, IdleStartOK, Zenon DEF Idles
  <2> QED
    BY <1>0, <2>1, <2>2, EvKept, Zenon
<1>2. ASSUME NEW r \in program.reqs, Submit(r) PROVE EvInv'
  <2>1. ev' = [idle |-> ev.idle, activecnt |-> ev.activecnt + 1, pending |-> ev.pending]
        /\ UNCHANGED <<io, sent>> /\ nreqs' = nreqs + 1
    BY <1>2, Zenon DEF Submit, KeepAlive, ev_ref
  <2>2. Refs' = Refs + 1 /\ Refs + 1 \in Nat
    <3>1. IoRef' = IoRef /\ nreqs' = nreqs + 1
      BY <2>1, Zenon DEF IoRef
    <3> QED
      BY <1>00, <3>1
  <2>3. EvOK(ev', Refs + 1)
    BY <1>0, <2>1, RefOK, Zenon
  <2> QED
    BY <1>0, <2>1, <2>2, <2>3, Zenon DEF EvInv
<1>3. CASE WatchIo
  <2>1. ev' = [idle |-> ev.idle, activecnt |-> ev.activecnt + 1, pending |-> ev.pending]
        /\ UNCHANGED <<nreqs, sent>> /\ ~io /\ io' = TRUE
    BY <1>3, Zenon DEF WatchIo, ev_ref, poolVars
  <2>2. Refs' = Refs + 1 /\ Refs + 1 \in Nat
    <3>1. IoRef = 0 /\ IoRef' = 1 /\ nreqs' = nreqs
      BY <2>1, Zenon DEF IoRef
    <3> QED
      BY <1>00, <3>1
  <2>3. EvOK(ev', Refs + 1)
    BY <1>0, <2>1, RefOK, Zenon
  <2> QED
    BY <1>0, <2>1, <2>2, <2>3, Zenon DEF EvInv
<1>4. CASE UnwatchIo
  <2>1. ev' = [idle |-> ev.idle, activecnt |-> ev.activecnt - 1, pending |-> ev.pending \ {"io"}]
        /\ UNCHANGED <<nreqs, sent>> /\ io /\ io' = FALSE
    BY <1>4, Zenon DEF UnwatchIo, poolVars
  <2>2. Refs' = Refs - 1 /\ Refs - 1 \in Nat
    <3>1. IoRef = 1 /\ IoRef' = 0 /\ nreqs' = nreqs
      BY <2>1, Zenon DEF IoRef
    <3> QED
      BY <1>00, <3>1
  <2>3. ev.pending \ {"io"} \subseteq Watchers
    BY <1>0, Zenon
  <2>4. EvOK(ev', Refs - 1)
    BY <1>0, <2>1, <2>2, <2>3, UnrefOK, Zenon
  <2> QED
    BY <1>0, <2>1, <2>2, <2>4, Zenon DEF EvInv
<1>5. CASE EnterLoop
  <2>1. ev' = ev_idle_start(ev, "eio_poller") /\ UNCHANGED <<nreqs, io, sent>>
    BY <1>5, Zenon DEF EnterLoop, poolVars
  <2>2. EvOK(ev', Refs)
    BY <1>0, <2>1, IdleStartOK, Zenon DEF Idles
  <2> QED
    BY <1>0, <2>1, <2>2, EvKept, Zenon
<1>6. CASE PrepareTick
  <2>1. Tick(ev) /\ UNCHANGED <<nreqs, io, sent>>
    BY <1>6, Zenon DEF PrepareTick, poolVars
  <2> QED
    BY <1>0, <2>1, TickEv, EvKept, Zenon
<1>7. CASE CheckTick
  <2>1. Tick(Popped("check_tick")) /\ UNCHANGED <<nreqs, io, sent>>
    BY <1>7, Zenon DEF CheckTick, poolVars
  <2>2. EvOK(Popped("check_tick"), Refs)
    BY <1>0, PoppedOK, Zenon
  <2> QED
    BY <1>0, <2>1, <2>2, TickEv, EvKept, Zenon
<1>8. CASE Poll
  <2>1. PICK R \in SUBSET Ready :
          ev' = [idle |-> ev.idle, activecnt |-> ev.activecnt,
                 pending |-> (R \cup sent) \cup {"gc_check", "check_tick"}
                             \cup (IF R \cup sent = {} THEN ev.idle ELSE {})]
    BY <1>8, Zenon DEF Poll
  <2>2. sent' = {} /\ UNCHANGED <<nreqs, io>>
    BY <1>8, Zenon DEF Poll, poolVars
  <2>3. (R \cup sent) \cup {"gc_check", "check_tick"}
          \cup (IF R \cup sent = {} THEN ev.idle ELSE {}) \subseteq Watchers
    BY <1>0, Zenon DEF Ready, Watchers, Asyncs
  <2>4. EvOK(ev', Refs)
    BY <1>0, <2>1, <2>3, PendingOK, Zenon
  <2> QED
    BY <2>2, <2>4, EvKept, Zenon
<1>9. CASE Iterate \/ Return \/ Throw \/ TickReturn
  <2>1. UNCHANGED <<ev, nreqs, io, sent>>
    BY <1>9, Zenon DEF Iterate, Return, Throw, TickReturn, poolVars
  <2> QED
    BY <1>0, <2>1, EvKept, Zenon
<1>10. CASE Check \/ CheckStatus \/ Idle
  <2>1. PICK w \in {"gc_check", "gc_timer", "gc_idle"} :
          ev' \in {Popped(w), ev_idle_start(Popped(w), "gc_idle"),
                    ev_idle_stop(Popped(w), "gc_idle")}
    BY <1>10, Zenon DEF Check, CheckStatus, Idle
  <2>2. UNCHANGED <<nreqs, io, sent>>
    BY <1>10, Zenon DEF Check, CheckStatus, Idle, poolVars
  <2>3. EvOK(Popped(w), Refs)
    BY <1>0, PoppedOK, Zenon
  <2>4. EvOK(ev', Refs)
    BY <2>1, <2>3, IdleStartOK, IdleStopOK, Zenon DEF Idles
  <2> QED
    BY <1>0, <2>2, <2>4, EvKept, Zenon
<1>11. ASSUME NEW w, StartPoll(w) PROVE EvInv'
  <2>1. ev' = Popped(w) /\ UNCHANGED <<nreqs, io, sent>>
    BY <1>11, Zenon DEF StartPoll, poolVars
  <2> QED
    BY <1>0, <2>1, PoppedOK, EvKept, Zenon
<1>12. CASE PollShift
  <2>1. ev' = [idle |-> ev.idle, activecnt |-> ev.activecnt - 1, pending |-> ev.pending]
        /\ io' = io /\ sent' \subseteq sent \cup {"done"} /\ program' = program
    BY <1>12, Zenon DEF PollShift, ev_unref, Next, vars
  <2>2. nreqs' = nreqs - 1 /\ nreqs >= 1
    BY <1>12, <2>1, PollShiftPool, Zenon
  <2>3. Refs' = Refs - 1 /\ Refs - 1 \in Nat
    <3>1. IoRef' = IoRef
      BY <2>1, Zenon DEF IoRef
    <3> QED
      BY <1>00, <2>2, <3>1
  <2>4. EvOK(ev', Refs - 1)
    BY <1>0, <2>1, <2>3, UnrefOK, Zenon
  <2> QED
    BY <1>0, <2>1, <2>3, <2>4, Zenon DEF EvInv, Asyncs
<1>13. CASE PollEmpty \/ PollLimit
  <2>1. /\ UNCHANGED <<nreqs, io, sent>>
        /\ ev' \in {ev, ev_idle_start(ev, "eio_poller"), ev_idle_stop(ev, "eio_poller")}
    BY <1>13, Zenon DEF PollEmpty, PollLimit, PolledAll, PolledSome, poolVars
  <2>2. EvOK(ev', Refs)
    BY <1>0, <2>1, IdleStartOK, IdleStopOK, Zenon DEF Idles
  <2> QED
    BY <1>0, <2>1, <2>2, EvKept, Zenon
<1>14. CASE OnIo
  <2>1. ev' = Popped("io") /\ UNCHANGED <<nreqs, io, sent>>
    BY <1>14, Zenon DEF OnIo, poolVars
  <2> QED
    BY <1>0, <2>1, PoppedOK, EvKept, Zenon
<1>15. CASE TickThrow
  <2>1. ev' \in {ev, ev_idle_start(ev, "tick_spinner")} /\ UNCHANGED <<nreqs, io, sent>>
    BY <1>15, Zenon DEF TickThrow, NeedTickCallback, poolVars
  <2>2. EvOK(ev', Refs)
    BY <1>0, <2>1, IdleStartOK, Zenon DEF Idles
  <2> QED
    BY <1>0, <2>1, <2>2, EvKept, Zenon
<1>16. ASSUME NEW w, Work(w) \/ WorkerTimesOut(w) PROVE EvInv'
  <2>1. UNCHANGED <<ev, nreqs, io>> /\ sent' \subseteq sent \cup {"want"}
    BY <1>16, Zenon DEF Work, WorkerTakes, WorkerWaits, WorkerIdles, WorkerFinishes, WorkerTimesOut
  <2>2. sent' \subseteq Asyncs
    BY <1>0, <2>1, Zenon DEF Asyncs
  <2> QED
    BY <1>0, <2>1, <2>2, EvKept, Zenon
<1>17. CASE Terminated \/ UNCHANGED vars
  <2>1. UNCHANGED <<ev, nreqs, io, sent>>
    BY <1>17, Zenon DEF Terminated, vars
  <2> QED
    BY <1>0, <2>1, EvKept, Zenon
<1> QED
  BY <1>1, <1>2, <1>3, <1>4, <1>5, <1>6, <1>7, <1>8, <1>9, <1>10, <1>11, <1>12, <1>13,
     <1>14, <1>15, <1>16, <1>17 DEF Next, Calls, Main

-----------------------------------------------------------------------------
(* Control, and results of the pool.                                        *)

CtlType ==
  /\ need_tick_cb \in BOOLEAN /\ gc_timer \in BOOLEAN /\ io \in BOOLEAN
  /\ phase \in {"load", "prepare", "block", "invoke", "exit", "dead"}
  /\ js \in {"none", "script", "tick", "after", "io", "uncaught"}
  /\ poll \in {"none", "eio_poller", "want", "done"}
  /\ maxreqs \in 0..MaxPollReqs /\ events \in Nat

\* The loop is entered once.  Watchers are pending only while they are invoked, and idle
\* watchers only while they are active: those that are stopped are withdrawn.  The loop
\* polls from eio_poller only while that is active.
PendingInv ==
  /\ phase = "load" => js = "script"
  /\ phase \in {"load", "prepare", "block"} => ev.pending = {} /\ poll = "none"
  /\ "eio_poller" \in ev.pending => "eio_poller" \in ev.idle
  /\ poll = "eio_poller" => "eio_poller" \in ev.idle

\* A result that the running eio_poll() may leave behind is noticed otherwise: a poll on
\* behalf of "done" starts no watcher when it reaches its limit.
Noticed == "want" \in sent \cup ev.pending \/ "eio_poller" \in ev.idle
ResInv ==
  phase # "load" /\ poll \in {"none", "done"} /\ res_queue # << >> => Noticed

\* The script is loaded before the loop is entered.
LEMMA InitCtl == Init => CtlType /\ PendingInv /\ ResInv
<1> SUFFICES ASSUME Init PROVE CtlType /\ PendingInv /\ ResInv
  OBVIOUS
<1>1. CtlType
  <2>1. maxreqs \in 0..MaxPollReqs /\ events \in Nat
    BY LoopAssumption DEF Init
  <2> QED
    BY <2>1, Zenon DEF Init, CtlType
<1>2. PendingInv
  BY Zenon DEF Init, PendingInv
<1>3. ResInv
  BY Zenon DEF Init, ResInv
<1> QED
  BY <1>1, <1>2, <1>3, Zenon

\* Steps that leave control alone.
LEMMA CtlKept ==
  ASSUME CtlType, UNCHANGED <<need_tick_cb, gc_timer, io, phase, js, poll, maxreqs, events>>
  PROVE  CtlType'
BY Zenon DEF CtlType

\* Every step keeps the types of control.
LEMMA StepCtl == CtlType /\ [Next]_vars => CtlType'
<1> SUFFICES ASSUME CtlType, [Next]_vars PROVE CtlType'
  OBVIOUS
<1>0. MaxPollReqs \in Nat
  BY LoopAssumption, Zenon
<1>1. ASSUME NextTick PROVE CtlType'
  BY <1>1, Zenon DEF NextTick, pollVars, CtlType
<1>2. ASSUME WatchIo PROVE CtlType'
  BY <1>2, Zenon DEF WatchIo, tickVars, pollVars, CtlType
<1>3. ASSUME UnwatchIo PROVE CtlType'
  BY <1>3, Zenon DEF UnwatchIo, tickVars, pollVars, CtlType
<1>4. ASSUME NEW r, Submit(r) PROVE CtlType'
  BY <1>4, CtlKept, Zenon DEF Submit, tickVars, pollVars
<1>5. ASSUME EnterLoop \/ Iterate PROVE CtlType'
  BY <1>5, Zenon DEF EnterLoop, Iterate, tickVars, pollVars, CtlType
<1>6. ASSUME PrepareTick PROVE CtlType'
  BY <1>6, Zenon DEF PrepareTick, Tick, pollVars, CtlType
<1>7. ASSUME CheckTick PROVE CtlType'
  BY <1>7, Zenon DEF CheckTick, Tick, pollVars, CtlType
<1>8. ASSUME Poll PROVE CtlType'
  <2>1. /\ phase' = "invoke" /\ events' \in {events, events + 1}
        /\ UNCHANGED <<need_tick_cb, gc_timer, io, js, poll, maxreqs>>
    BY <1>8, Zenon DEF Poll, tickVars, pollVars
  <2> QED
    BY <2>1 DEF CtlType
<1>9. ASSUME Check \/ CheckStatus \/ Idle PROVE CtlType'
  <2>1. /\ gc_timer' = gc_timer \/ gc_timer' = TRUE \/ gc_timer' = FALSE
        /\ UNCHANGED <<need_tick_cb, io, phase, js, poll, maxreqs, events>>
    BY <1>9, Zenon DEF Check, CheckStatus, Idle, tickVars, pollVars
  <2> QED
    BY <2>1, Zenon DEF CtlType
<1>10. ASSUME NEW w \in {"eio_poller", "want", "done"}, StartPoll(w) PROVE CtlType'
  BY <1>0, <1>10 DEF StartPoll, tickVars, CtlType
<1>11. ASSUME PollShift PROVE CtlType'
  <2>1. /\ js' = "after" /\ maxreqs > 0 /\ maxreqs' = maxreqs - 1
        /\ UNCHANGED <<need_tick_cb, gc_timer, io, phase, poll, events>>
    BY <1>11, Zenon DEF PollShift, tickVars
  <2> QED
    BY <1>0, <2>1 DEF CtlType
<1>12. ASSUME PollEmpty \/ PollLimit PROVE CtlType'
  <2>1. /\ poll' = "none"
        /\ UNCHANGED <<need_tick_cb, gc_timer, io, phase, js, maxreqs, events>>
    BY <1>12, Zenon DEF PollEmpty, PollLimit, tickVars
  <2> QED
    BY <2>1, Zenon DEF CtlType
<1>13. ASSUME OnIo \/ Return PROVE CtlType'
  BY <1>13, Zenon DEF OnIo, Return, tickVars, pollVars, CtlType
<1>14. ASSUME Throw PROVE CtlType'
  BY <1>14, Zenon DEF Throw, Fatal, tickVars, pollVars, CtlType
<1>15. ASSUME TickReturn PROVE CtlType'
  BY <1>15, Zenon DEF TickReturn, pollVars, CtlType
<1>16. ASSUME TickThrow PROVE CtlType'
  BY <1>16, Zenon DEF TickThrow, Fatal, pollVars, CtlType
<1>17. ASSUME NEW w, Work(w) \/ WorkerTimesOut(w) PROVE CtlType'
  <2>1. UNCHANGED <<tickVars, pollVars, gc_timer, io, phase, js, events>>
    BY <1>17, Zenon DEF Work, WorkerTakes, WorkerWaits, WorkerIdles, WorkerFinishes, WorkerTimesOut
  <2> QED
    BY <2>1, CtlKept, Zenon DEF tickVars, pollVars
<1>18. ASSUME Terminated \/ UNCHANGED vars PROVE CtlType'
  BY <1>18, CtlKept, Zenon DEF Terminated, vars
<1> QED
  BY <1>1, <1>2, <1>3, <1>4, <1>5, <1>6, <1>7, <1>8, <1>9, <1>10, <1>11, <1>12, <1>13,
     <1>14, <1>15, <1>16, <1>17, <1>18 DEF Next, Calls, Main

\* Every variable of the loop, of the ticks and of the pool keeps its type: in particular
\* ev_unref never drops activecnt, nor etp_poll the counters of the pool, below zero.
THEOREM LoopTypeCorrect == Spec => []TypeOK
<1>1. TickInv /\ PoolInv /\ EvInv /\ CtlType => TypeOK
  BY Zenon DEF TickInv, PoolInv, PoolType, WorkerStates, EvInv, EvOK, CtlType, TypeOK
<1> QED
  BY <1>1, InitTick, InitPool, InitEv, InitCtl, StepTick, StepPool, StepEv, StepCtl, PTL DEF Spec

\* From loop L to loop M nothing becomes pending, and no notice of a result is withdrawn.
Near(L, M) ==
  /\ M.pending \subseteq L.pending
  /\ "want" \in L.pending => "want" \in M.pending
  /\ "eio_poller" \in L.idle => "eio_poller" \in M.idle

\* A step that neither polls the pool nor ends a poll.
Quiet ==
  /\ Near(ev, ev') /\ poll' = poll /\ sent \subseteq sent'
  /\ phase' = "load" <=> phase = "load"
  /\ phase' = "load" => js' = js
  /\ phase' \in {"load", "prepare", "block"} => phase \in {"load", "prepare", "block"}

\* Quiet steps keep both invariants if they add no result.
LEMMA QuietKept ==
  ASSUME PendingInv, ResInv, Quiet, res_queue' # << >> => res_queue # << >> \/ "want" \in sent'
  PROVE  PendingInv' /\ ResInv'
<1>1. PendingInv'
  BY Zenon DEF PendingInv, Quiet, Near
<1>2. ResInv'
  BY Zenon DEF ResInv, Noticed, Quiet, Near
<1> QED
  BY <1>1, <1>2, Zenon

\* Calls of user code, ticks, callbacks of the loop and the steps of the workers.
LEMMA QuietSteps ==
  ASSUME CtlType, PendingInv, ResInv,
         \/ NextTick \/ (\E r \in program.reqs : Submit(r)) \/ WatchIo \/ UnwatchIo
         \/ PrepareTick \/ CheckTick \/ Check \/ CheckStatus \/ Idle \/ PollShift
         \/ OnIo \/ Return \/ Throw \/ TickReturn \/ TickThrow
         \/ (\E w \in Workers : Work(w) \/ WorkerTimesOut(w)) \/ Terminated \/ UNCHANGED vars
  PROVE  PendingInv' /\ ResInv'
<1>1. ASSUME NextTick PROVE PendingInv' /\ ResInv'
  <2>1. /\ ev' = ev_idle_start(ev, "tick_spinner")
        /\ UNCHANGED <<phase, js, poll, sent, res_queue>>
    BY <1>1, Zenon DEF NextTick, NeedTickCallback, pollVars, poolVars
  <2>2. Near(ev, ev')
    BY <2>1, Zenon DEF Near, ev_idle_start
  <2>3. Quiet
    BY <2>1, <2>2, Zenon DEF Quiet
  <2> QED
    BY <2>1, <2>3, QuietKept, Zenon
<1>2. ASSUME NEW r, Submit(r) PROVE PendingInv' /\ ResInv'
  <2>1. ev' = ev_ref(ev) /\ UNCHANGED <<phase, js, poll, sent, res_queue>>
    BY <1>2, Zenon DEF Submit, KeepAlive, pollVars
  <2>2. Near(ev, ev')
    BY <2>1, Zenon DEF Near, ev_ref
  <2>3. Quiet
    BY <2>1, <2>2, Zenon DEF Quiet
  <2> QED
    BY <2>1, <2>3, QuietKept, Zenon
<1>3. ASSUME WatchIo PROVE PendingInv' /\ ResInv'
  <2>1. ev' = ev_ref(ev) /\ UNCHANGED <<phase, js, poll, sent, res_queue>>
    BY <1>3, Zenon DEF WatchIo, pollVars, poolVars
  <2>2. Near(ev, ev')
    BY <2>1, Zenon DEF Near, ev_ref
  <2>3. Quiet
    BY <2>1, <2>2, Zenon DEF Quiet
  <2> QED
    BY <2>1, <2>3, QuietKept, Zenon
<1>4. ASSUME UnwatchIo PROVE PendingInv' /\ ResInv'
  <2>1. /\ ev' = [idle |-> ev.idle, activecnt |-> ev.activecnt - 1, pending |-> ev.pending \ {"io"}]
        /\ UNCHANGED <<phase, js, poll, sent, res_queue>>
    BY <1>4, Zenon DEF UnwatchIo, pollVars, poolVars
  <2>2. Near(ev, ev')
    BY <2>1, Zenon DEF Near
  <2>3. Quiet
    BY <2>1, <2>2, Zenon DEF Quiet
  <2> QED
    BY <2>1, <2>3, QuietKept, Zenon
<1>5. ASSUME PrepareTick PROVE PendingInv' /\ ResInv'
  <2>1. /\ ev' = ev \/ ev' = ev_idle_stop(ev, "tick_spinner")
        /\ phase = "prepare" /\ phase' = "block" /\ UNCHANGED <<poll, sent, res_queue>>
    BY <1>5, Zenon DEF PrepareTick, Tick, pollVars, poolVars
  <2>2. Near(ev, ev')
    <3>1. CASE ev' = ev
      BY <3>1, Zenon DEF Near
    <3>2. CASE ev' = ev_idle_stop(ev, "tick_spinner")
      <4>1. ev'.pending = ev.pending \ {"tick_spinner"} /\ ev'.idle = ev.idle \ {"tick_spinner"}
        BY <3>2, Zenon DEF ev_idle_stop
      <4> QED
        BY <4>1, Zenon DEF Near
    <3> QED
      BY <2>1, <3>1, <3>2, Zenon
  <2>3. Quiet
    BY <2>1, <2>2, Zenon DEF Quiet
  <2> QED
    BY <2>1, <2>3, QuietKept, Zenon
<1>6. ASSUME CheckTick PROVE PendingInv' /\ ResInv'
  <2>1. /\ \/ ev' = Popped("check_tick")
           \/ ev' = ev_idle_stop(Popped("check_tick"), "tick_spinner")
        /\ phase = "invoke" /\ UNCHANGED <<phase, poll, sent, res_queue>>
    BY <1>6, Zenon DEF CheckTick, Tick, Invoked, pollVars, poolVars
  <2>2. Near(ev, ev')
    <3>1. CASE ev' = Popped("check_tick")
      BY <3>1, Zenon DEF Near, Popped
    <3>2. CASE ev' = ev_idle_stop(Popped("check_tick"), "tick_spinner")
      <4>1. /\ ev'.pending = (ev.pending \ {"check_tick"}) \ {"tick_spinner"}
            /\ ev'.idle = ev.idle \ {"tick_spinner"}
        BY <3>2, Zenon DEF Popped, ev_idle_stop
      <4> QED
        BY <4>1, Zenon DEF Near
    <3> QED
      BY <2>1, <3>1, <3>2, Zenon
  <2>3. Quiet
    BY <2>1, <2>2, Zenon DEF Quiet
  <2> QED
    BY <2>1, <2>3, QuietKept, Zenon
<1>7. ASSUME Check \/ CheckStatus \/ Idle PROVE PendingInv' /\ ResInv'
  <2>1. PICK w \in {"gc_check", "gc_timer", "gc_idle"} :
           ev' \in {Popped(w), ev_idle_start(Popped(w), "gc_idle"),
                    ev_idle_stop(Popped(w), "gc_idle")}
    BY <1>7, Zenon DEF Check, CheckStatus, Idle
  <2>2. UNCHANGED <<phase, js, poll, sent, res_queue>>
    BY <1>7, Zenon DEF Check, CheckStatus, Idle, pollVars, poolVars
  <2>3. Near(ev, ev')
    <3>1. CASE ev' = Popped(w)
      BY <3>1, Zenon DEF Near, Popped
    <3>2. CASE ev' = ev_idle_start(Popped(w), "gc_idle")
      <4>1. ev'.pending = ev.pending \ {w} /\ ev'.idle = ev.idle \cup {"gc_idle"}
        BY <3>2, Zenon DEF Popped, ev_idle_start
      <4> QED
        BY <4>1, Zenon DEF Near
    <3>3. CASE ev' = ev_idle_stop(Popped(w), "gc_idle")
      <4>1. ev'.pending = (ev.pending \ {w}) \ {"gc_idle"} /\ ev'.idle = ev.idle \ {"gc_idle"}
        BY <3>3, Zenon DEF Popped, ev_idle_stop
      <4> QED
        BY <4>1, Zenon DEF Near
    <3> QED
      BY <2>1, <3>1, <3>2, <3>3, Zenon
  <2>4. Quiet
    BY <2>2, <2>3, Zenon DEF Quiet
  <2> QED
    BY <2>2, <2>4, QuietKept, Zenon
<1>8. ASSUME PollShift PROVE PendingInv' /\ ResInv'
  <2>1. /\ ev' = ev_unref(ev) /\ sent \subseteq sent' /\ UNCHANGED <<phase, poll>>
        /\ res_queue # << >> /\ poll # "none"
    BY <1>8, Zenon DEF PollShift
  <2>2. phase # "load"
    BY <2>1, Zenon DEF PendingInv
  <2>3. Near(ev, ev')
    BY <2>1, <2>2, Zenon DEF Near, ev_unref
  <2>4. Quiet
    BY <2>1, <2>2, <2>3, Zenon DEF Quiet
  <2> QED
    BY <2>1, <2>4, QuietKept, Zenon
<1>9. ASSUME OnIo PROVE PendingInv' /\ ResInv'
  <2>1. ev' = Popped("io") /\ phase = "invoke" /\ UNCHANGED <<phase, poll, sent, res_queue>>
    BY <1>9, Zenon DEF OnIo, Invoked, pollVars, poolVars
  <2>2. Near(ev, ev')
    BY <2>1, Zenon DEF Near, Popped
  <2>3. Quiet
    BY <2>1, <2>2, Zenon DEF Quiet
  <2> QED
    BY <2>1, <2>3, QuietKept, Zenon
<1>10. ASSUME Return \/ Throw \/ TickReturn \/ TickThrow PROVE PendingInv' /\ ResInv'
  <2>1. js # "script" /\ (phase' = phase \/ phase' = "dead") /\ UNCHANGED <<poll, sent, res_queue>>
    BY <1>10, Zenon DEF Return, Throw, TickReturn, TickThrow, Fatal, pollVars, poolVars
  <2>2. ev' = ev \/ ev' = ev_idle_start(ev, "tick_spinner")
    BY <1>10, Zenon DEF Return, Throw, TickReturn, TickThrow, NeedTickCallback
  <2>3. phase # "load"
    BY <2>1, Zenon DEF PendingInv
  <2>4. Near(ev, ev')
    BY <2>2 DEF Near, ev_idle_start
  <2>5. Quiet
    BY <2>1, <2>2, <2>3, <2>4, Zenon DEF Quiet
  <2> QED
    BY <2>1, <2>5, QuietKept, Zenon
<1>11. ASSUME NEW w, Work(w) \/ WorkerTimesOut(w) PROVE PendingInv' /\ ResInv'
  <2>1. /\ UNCHANGED <<ev, phase, js, poll>> /\ sent \subseteq sent'
        /\ res_queue' # << >> => res_queue # << >> \/ "want" \in sent'
    BY <1>11, Zenon DEF Work, WorkerTakes, WorkerWaits, WorkerIdles, WorkerFinishes, WorkerTimesOut,
       Edge, pollVars
  <2>2. Near(ev, ev')
    BY <2>1, Zenon DEF Near
  <2>3. Quiet
    BY <2>1, <2>2, Zenon DEF Quiet
  <2> QED
    BY <2>1, <2>3, QuietKept, Zenon
<1>12. ASSUME Terminated \/ UNCHANGED vars PROVE PendingInv' /\ ResInv'
  <2>1. UNCHANGED <<ev, phase, js, poll, sent, res_queue>>
    BY <1>12, Zenon DEF Terminated, vars
  <2>2. Near(ev, ev')
    BY <2>1, Zenon DEF Near
  <2>3. Quiet
    BY <2>1, <2>2, Zenon DEF Quiet
  <2> QED
    BY <2>1, <2>3, QuietKept, Zenon
<1> QED
  BY <1>1, <1>2, <1>3, <1>4, <1>5, <1>6, <1>7, <1>8, <1>9, <1>10, <1>11, <1>12, Zenon

\* Every step keeps PendingInv and ResInv.
LEMMA StepRes ==
  CtlType /\ EvInv /\ PendingInv /\ ResInv /\ [Next]_vars => PendingInv' /\ ResInv'
<1> SUFFICES ASSUME CtlType, EvInv, PendingInv, ResInv, [Next]_vars
             PROVE  PendingInv' /\ ResInv'
  OBVIOUS
<1>1. ASSUME EnterLoop PROVE PendingInv' /\ ResInv'
  <2>1. /\ phase = "load" /\ phase' = "prepare" /\ poll' = poll
        /\ ev' = ev_idle_start(ev, "eio_poller")
    BY <1>1, Zenon DEF EnterLoop, pollVars
  <2> QED
    BY <2>1, Zenon DEF PendingInv, ResInv, Noticed, ev_idle_start
<1>2. ASSUME Iterate PROVE PendingInv' /\ ResInv'
  <2>1. /\ phase = "invoke" /\ phase' # "load" /\ poll = "none" /\ ev.pending = {}
        /\ UNCHANGED <<ev, poll, sent, res_queue>>
    BY <1>2, Zenon DEF Iterate, pollVars, poolVars
  <2> QED
    BY <2>1, Zenon DEF PendingInv, ResInv, Noticed
<1>3. ASSUME Poll PROVE PendingInv' /\ ResInv'
  <2>1. PICK R \in SUBSET Ready :
          ev' = [idle |-> ev.idle, activecnt |-> ev.activecnt,
                 pending |-> (R \cup sent) \cup {"gc_check", "check_tick"}
                             \cup (IF R \cup sent = {} THEN ev.idle ELSE {})]
    BY <1>3, Zenon DEF Poll
  <2>2. phase = "block" /\ phase' = "invoke" /\ UNCHANGED <<poll, res_queue>>
    BY <1>3, Zenon DEF Poll, pollVars, poolVars
  <2>3. "eio_poller" \notin R \cup sent
    BY Zenon DEF Ready, EvInv, Asyncs
  <2>4. ev.pending = {}
    BY <2>2, Zenon DEF PendingInv
  <2>5. PendingInv'
    BY <2>1, <2>2, <2>3, Zenon DEF PendingInv
  <2>6. ResInv'
    BY <2>1, <2>2, <2>4, Zenon DEF ResInv, Noticed
  <2> QED
    BY <2>5, <2>6, Zenon
<1>4. ASSUME NEW w \in {"eio_poller", "want", "done"}, StartPoll(w) PROVE PendingInv' /\ ResInv'
  <2>1. /\ phase = "invoke" /\ poll = "none" /\ poll' = w /\ w \in ev.pending
        /\ ev' = Popped(w) /\ UNCHANGED <<res_queue, phase, sent>>
    BY <1>4, Zenon DEF StartPoll, Invoked, poolVars
  <2>2. PendingInv'
    BY <2>1, Zenon DEF PendingInv, Popped
  <2>3. ResInv'
    BY <2>1, Zenon DEF ResInv, Noticed, Popped
  <2> QED
    BY <2>2, <2>3, Zenon
<1>5. ASSUME PollEmpty PROVE PendingInv' /\ ResInv'
  <2>1. /\ poll # "none" /\ poll' = "none" /\ phase' = phase /\ res_queue' = << >>
        /\ ev' = ev \/ ev' = ev_idle_stop(ev, "eio_poller")
    BY <1>5, Zenon DEF PollEmpty, PolledAll
  <2>2. CASE ev' = ev
    BY <2>1, <2>2, Zenon DEF PendingInv, ResInv
  <2>3. CASE ev' = ev_idle_stop(ev, "eio_poller")
    <3>1. ev'.idle = ev.idle \ {"eio_poller"} /\ ev'.pending = ev.pending \ {"eio_poller"}
      BY <2>3, Zenon DEF ev_idle_stop
    <3>2. phase \notin {"load", "prepare", "block"}
      BY <2>1, Zenon DEF PendingInv
    <3>3. PendingInv'
      BY <2>1, <3>1, <3>2, Zenon DEF PendingInv
    <3> QED
      BY <2>1, <3>3, Zenon DEF ResInv
  <2> QED
    BY <2>1, <2>2, <2>3, Zenon
<1>6. ASSUME PollLimit PROVE PendingInv' /\ ResInv'
  <2>1. /\ poll # "none" /\ poll' = "none" /\ ev' = PolledSome(poll)
        /\ UNCHANGED <<res_queue, phase, sent>>
    BY <1>6, Zenon DEF PollLimit, poolVars
  <2>2. poll \in {"eio_poller", "want", "done"} /\ phase \notin {"load", "prepare", "block"}
    BY <2>1, Zenon DEF CtlType, PendingInv
  <2>3. CASE poll = "want"
    BY <2>1, <2>2, <2>3, Zenon DEF PolledSome, ev_idle_start, PendingInv, ResInv, Noticed
  <2>4. CASE poll # "want"
    <3>1. ev' = ev
      BY <2>1, <2>4, Zenon DEF PolledSome
    <3>2. poll = "eio_poller" => "eio_poller" \in ev.idle
      BY Zenon DEF PendingInv
    <3> QED
      BY <2>1, <2>2, <2>4, <3>1, <3>2, Zenon DEF PendingInv, ResInv, Noticed
  <2> QED
    BY <2>3, <2>4, Zenon
<1> QED
  BY <1>1, <1>2, <1>3, <1>4, <1>5, <1>6, QuietSteps, Zenon DEF Next, Calls, Main

\* A result of the pool is never stranded: the loop is in eio_poll(), or the want notifier
\* was sent or fed, or eio_poller polls, for any number of workers and requests and any
\* limit of eio_poll().
THEOREM ResultsNotStranded == Spec => []ResultsNoticed
<1>1. ResInv => ResultsNoticed
  BY Zenon DEF ResInv, ResultsNoticed, Noticed
<1> QED
  BY <1>1, InitPool, InitEv, InitCtl, StepPool, StepEv, StepCtl, StepRes, PTL
  DEF Spec

-----------------------------------------------------------------------------
\* The process ends by itself only when there is nothing left to do.
ExitInv == phase = "exit" => nextTickQueue = << >> /\ nreqs = 0

\* ev_loop returns only without references, hence without spinner and requests.
LEMMA StepExit ==
  CtlType /\ TickInv /\ EvInv /\ PoolInv /\ ExitInv /\ [Next]_vars => ExitInv'
<1> SUFFICES ASSUME CtlType, TickInv, EvInv, PoolInv, ExitInv, [Next]_vars PROVE ExitInv'
  OBVIOUS
<1>1. CASE phase = "exit"
  <2>1. Terminated \/ UNCHANGED vars
    BY <1>1, Zenon DEF Next, Alive
  <2> QED
    BY <2>1, Zenon DEF Terminated, vars, ExitInv
<1>2. CASE phase # "exit" /\ phase' = "exit"
  <2>1. Iterate
    BY <1>2, Zenon DEF Next, Calls, Main, NextTick, Submit, WatchIo, UnwatchIo, EnterLoop,
        PrepareTick,
       CheckTick, Poll, Check, Idle, CheckStatus, StartPoll, PollShift, PollEmpty, PollLimit,
       OnIo, Return, TickReturn, TickThrow, Throw, Fatal, Work, WorkerTakes, WorkerWaits,
       WorkerIdles, WorkerFinishes, WorkerTimesOut, Terminated, vars
  <2>2. ev.activecnt = 0 /\ js = "none" /\ UNCHANGED <<nextTickQueue, nreqs>>
    BY <1>2, <2>1, Zenon DEF Iterate, tickVars, poolVars
  <2>3. /\ ev.idle \subseteq Idles /\ Cardinality(ev.idle) \in Nat /\ nreqs \in Nat
        /\ ev.activecnt = Cardinality(ev.idle) + Refs
    BY IdlesFinite, Zenon DEF EvInv, EvOK, PoolInv, PoolType
  <2>4. Refs = nreqs + IoRef /\ IoRef \in 0..1
    BY DEF Refs, IoRef
  <2>5. nreqs = 0 /\ Cardinality(ev.idle) = 0
    <3>1. /\ Cardinality(ev.idle) \in Nat /\ nreqs \in Nat /\ IoRef \in Nat
          /\ 0 = Cardinality(ev.idle) + (nreqs + IoRef)
      BY <2>2, <2>3, <2>4
    <3> QED
      BY <3>1
  <2>6. ev.idle = {}
    BY <2>3, <2>5, IdlesFinite, FS_EmptySet, Zenon
  <2>7. nextTickQueue = << >>
    BY <2>2, <2>6, Zenon DEF TickInv, Sched
  <2> QED
    BY <2>2, <2>5, <2>7, Zenon DEF ExitInv
<1>3. CASE phase' # "exit"
  BY <1>3, Zenon DEF ExitInv
<1> QED
  BY <1>1, <1>2, <1>3, Zenon

\* The loop's reference count is exact, the counters of the pool agree with its queues and
\* workers, and the process does not end by itself while ticks or requests are
\* outstanding, for any number of them.
THEOREM RefsExact == Spec => []RefsBalanced
<1>1. EvInv /\ PoolInv /\ ExitInv => RefsBalanced
  <2> SUFFICES ASSUME EvInv, PoolInv, ExitInv PROVE RefsBalanced
    OBVIOUS
  <2>1. /\ ev.idle \subseteq Idles /\ Cardinality(ev.idle) \in Nat /\ nreqs \in Nat
        /\ ev.activecnt = Cardinality(ev.idle) + (nreqs + (IF io THEN 1 ELSE 0))
    BY IdlesFinite, Zenon DEF EvInv, EvOK, PoolInv, PoolType, Refs, IoRef
  <2>2. ev.activecnt = Cardinality(ev.idle) + nreqs + (IF io THEN 1 ELSE 0)
    BY <2>1
  <2> QED
    BY <2>2, Zenon DEF RefsBalanced, PoolInv, ExitInv
<1>2. Init => ExitInv
  BY Zenon DEF Init, ExitInv
<1> QED
  BY <1>1, <1>2, InitTick, InitPool, InitEv, InitCtl, StepTick, StepPool, StepEv, StepCtl,
     StepExit, PTL DEF Spec

=============================================================================
