----------------------------- MODULE EventLoop -----------------------------
(***************************************************************************)
(* The main loop of the process: libev's iteration (deps/libev/ev.c), the   *)
(* tick queue of process.nextTick (src/node.js) with the watchers that      *)
(* drive it (src/node.cc), the watchers that poll the libeio thread pool    *)
(* (src/node.cc) and the pool itself (deps/libeio/eio.c), which runs the    *)
(* file system calls (src/node_file.cc) and host name lookups.              *)
(*                                                                          *)
(* One thread runs the loop and all JavaScript.  "js" says which piece of   *)
(* user code it is inside of; user code may call nextTick and start         *)
(* requests as often as the bounds allow, then returns or throws.  The      *)
(* workers of the pool run beside it and touch the queues under the pool's  *)
(* locks: one action is one critical section.                               *)
(***************************************************************************)
EXTENDS Integers, Sequences, FiniteSets

CONSTANTS
  Reqs,          \* requests to the pool
  Workers,       \* threads of the pool
  Programs,      \* bounds: for every program its requests, how many times it calls
                 \* nextTick, the threads it may have ("wanted" of eio.c) and how
                 \* many waits of workers last IDLE_TIMEOUT seconds
  MaxPollReqs,   \* eio_set_max_poll_reqs, 10 in node.cc
  MaxTicks,      \* bound: calls of nextTick in any program
  MaxEvents,     \* bound: times a socket is ready or the GC timer fires
  NoReq          \* "this worker has no request"

ASSUME LoopAssumption ==
  /\ MaxPollReqs \in Nat \ {0} /\ MaxTicks \in Nat /\ MaxEvents \in Nat
  /\ Programs \subseteq [reqs : SUBSET Reqs, ticks : 0..MaxTicks,
                         threads : 1..Cardinality(Workers), timeouts : Nat]
  /\ NoReq \notin Reqs
  /\ IsFiniteSet(Workers) /\ Workers # {}

VARIABLES
  nextTickQueue, \* sequence of callbacks, named by the order of the calls
  tickI, tickL,  \* i (from 1) and l of a running _tickCallback
  need_tick_cb,
  ev,            \* the loop: active idle watchers, activecnt, pending watchers
  gc_timer,      \* whether gc_timer is active
  io,            \* whether a socket of the program is watched
  phase,         \* "load", "prepare", "block", "invoke", "exit" or "dead"
  js,            \* the user code that is running, "none" if none is
  poll,          \* the watcher whose callback is inside eio_poll(), or "none"
  maxreqs,       \* requests this eio_poll() may still finish
  sent,          \* ev_async watchers that have been sent and not yet fed
  req_queue, res_queue, nreqs, nready, npending,
  worker,        \* what each worker is doing
  job,           \* the request it is executing
  events, timeouts, \* counters for the bounds
  ticked,        \* history: how many ticks have been requested
  ran,           \* history: the ticks that ran, in order
  finished,      \* history: the requests whose callback has been called
  program        \* the program that runs

tickVars == <<nextTickQueue, tickI, tickL, need_tick_cb, ticked, ran>>
pollVars == <<poll, maxreqs, finished>>
poolVars == <<req_queue, res_queue, nreqs, nready, npending, worker, job, timeouts>>
vars == <<nextTickQueue, tickI, tickL, need_tick_cb, ev, gc_timer, io, phase, js,
          poll, maxreqs, sent, req_queue, res_queue, nreqs, nready, npending,
          worker, job, events, timeouts, ticked, ran, finished, program>>

Idles == {"tick_spinner", "eio_poller", "gc_idle"}
Asyncs == {"want", "done"}
Watchers == Idles \cup Asyncs \cup {"gc_check", "check_tick", "gc_timer", "io"}

-----------------------------------------------------------------------------
(* libev.  ev.activecnt is the count that keeps ev_loop running.            *)

\* Starting a watcher that is active, or stopping one that is not, does nothing;
\* stopping one withdraws its pending invocation.
ev_idle_start(L, w) ==
  [idle |-> L.idle \cup {w},
   activecnt |-> IF w \in L.idle THEN L.activecnt ELSE L.activecnt + 1,
   pending |-> L.pending]

\* A variant that does not look whether the watcher is active.
ev_idle_stop_Always(L, w) ==
  [idle |-> L.idle \ {w}, activecnt |-> L.activecnt - 1, pending |-> L.pending \ {w}]

ev_idle_stop(L, w) ==
  [idle |-> L.idle \ {w},
   activecnt |-> IF w \in L.idle THEN L.activecnt - 1 ELSE L.activecnt,
   pending |-> L.pending \ {w}]

ev_ref(L) == [idle |-> L.idle, activecnt |-> L.activecnt + 1, pending |-> L.pending]
ev_unref(L) == [idle |-> L.idle, activecnt |-> L.activecnt - 1, pending |-> L.pending]

\* The order in which one pass of ev_invoke_pending calls back.  The pipe watcher
\* has the highest priority and feeds the async watchers on top of the others;
\* within a priority the watcher queued last is called first.
Rank(w) ==
  CASE w = "want" -> 1
    [] w = "done" -> 2
    [] w = "gc_check" -> 3
    [] w = "check_tick" -> 4
    [] w = "gc_timer" -> 5
    [] w = "io" -> 6
    [] OTHER -> 7

Invoked(w) ==
  /\ phase = "invoke" /\ js = "none" /\ poll = "none"
  /\ w \in ev.pending
  /\ \A v \in ev.pending : Rank(w) <= Rank(v)

Popped(w) == [idle |-> ev.idle, activecnt |-> ev.activecnt, pending |-> ev.pending \ {w}]

-----------------------------------------------------------------------------
Init ==
  /\ nextTickQueue = << >> /\ tickI = 0 /\ tickL = 0 /\ need_tick_cb = FALSE
  /\ ev = [idle |-> {}, activecnt |-> 0, pending |-> {}]
  /\ gc_timer = FALSE /\ io = FALSE
  /\ phase = "load" /\ js = "script"
  /\ poll = "none" /\ maxreqs = 0
  /\ sent = {}
  /\ req_queue = << >> /\ res_queue = << >>
  /\ nreqs = 0 /\ nready = 0 /\ npending = 0
  /\ worker = [w \in Workers |-> "unborn"] /\ job = [w \in Workers |-> NoReq]
  /\ events = 0 /\ timeouts = 0
  /\ ticked = 0 /\ ran = << >> /\ finished = {}
  /\ program \in Programs

-----------------------------------------------------------------------------
(* Calls user code makes.                                                   *)

\* NeedTickCallback sets the flag and starts the spinner that keeps the loop alive.
NeedTickCallback(L) == ev_idle_start(L, "tick_spinner")

NextTick ==
  /\ js # "none" /\ ticked < program.ticks
  /\ ticked' = ticked + 1
  /\ nextTickQueue' = Append(nextTickQueue, ticked')
  /\ need_tick_cb' = TRUE
  /\ ev' = NeedTickCallback(ev)
  /\ UNCHANGED <<tickI, tickL, gc_timer, io, phase, js, pollVars, sent, poolVars,
                 events, ran>>

Started == {w \in Workers : worker[w] # "unborn"}
Waiting == {w \in Workers : worker[w] \in {"timedwait", "wait"}}

\* etp_maybe_start_thread: the threads there are do not cover the requests that
\* no worker has finished.
NeedsThread(reqs, pend) ==
  /\ Cardinality(Started) < program.threads
  /\ Cardinality(Started) + pend - reqs < 0

\* "wk" with a new thread, if one is needed.
MaybeStartThread(wk, reqs, pend) ==
  IF NeedsThread(reqs, pend)
  THEN {[wk EXCEPT ![w] = "running"] : w \in Workers \ Started}
  ELSE {wk}

\* pthread_cond_signal wakes one waiting thread, and is lost if there is none.
Signalled ==
  IF Waiting = {} THEN {worker} ELSE {[worker EXCEPT ![w] = "running"] : w \in Waiting}

\* A variant of ASYNC_CALL that takes no reference on the loop.
KeepAlive_Not(L) == L

\* ASYNC_CALL takes a reference on the loop for every request.
KeepAlive(L) == ev_ref(L)

\* A call of fs.* with a callback: etp_submit, then ev_ref.
Submit(r) ==
  /\ js # "none"
  /\ r \notin finished
  /\ \A k \in 1..Len(req_queue) : req_queue[k] # r
  /\ \A k \in 1..Len(res_queue) : res_queue[k] # r
  /\ \A w \in Workers : job[w] # r
  /\ nreqs' = nreqs + 1
  /\ nready' = nready + 1
  /\ req_queue' = Append(req_queue, r)
  /\ \E wk \in Signalled : worker' \in MaybeStartThread(wk, nreqs', npending)
  /\ ev' = KeepAlive(ev)
  /\ UNCHANGED <<tickVars, gc_timer, io, phase, js, pollVars, sent, res_queue,
                 npending, job, events, timeouts>>

\* The program watches a socket or stops doing so.
WatchIo ==
  /\ js # "none" /\ ~io
  /\ io' = TRUE
  /\ ev' = ev_ref(ev)
  /\ UNCHANGED <<tickVars, gc_timer, phase, js, pollVars, sent, poolVars, events>>

UnwatchIo ==
  /\ js # "none" /\ io
  /\ io' = FALSE
  /\ ev' = [idle |-> ev.idle, activecnt |-> ev.activecnt - 1,
            pending |-> ev.pending \ {"io"}]
  /\ UNCHANGED <<tickVars, gc_timer, phase, js, pollVars, sent, poolVars, events>>

-----------------------------------------------------------------------------
(* The loop.                                                                *)

\* The script has been loaded: start eio_poller and enter ev_loop.
EnterLoop ==
  /\ phase = "load"
  /\ phase' = "prepare" /\ js' = "none"
  /\ ev' = ev_idle_start(ev, "eio_poller")
  /\ UNCHANGED <<tickVars, gc_timer, io, pollVars, sent, poolVars, events>>

\* Tick(): nothing unless a tick is needed; otherwise clear the flag, stop the
\* spinner and call _tickCallback, which takes the length of the queue.
Tick(L) ==
  IF ~need_tick_cb
  THEN ev' = L /\ UNCHANGED <<need_tick_cb, tickI, tickL, js, ran>>
  ELSE /\ need_tick_cb' = FALSE
       /\ ev' = ev_idle_stop(L, "tick_spinner")
       /\ IF nextTickQueue = << >>
          THEN UNCHANGED <<tickI, tickL, js, ran>>
          ELSE /\ tickI' = 1 /\ tickL' = Len(nextTickQueue)
               /\ js' = "tick"
               /\ ran' = Append(ran, nextTickQueue[1])

PrepareTick ==
  /\ phase = "prepare" /\ js = "none"
  /\ phase' = "block"
  /\ Tick(ev)
  /\ UNCHANGED <<nextTickQueue, ticked, gc_timer, io, pollVars, sent, poolVars, events>>

CheckTick ==
  /\ Invoked("check_tick")
  /\ Tick(Popped("check_tick"))
  /\ UNCHANGED <<nextTickQueue, ticked, gc_timer, io, phase, pollVars, sent,
                 poolVars, events>>

\* ev_loop waits unless an idle watcher is active or nothing is.
Blocking == ev.idle = {} /\ ev.activecnt # 0

\* The sources other than the pool that may be ready now.
Ready ==
  {s \in {"io", "gc_timer"} :
     /\ s = "io" => io
     /\ s = "gc_timer" => gc_timer
     /\ events < MaxEvents}

\* backend_poll, pipecb, timers_reify, idle_reify: idle watchers are queued only
\* when nothing else is pending.
Poll ==
  /\ phase = "block" /\ js = "none"
  /\ \E R \in SUBSET Ready :
       LET fed == R \cup sent IN
       /\ Blocking => fed # {}
       /\ events' = IF R = {} THEN events ELSE events + 1
       /\ ev' = [idle |-> ev.idle, activecnt |-> ev.activecnt,
                 pending |-> fed \cup {"gc_check", "check_tick"}
                             \cup (IF fed = {} THEN ev.idle ELSE {})]
  /\ sent' = {}
  /\ phase' = "invoke"
  /\ UNCHANGED <<tickVars, gc_timer, io, js, pollVars, poolVars>>

\* The end of an iteration: run another one while something is active.
Iterate ==
  /\ phase = "invoke" /\ js = "none" /\ poll = "none" /\ ev.pending = {}
  /\ phase' = IF ev.activecnt # 0 THEN "prepare" ELSE "exit"
  /\ UNCHANGED <<tickVars, ev, gc_timer, io, js, pollVars, sent, poolVars, events>>

-----------------------------------------------------------------------------
(* Callbacks of the loop that call no user code.  Spin, the empty callback  *)
(* of tick_spinner, is never invoked: CheckTick comes first and stops it.   *)

\* Check: start the GC timer, without keeping the loop alive for it, and start
\* gc_idle if the last ticks were slow.  How slow they were is left open: the clock
\* is not modelled, and TICK_TIME reads outside its array during the first ticks.
Check ==
  /\ Invoked("gc_check")
  /\ gc_timer' = TRUE
  /\ ev' \in {Popped("gc_check"), ev_idle_start(Popped("gc_check"), "gc_idle")}
  /\ UNCHANGED <<tickVars, io, phase, js, pollVars, sent, poolVars, events>>

\* Idle: V8::IdleNotification() of the SpiderMonkey shim always returns true.
Idle ==
  /\ Invoked("gc_idle")
  /\ ev' = ev_idle_stop(Popped("gc_idle"), "gc_idle")
  /\ gc_timer' = FALSE
  /\ UNCHANGED <<tickVars, io, phase, js, pollVars, sent, poolVars, events>>

CheckStatus ==
  /\ Invoked("gc_timer")
  /\ ev' \in {Popped("gc_timer"), ev_idle_start(Popped("gc_timer"), "gc_idle")}
  /\ UNCHANGED <<tickVars, gc_timer, io, phase, js, pollVars, sent, poolVars, events>>

-----------------------------------------------------------------------------
(* Polling the pool.                                                        *)

\* DoPoll, WantPollNotifier and DonePollNotifier enter eio_poll().
StartPoll(w) ==
  /\ Invoked(w)
  /\ ev' = Popped(w)
  /\ poll' = w /\ maxreqs' = MaxPollReqs
  /\ UNCHANGED <<tickVars, gc_timer, io, phase, js, sent, poolVars, events, finished>>

\* What they do when eio_poll() returns -1: more results may be waiting.  The variant
\* starts no idle watcher.
PolledSome_NoStart(w) == ev

PolledSome(w) == IF w = "want" THEN ev_idle_start(ev, "eio_poller") ELSE ev

\* What they do when it returns 0: there was no result left.
PolledAll(w) ==
  IF w \in {"eio_poller", "done"} THEN ev_idle_stop(ev, "eio_poller") ELSE ev

\* nreqs after a request has been finished.
Uncounted(n) == n - 1

\* etp_poll finds a result: take it, send "done" when it was the last one, and
\* finish it, which drops the reference on the loop and calls the callback.
PollShift ==
  /\ poll # "none" /\ js = "none" /\ maxreqs > 0
  /\ res_queue # << >>
  /\ worker' \in MaybeStartThread(worker, nreqs, npending)
  /\ res_queue' = Tail(res_queue)
  /\ sent' = IF res_queue' = << >> THEN sent \cup {"done"} ELSE sent
  /\ npending' = npending - 1 /\ nreqs' = Uncounted(nreqs)
  /\ finished' = finished \cup {Head(res_queue)}
  /\ ev' = ev_unref(ev)
  /\ js' = "after"
  /\ maxreqs' = maxreqs - 1
  /\ UNCHANGED <<tickVars, gc_timer, io, phase, poll, req_queue, nready, job, events,
                 timeouts>>

\* etp_poll finds no result and returns 0.
PollEmpty ==
  /\ poll # "none" /\ js = "none" /\ maxreqs > 0
  /\ res_queue = << >>
  /\ worker' \in MaybeStartThread(worker, nreqs, npending)
  /\ ev' = PolledAll(poll)
  /\ poll' = "none"
  /\ UNCHANGED <<tickVars, gc_timer, io, phase, js, maxreqs, sent, req_queue,
                 res_queue, nreqs, nready, npending, job, events, timeouts, finished>>

\* etp_poll has finished max_poll_reqs requests and returns -1.
PollLimit ==
  /\ poll # "none" /\ js = "none" /\ maxreqs = 0
  /\ ev' = PolledSome(poll)
  /\ poll' = "none"
  /\ UNCHANGED <<tickVars, gc_timer, io, phase, js, maxreqs, sent, poolVars, events,
                 finished>>

-----------------------------------------------------------------------------
(* User code called by the loop returns or throws.                          *)

OnIo ==
  /\ Invoked("io")
  /\ ev' = Popped("io")
  /\ js' = "io"
  /\ UNCHANGED <<tickVars, gc_timer, io, phase, pollVars, sent, poolVars, events>>

\* A callback of the pool or of a socket returns; so does the listener of
\* 'uncaughtException'.
Return ==
  /\ js \in {"after", "io", "uncaught"}
  /\ js' = "none"
  /\ UNCHANGED <<tickVars, ev, gc_timer, io, phase, pollVars, sent, poolVars, events>>

\* A tick returns: call the next one of this _tickCallback, or drop the ones that ran.
TickReturn ==
  /\ js = "tick"
  /\ IF tickI < tickL
     THEN /\ tickI' = tickI + 1
          /\ ran' = Append(ran, nextTickQueue[tickI + 1])
          /\ UNCHANGED <<nextTickQueue, tickL, js>>
     ELSE /\ nextTickQueue' = SubSeq(nextTickQueue, tickL + 1, Len(nextTickQueue))
          /\ tickI' = 0 /\ tickL' = 0
          /\ js' = "none"
          /\ UNCHANGED ran
  /\ UNCHANGED <<need_tick_cb, ticked, ev, gc_timer, io, phase, pollVars, sent,
                 poolVars, events>>

\* FatalException: exit unless 'uncaughtException' has a listener.
Fatal ==
  \/ js' = "uncaught" /\ phase' = phase
  \/ js' = "none" /\ phase' = "dead"

\* Variants of the handler in _tickCallback: drop one tick less, or do not
\* ask for another tick.
Kept_Throwing(q) == SubSeq(q, tickI, Len(q))
MoreTicks_Never == FALSE

Kept(q) == SubSeq(q, tickI + 1, Len(q))
MoreTicks == tickI < tickL

\* A tick throws: drop it and the ones before it, and ask for another tick if some
\* of this _tickCallback have not run.
TickThrow ==
  /\ js = "tick"
  /\ nextTickQueue' = Kept(nextTickQueue)
  /\ IF MoreTicks
     THEN need_tick_cb' = TRUE /\ ev' = NeedTickCallback(ev)
     ELSE UNCHANGED <<need_tick_cb, ev>>
  /\ tickI' = 0 /\ tickL' = 0
  /\ Fatal
  /\ UNCHANGED <<ticked, ran, gc_timer, io, pollVars, sent, poolVars, events>>

Throw ==
  /\ js \in {"after", "io"}
  /\ Fatal
  /\ UNCHANGED <<tickVars, ev, gc_timer, io, pollVars, sent, poolVars, events>>

-----------------------------------------------------------------------------
(* The workers: etp_proc.                                                   *)

\* A worker takes a request off the queue.
WorkerTakes(w) ==
  /\ worker[w] = "running" /\ job[w] = NoReq
  /\ req_queue # << >>
  /\ job' = [job EXCEPT ![w] = Head(req_queue)]
  /\ req_queue' = Tail(req_queue)
  /\ nready' = nready - 1
  /\ UNCHANGED <<tickVars, ev, gc_timer, io, phase, js, pollVars, sent, res_queue,
                 nreqs, npending, worker, events, timeouts>>

\* There is none: wait on the condition for IDLE_TIMEOUT seconds.
WorkerWaits(w) ==
  /\ worker[w] = "running" /\ job[w] = NoReq
  /\ req_queue = << >>
  /\ worker' = [worker EXCEPT ![w] = "timedwait"]
  /\ UNCHANGED <<tickVars, ev, gc_timer, io, phase, js, pollVars, sent, req_queue,
                 res_queue, nreqs, nready, npending, job, events, timeouts>>

\* The wait times out: the thread waits no longer and has yet to take the lock back.
WorkerTimesOut(w) ==
  /\ worker[w] = "timedwait" /\ timeouts < program.timeouts
  /\ timeouts' = timeouts + 1
  /\ worker' = [worker EXCEPT ![w] = "timedout"]
  /\ UNCHANGED <<tickVars, ev, gc_timer, io, phase, js, pollVars, sent, req_queue,
                 res_queue, nreqs, nready, npending, job, events>>

\* It has the lock: as no more than max_idle workers are idle, it waits again,
\* without a time limit and without looking at the queue.
WorkerIdles(w) ==
  /\ worker[w] = "timedout"
  /\ worker' = [worker EXCEPT ![w] = "wait"]
  /\ UNCHANGED <<tickVars, ev, gc_timer, io, phase, js, pollVars, sent, req_queue,
                 res_queue, nreqs, nready, npending, job, events, timeouts>>

\* reqq_push returns the size the queue had: want_poll is called on an empty queue.
Edge(q) == q = << >>

\* The request has been executed: queue the result.
WorkerFinishes(w) ==
  /\ worker[w] = "running" /\ job[w] # NoReq
  /\ npending' = npending + 1
  /\ res_queue' = Append(res_queue, job[w])
  /\ sent' = IF Edge(res_queue) THEN sent \cup {"want"} ELSE sent
  /\ job' = [job EXCEPT ![w] = NoReq]
  /\ UNCHANGED <<tickVars, ev, gc_timer, io, phase, js, pollVars, req_queue, nreqs,
                 nready, worker, events, timeouts>>

-----------------------------------------------------------------------------
Calls == NextTick \/ (\E r \in program.reqs : Submit(r)) \/ WatchIo \/ UnwatchIo

Main ==
  \/ EnterLoop \/ PrepareTick \/ CheckTick \/ Poll \/ Iterate
  \/ Check \/ Idle \/ CheckStatus
  \/ \E w \in {"eio_poller", "want", "done"} : StartPoll(w)
  \/ PollShift \/ PollEmpty \/ PollLimit
  \/ OnIo \/ Return \/ TickReturn \/ TickThrow \/ Throw

Work(w) == WorkerTakes(w) \/ WorkerWaits(w) \/ WorkerIdles(w) \/ WorkerFinishes(w)

\* Past the end of the process, or waiting for a socket that is never ready again,
\* or for a request that no worker looks at (see IdleWithoutWork).
Terminated ==
  /\ \/ phase \in {"exit", "dead"}
     \/ /\ phase = "block" /\ js = "none" /\ Blocking /\ sent = {} /\ Ready = {}
        /\ \A w \in Workers : job[w] = NoReq
        /\ (io /\ req_queue = << >>) \/ timeouts > 0
  /\ UNCHANGED vars

Alive == phase \notin {"exit", "dead"}

Next ==
  /\ \/ Alive /\ Calls
     \/ Alive /\ Main
     \/ \E w \in Workers : Alive /\ (Work(w) \/ WorkerTimesOut(w))
     \/ Terminated
  /\ UNCHANGED program

Spec == Init /\ [][Next]_vars

\* Every thread that can take a step takes one.  User code makes finitely many calls
\* and returns: its calls are bounded and Return, TickReturn are steps of Main.
FairSpec ==
  /\ Spec
  /\ WF_vars(Alive /\ Main /\ UNCHANGED program)
  /\ \A w \in Workers : WF_vars(Alive /\ Work(w) /\ UNCHANGED program)

-----------------------------------------------------------------------------
TypeOK ==
  /\ nextTickQueue \in Seq(Nat) /\ tickI \in Nat /\ tickL \in Nat
  /\ need_tick_cb \in BOOLEAN /\ gc_timer \in BOOLEAN /\ io \in BOOLEAN
  /\ ev \in [idle : SUBSET Idles, activecnt : Nat, pending : SUBSET Watchers]
  /\ phase \in {"load", "prepare", "block", "invoke", "exit", "dead"}
  /\ js \in {"none", "script", "tick", "after", "io", "uncaught"}
  /\ poll \in {"none", "eio_poller", "want", "done"}
  /\ maxreqs \in 0..MaxPollReqs
  /\ sent \subseteq Asyncs
  /\ req_queue \in Seq(Reqs) /\ res_queue \in Seq(Reqs)
  /\ nreqs \in Nat /\ nready \in Nat /\ npending \in Nat
  /\ worker \in [Workers -> {"unborn", "running", "timedwait", "timedout", "wait"}]
  /\ job \in [Workers -> Reqs \cup {NoReq}]
  /\ events \in Nat /\ timeouts \in Nat
  /\ ticked \in Nat /\ ran \in Seq(Nat) /\ finished \subseteq Reqs
  /\ program \in Programs

\* A tick is never stranded: whenever the loop is between callbacks and the tick
\* queue is not empty, a tick has been asked for and the spinner keeps the loop from
\* blocking or ending, also after a tick has thrown (_tickCallback, NeedTickCallback).
TicksScheduled ==
  Alive /\ js # "tick" /\ nextTickQueue # << >> =>
    need_tick_cb /\ "tick_spinner" \in ev.idle

\* Every callback given to nextTick runs at most once and in the order of the calls,
\* whatever throws and whatever is added meanwhile (_tickCallback).
TicksInOrder == \A k \in 1..Len(ran) : ran[k] = k

\* A result is never stranded: while there is one, the loop is in eio_poll(), will be
\* because the want notifier was sent or fed, or polls on every idle iteration
\* (WantPollNotifier, DonePollNotifier, DoPoll against etp_proc and etp_poll).
ResultsNoticed ==
  Alive /\ phase # "load" /\ res_queue # << >> =>
    \/ poll # "none"
    \/ "want" \in sent \cup ev.pending
    \/ "eio_poller" \in ev.idle

\* The counters of the pool agree with its queues and workers (nreqs, nready and
\* npending of eio.c, which decide when a thread is started).
PoolCounted ==
  /\ nready = Len(req_queue)
  /\ npending = Len(res_queue)
  /\ nreqs = nready + npending + Cardinality({w \in Workers : job[w] # NoReq})

\* The loop counts one reference for every active idle watcher, unfinished request
\* and watched socket, and none for the GC timer: ev_ref and ev_unref are balanced, and
\* the process does not end by itself while ticks or requests are outstanding.
RefsBalanced ==
  /\ ev.activecnt = Cardinality(ev.idle) + nreqs + (IF io THEN 1 ELSE 0)
  /\ PoolCounted
  /\ phase = "exit" => nextTickQueue = << >> /\ nreqs = 0

Submitted(r) ==
  \/ \E k \in 1..Len(req_queue) : req_queue[k] = r
  \/ \E k \in 1..Len(res_queue) : res_queue[k] = r
  \/ \E w \in Workers : job[w] = r

\* Every tick eventually runs, and the callback of every request is eventually called
\* (After), or the process dies of an exception; once a worker's wait has run into its
\* time limit a request may stay queued (see IdleWithoutWork).
WorkDone ==
  /\ \A n \in 1..MaxTicks : ticked >= n ~> (Len(ran) >= n \/ phase = "dead")
  /\ \A r \in Reqs : Submitted(r) ~> (r \in finished \/ phase = "dead" \/ timeouts > 0)

\* A worker that waits without a time limit has nothing to do: eio.c lets it do so
\* because it is "allowed to idle".  Some worker looks at the queue, or the queue is
\* empty.
IdleWithoutWork ==
  req_queue # << >> /\ Alive =>
    \E w \in Workers : worker[w] \in {"running", "timedwait", "timedout"}
=============================================================================
