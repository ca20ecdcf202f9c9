------------------------------- MODULE Timers -------------------------------
(***************************************************************************)
(* Timeouts of the runtime: lib/timers.js on top of lib/_linklist.js, the   *)
(* Timer binding src/node_timer.cc and libev's timer heap.                  *)
(*                                                                          *)
(* All items with the same timeout m share one list and one libev watcher.  *)
(* A list is a sequence whose head is the most idle item; the pointer       *)
(* structure below it is module LinkList.  The JavaScript of the program is *)
(* single threaded: "mode" says whether the loop is free, a list callback   *)
(* is running, or user code called from a timer is running.  Only in the    *)
(* first and the last can user code call into timers.js.                    *)
(*                                                                          *)
(* Time is in milliseconds.  "now" is what new Date() returns, "evNow" is   *)
(* libev's cached loop time, which is refreshed once per loop iteration and *)
(* by Timer.start, and otherwise lags behind.                               *)
(***************************************************************************)
EXTENDS Integers, FiniteSets, Sequences

CONSTANTS
  DomTimers,    \* objects setTimeout() returns for a positive delay
  Sockets,      \* objects net.js, http.js and users enroll themselves
  RawTimers,    \* Timer objects of setTimeout(f, 0) and setInterval()
  Msecs,        \* the timeouts in use: keys of "lists"
  Programs,     \* the programs: the timers, sockets and timeouts each uses
  Repeats,      \* the delays given to setInterval()
  Horizon,      \* bound: user code makes calls only before this time
  MaxTime,      \* bound: the clock stops here
  NoOne         \* "no watcher's callback is running"

Items == DomTimers \cup Sockets
Watchers == Msecs \cup RawTimers

ASSUME TimeAssumption ==
  /\ Msecs \subseteq Nat \ {0} /\ IsFiniteSet(Msecs)
  /\ Repeats \subseteq Nat
  /\ Horizon \in Nat /\ MaxTime \in Nat /\ Horizon < MaxTime

ASSUME IdentityAssumption ==
  /\ Programs \subseteq [objects : SUBSET (Items \cup RawTimers), msecs : SUBSET Msecs]
  /\ DomTimers \cap Sockets = {}
  /\ RawTimers \cap Msecs = {}
  /\ NoOne \notin Watchers

VARIABLES
  now,          \* new Date()
  evNow,        \* libev's mn_now
  timeout,      \* item._idleTimeout, 0 for undefined
  start,        \* item._idleStart
  link,         \* item._idleNext: "undefined", "self", "listed" or "null"
  onTimeout,    \* whether item._onTimeout is a function
  list,         \* lists[m], oldest item first
  created,      \* the m for which lists[m] exists
  watcher,      \* the ev_timer and the ObjectWrap of every Timer object
  callback,     \* whether timer.callback of a raw Timer is a function
  pending,      \* watchers libev has fed but not yet invoked
  mode,         \* "idle", "loop" (in a list callback) or "user"
  cur,          \* the watcher whose callback is running
  cbNow,        \* "now" captured when the running list callback started
  touched,      \* history: when the item was last armed or active
  joined,       \* history: the lists that were empty when active() put an item
                \* into them without looking at their watcher
  ranAt,        \* history: when the callback of list m last started
  skew,         \* history: how far libev's time was ahead of the callback's "now" when
                \* the watcher of list m was last set
  program       \* the program that runs

itemVars == <<timeout, start, link, onTimeout, list, created, touched, joined>>
loopVars == <<mode, cur, cbNow>>
vars == <<now, evNow, timeout, start, link, onTimeout, list, created, watcher,
          callback, pending, mode, cur, cbNow, touched, joined, ranAt, skew, program>>

LaterOf(a, b) == IF a >= b THEN a ELSE b

-----------------------------------------------------------------------------
(* The Timer binding.  A watcher is the ev_timer together with refs_ of its *)
(* ObjectWrap: a wrap with refs_ = 0 may be collected by the JS engine.     *)

Stopped == [active |-> FALSE, at |-> 0, repeat |-> 0, refs |-> 0]

\* Timer::Start on a new Timer: the loop time is updated first, to t.
EvStart(w, after, rep, t) ==
  [active |-> TRUE, at |-> t + after, repeat |-> rep,
   refs |-> IF w.active THEN w.refs ELSE w.refs + 1]

\* A variant of Timer::Stop that unrefs a watcher that is not active.
EvStop_Always(w) ==
  [active |-> FALSE, at |-> w.at, repeat |-> w.repeat, refs |-> w.refs - 1]

\* Timer::Stop: nothing happens to a watcher that is not active.
EvStop(w) ==
  IF w.active
  THEN [active |-> FALSE, at |-> w.at, repeat |-> w.repeat, refs |-> w.refs - 1]
  ELSE w

\* Timer::Again with a positive repeat: (re)start relative to the loop time.
EvAgain(w, rep) ==
  [active |-> TRUE, at |-> evNow + rep, repeat |-> rep,
   refs |-> IF w.active THEN w.refs ELSE w.refs + 1]

\* timers_reify: an expired watcher is re-armed, or stopped if one-shot.
Rearmed(w, t) ==
  IF w.repeat > 0
  THEN [active |-> TRUE, at |-> LaterOf(w.at + w.repeat, t),
        repeat |-> w.repeat, refs |-> w.refs]
  ELSE [active |-> FALSE, at |-> w.at, repeat |-> 0, refs |-> w.refs]

-----------------------------------------------------------------------------
(* The list primitives, as the callers of _linklist.js see them.            *)

\* s without i, which is in s at most once.
In(s, i) == \E k \in 1..Len(s) : s[k] = i
Without(s, i) ==
  LET k == CHOOSE k \in 1..Len(s) : s[k] = i
  IN IF In(s, i) THEN SubSeq(s, 1, k - 1) \o SubSeq(s, k + 1, Len(s)) ELSE s

\* A plausible mistake: an emptiness test that is always true.
L_isEmpty_Always(ls, m) == TRUE

L_isEmpty(ls, m) == ls[m] = << >>
L_remove(ls, i) == [m \in Msecs |-> Without(ls[m], i)]
L_append(ls, m, i) == [L_remove(ls, i) EXCEPT ![m] = Append(@, i)]

\* unenroll() stops the watcher of the item's timeout if its list is now empty,
\* and ev_timer_stop withdraws a pending invocation.
StopIfEmpty(m, ls) ==
  IF m \in created /\ L_isEmpty(ls, m)
  THEN /\ watcher' = [watcher EXCEPT ![m] = EvStop(@)]
       /\ pending' = IF watcher[m].active THEN pending \ {m} ELSE pending
  ELSE UNCHANGED <<watcher, pending>>

Init ==
  /\ now = 0 /\ evNow = 0
  /\ timeout = [i \in Items |-> 0]
  /\ start = [i \in Items |-> 0]
  /\ link = [i \in Items |-> "undefined"]
  /\ onTimeout = [i \in Items |-> i \in Sockets]
  /\ list = [m \in Msecs |-> << >>]
  /\ created = {}
  /\ watcher = [w \in Watchers |-> Stopped]
  /\ callback = [t \in RawTimers |-> FALSE]
  /\ pending = {}
  /\ mode = "idle" /\ cur = NoOne /\ cbNow = 0
  /\ touched = [i \in Items |-> 0]
  /\ joined = {}
  /\ ranAt = [m \in Msecs |-> 0] /\ skew = [m \in Msecs |-> 0]
  /\ program \in Programs

-----------------------------------------------------------------------------
(* Calls of user code into timers.js.                                       *)

UserCode == mode \in {"idle", "user"} /\ now < Horizon

\* item._idleStart = new Date().
MarkActive(i) ==
  /\ start' = [start EXCEPT ![i] = now]
  /\ touched' = [touched EXCEPT ![i] = now]

\* The watcher is started for the first item of a list; the variants restart
\* it for every item, or start it only when the list is created.
NeedsStart_Always(m) == TRUE
NeedsStart_Once(m) == m \notin created
NeedsStart(m) == L_isEmpty(list, m)

\* insert(item, msecs): create the list on demand, start the watcher if the
\* list is empty, append.
insert(i, m) ==
  /\ MarkActive(i)
  /\ created' = created \cup {m}
  /\ watcher' = IF NeedsStart(m) THEN [watcher EXCEPT ![m] = EvAgain(@, m)] ELSE watcher
  /\ skew' = IF NeedsStart(m) THEN [skew EXCEPT ![m] = 0] ELSE skew
  /\ list' = L_append(list, m, i)
  /\ link' = [link EXCEPT ![i] = "listed"]

\* setTimeout(callback, m) with m > 0.  The object is new: it stands for one
\* that is in no list.
SetTimeout(i, m) ==
  /\ UserCode /\ link[i] # "listed"
  /\ timeout' = [timeout EXCEPT ![i] = m]
  /\ onTimeout' = [onTimeout EXCEPT ![i] = TRUE]
  /\ insert(i, m)
  /\ UNCHANGED <<now, evNow, callback, pending, loopVars, joined, ranAt>>

\* clearTimeout(timer) for a listed or an already expired timer.
ClearTimeout(i) ==
  /\ UserCode /\ onTimeout[i] /\ timeout[i] # 0
  /\ onTimeout' = [onTimeout EXCEPT ![i] = FALSE]
  /\ list' = L_remove(list, i)
  /\ link' = [link EXCEPT ![i] = "null"]
  /\ StopIfEmpty(timeout[i], L_remove(list, i))
  /\ UNCHANGED <<now, evNow, timeout, start, created, callback, loopVars,
                 touched, joined, ranAt, skew>>

\* item._idleNext is truthy.
HasNext(i) == link[i] \in {"self", "listed"}

\* enroll(item, msecs): leave the old list, remember msecs, L.init(item).
Enroll(i, m) ==
  /\ UserCode
  /\ timeout' = [timeout EXCEPT ![i] = m]
  /\ link' = [link EXCEPT ![i] = "self"]
  /\ IF HasNext(i)
     THEN /\ list' = L_remove(list, i)
          /\ StopIfEmpty(timeout[i], L_remove(list, i))
     ELSE UNCHANGED <<list, watcher, pending>>
  /\ UNCHANGED <<now, evNow, start, onTimeout, created, callback, loopVars,
                 touched, joined, ranAt, skew>>

\* unenroll(item): socket.setTimeout(0) and socket.destroy() call it.
Unenroll(i) ==
  /\ UserCode
  /\ list' = L_remove(list, i)
  /\ link' = [link EXCEPT ![i] = "null"]
  /\ StopIfEmpty(timeout[i], L_remove(list, i))
  /\ UNCHANGED <<now, evNow, timeout, start, onTimeout, created, callback,
                 loopVars, touched, joined, ranAt, skew>>

\* active(item) for an item fresh from enroll(): insert() arms the watcher.
ActiveFresh(i) ==
  /\ UserCode /\ timeout[i] # 0 /\ link[i] = "self"
  /\ insert(i, timeout[i])
  /\ UNCHANGED <<now, evNow, timeout, onTimeout, callback, pending, loopVars,
                 joined, ranAt>>

\* active(item) otherwise: the item moves to the end of its list, whatever the
\* state of the list's watcher.
ActiveAgain(i) ==
  /\ UserCode /\ timeout[i] \in created /\ link[i] # "self"
  /\ MarkActive(i)
  /\ list' = L_append(list, timeout[i], i)
  /\ link' = [link EXCEPT ![i] = "listed"]
  /\ joined' = IF L_isEmpty(list, timeout[i]) THEN joined \cup {timeout[i]} ELSE joined
  /\ UNCHANGED <<now, evNow, timeout, onTimeout, created, watcher, callback,
                 pending, loopVars, ranAt, skew>>

\* active(item) otherwise, when lists[msecs] was never created: L.append() has
\* removed the item when it reads a property of undefined and throws.
ActiveThrows(i) ==
  /\ UserCode /\ timeout[i] \in Msecs \ created /\ link[i] # "self"
  /\ start' = [start EXCEPT ![i] = now]
  /\ link' = [link EXCEPT ![i] = "null"]
  /\ UNCHANGED <<now, evNow, timeout, onTimeout, list, created, watcher,
                 callback, pending, loopVars, touched, joined, ranAt, skew>>

\* new Timer(); timer.start(after, repeat), from setTimeout(f, 0) with repeat
\* 0 and from setInterval(f, r) with repeat r, or 1 when r is 0.
StartRaw(t, after, rep) ==
  /\ UserCode
  /\ watcher[t].refs = 0 /\ t \notin pending /\ cur # t  \* a new object
  /\ evNow' = now
  /\ watcher' = [watcher EXCEPT ![t] = EvStart(Stopped, after, rep, now)]
  /\ callback' = [callback EXCEPT ![t] = TRUE]
  /\ UNCHANGED <<now, itemVars, pending, loopVars, ranAt, skew>>

\* clearTimeout(timer) and clearInterval(timer) of a raw Timer.
StopRaw(t) ==
  /\ UserCode /\ callback[t]
  /\ callback' = [callback EXCEPT ![t] = FALSE]
  /\ watcher' = [watcher EXCEPT ![t] = EvStop(@)]
  /\ pending' = IF watcher[t].active THEN pending \ {t} ELSE pending
  /\ UNCHANGED <<now, evNow, itemVars, loopVars, ranAt, skew>>

-----------------------------------------------------------------------------
(* The event loop.                                                          *)

\* Time passes, also while JavaScript runs.
Tick ==
  /\ now < MaxTime
  /\ mode # "idle" => now < Horizon
  /\ now' = now + 1
  /\ UNCHANGED <<evNow, itemVars, watcher, callback, pending, loopVars, ranAt, skew>>

\* One loop iteration: refresh the loop time, re-arm or stop every expired
\* watcher and feed them all.
Reify ==
  /\ mode = "idle" /\ pending = {}
  /\ LET due == {w \in Watchers : watcher[w].active /\ watcher[w].at < now}
     IN /\ due # {} \/ evNow # now
        /\ pending' = due
        /\ watcher' = [w \in Watchers |-> IF w \in due THEN Rearmed(watcher[w], now)
                                                       ELSE watcher[w]]
  /\ evNow' = now
  /\ UNCHANGED <<now, itemVars, callback, loopVars, ranAt, skew>>

\* Timer::OnTimeout enters the callback that insert() gave the list of m.
InvokeList(m) ==
  /\ mode = "idle" /\ m \in pending
  /\ pending' = pending \ {m}
  /\ mode' = "loop" /\ cur' = m /\ cbNow' = now
  /\ ranAt' = [ranAt EXCEPT ![m] = now]
  /\ UNCHANGED <<now, evNow, itemVars, watcher, callback, skew>>

Diff(i) == cbNow - start[i]
Due_Always(i) == TRUE
Due(i) == ~(Diff(i) + 1 < cur)

\* The most idle item is not due yet: wait for the rest of its time.
LoopWait ==
  /\ mode = "loop" /\ ~L_isEmpty(list, cur)
  /\ ~Due(Head(list[cur]))
  /\ watcher' = [watcher EXCEPT ![cur] = EvAgain(@, cur - Diff(Head(list[cur])))]
  /\ skew' = [skew EXCEPT ![cur] = LaterOf(evNow - cbNow, 0)]
  /\ mode' = "idle" /\ cur' = NoOne
  /\ UNCHANGED <<now, evNow, itemVars, callback, pending, cbNow, ranAt>>

\* The most idle item is due: remove it and call its _onTimeout.
LoopExpire ==
  /\ mode = "loop" /\ ~L_isEmpty(list, cur)
  /\ Due(Head(list[cur]))
  /\ LET i == Head(list[cur])
     IN /\ list' = L_remove(list, i)
        /\ link' = [link EXCEPT ![i] = "null"]
        /\ mode' = IF onTimeout[i] THEN "user" ELSE "loop"
  /\ UNCHANGED <<now, evNow, timeout, start, onTimeout, created, watcher,
                 callback, pending, cur, cbNow, touched, joined, ranAt, skew>>

\* The list is empty: stop its watcher.
LoopDone ==
  /\ mode = "loop" /\ L_isEmpty(list, cur)
  /\ watcher' = [watcher EXCEPT ![cur] = EvStop(@)]
  /\ mode' = "idle" /\ cur' = NoOne
  /\ UNCHANGED <<now, evNow, itemVars, callback, pending, cbNow, ranAt, skew>>

\* Timer::OnTimeout of a raw Timer.
InvokeRaw(t) ==
  /\ mode = "idle" /\ t \in pending
  /\ pending' = pending \ {t}
  /\ IF callback[t]
     THEN mode' = "user" /\ cur' = t /\ UNCHANGED watcher
     ELSE watcher' = [watcher EXCEPT ![t] = EvStop(@)] /\ UNCHANGED <<mode, cur>>
  /\ UNCHANGED <<now, evNow, itemVars, callback, cbNow, ranAt, skew>>

\* User code called from a list callback returns to its loop.
ReturnToList ==
  /\ mode = "user" /\ cur \in Msecs
  /\ mode' = "loop"
  /\ UNCHANGED <<now, evNow, itemVars, watcher, callback, pending, cur, cbNow,
                 ranAt, skew>>

\* User code called from a list callback throws and an uncaughtException
\* handler keeps the program alive: the rest of the list is not looked at.
ThrowFromList ==
  /\ mode = "user" /\ cur \in Msecs /\ now < Horizon
  /\ mode' = "idle" /\ cur' = NoOne
  /\ UNCHANGED <<now, evNow, itemVars, watcher, callback, pending, cbNow, ranAt, skew>>

OneShot_Any(w) == TRUE
OneShot(w) == w.repeat = 0

\* The callback of a raw Timer returns or throws; a one-shot is Unref()ed.
FinishRaw ==
  /\ mode = "user" /\ cur \in RawTimers
  /\ watcher' = IF OneShot(watcher[cur])
                THEN [watcher EXCEPT ![cur].refs = @ - 1] ELSE watcher
  /\ mode' = "idle" /\ cur' = NoOne
  /\ UNCHANGED <<now, evNow, itemVars, callback, pending, cbNow, ranAt, skew>>

DomCalls ==
  \E i \in DomTimers \cap program.objects :
     ClearTimeout(i) \/ \E m \in program.msecs : SetTimeout(i, m)

SocketCalls ==
  \E i \in Sockets \cap program.objects :
     \/ \E m \in program.msecs : Enroll(i, m)
     \/ Unenroll(i) \/ ActiveFresh(i) \/ ActiveAgain(i) \/ ActiveThrows(i)

RawCalls ==
  \E t \in RawTimers \cap program.objects :
     \/ StopRaw(t) \/ StartRaw(t, 0, 0)
     \/ \E r \in Repeats : StartRaw(t, r, LaterOf(r, 1))

LoopSteps ==
  \/ Reify \/ LoopWait \/ LoopExpire \/ LoopDone \/ ReturnToList \/ FinishRaw
  \/ \E m \in Msecs : InvokeList(m)
  \/ \E t \in RawTimers : InvokeRaw(t)

Next ==
  /\ Tick \/ LoopSteps \/ ThrowFromList \/ DomCalls \/ SocketCalls \/ RawCalls
  /\ UNCHANGED program

Spec == Init /\ [][Next]_vars

\* libev keeps iterating, callbacks return, and time goes on.
FairSpec == Spec /\ WF_vars(Tick /\ UNCHANGED program)
            /\ WF_vars(LoopSteps /\ UNCHANGED program)

-----------------------------------------------------------------------------
(* Properties.                                                              *)

WatcherType == [active : BOOLEAN, at : Nat, repeat : Nat, refs : Nat]

\* Every variable has its type; the callback of a list runs for a list that
\* exists.
TypeOK ==
  /\ now \in 0..MaxTime /\ evNow \in 0..now
  /\ timeout \in [Items -> Msecs \cup {0}]
  /\ start \in [Items -> 0..now] /\ touched \in [Items -> 0..now]
  /\ link \in [Items -> {"undefined", "self", "listed", "null"}]
  /\ onTimeout \in [Items -> BOOLEAN] /\ joined \subseteq Msecs
  /\ list \in [Msecs -> Seq(Items)]
  /\ created \subseteq Msecs
  /\ watcher \in [Watchers -> WatcherType]
  /\ callback \in [RawTimers -> BOOLEAN]
  /\ pending \subseteq Watchers
  /\ mode \in {"idle", "loop", "user"} /\ cur \in Watchers \cup {NoOne}
  /\ mode = "idle" <=> cur = NoOne
  /\ mode = "loop" => cur \in Msecs
  /\ cbNow \in 0..now /\ ranAt \in [Msecs -> 0..now] /\ skew \in [Msecs -> 0..now]
  /\ program \in Programs

\* A list with items in it has a running watcher: otherwise none of its items,
\* nor any item added later, would ever time out.  active() on an item that was
\* unenrolled, or has timed out, does not look at the watcher of the list: lists
\* that were empty when this happened are left out.
Armed == \A m \in Msecs \ joined : list[m] # << >> => watcher[m].active

\* The watcher of a list goes off no later than the timeout of its most idle item.  It
\* is late in two cases: by as much as libev's time was ahead of the "now" of the callback
\* that set it, because that callback started a raw Timer (Timer::Start updates the time);
\* and by a repeat after a callback that was cut short by an exception.
OnTime ==
  \A m \in Msecs \ joined : (list[m] # << >> /\ m \notin pending) =>
     watcher[m].at <= LaterOf(touched[Head(list[m])] + m + skew[m],
                              ranAt[m] + watcher[m].repeat)

\* No item times out before it has been idle for its timeout, up to the one
\* millisecond that the list callback allows for rounding.
NotEarly ==
  [][\A i \in Items : (mode = "loop" /\ link[i] = "listed" /\ link'[i] # "listed")
        => now - touched[i] >= timeout[i] - 1]_vars

\* A Timer libev may still call is referenced, so the JS engine does not
\* collect it (its destructor runs ObjectWrap's assert on refs_).
RefsSafe ==
  \A w \in Watchers :
     /\ watcher[w].refs <= 1
     /\ (\/ watcher[w].active
         \/ w \in pending
         \/ w \in RawTimers /\ w = cur /\ watcher[w].repeat = 0) => watcher[w].refs = 1

\* An item in a list eventually leaves it, because it times out or is cleared,
\* unless active() has joined its list while that was empty.
Expires ==
  \A i \in Items : (link[i] = "listed") ~> (link[i] # "listed" \/ timeout[i] \in joined)
=============================================================================
