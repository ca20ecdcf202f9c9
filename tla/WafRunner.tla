----------------------------- MODULE WafRunner -----------------------------
(***************************************************************************)
(* The task scheduler of waf, the tool that builds node (Makefile,         *)
(* tools/waf-light).  One thread, Parallel.start() of Runner.py, takes     *)
(* sets of tasks from the TaskManager of Task.py, decides which tasks may  *)
(* run and hands them to consumer threads by the queue ready; it collects  *)
(* them from the queue out.  The threads share hasrun of the tasks, stop   *)
(* and error without locks.                                                *)
(*                                                                         *)
(* The lists outstanding and frozen are sets: postpone() puts a task at    *)
(* either end at random, and dictionaries order the tasks of a set.        *)
(***************************************************************************)
EXTENDS Integers, Sequences, FiniteSets

CONSTANTS
  Tasks, Consumers,
  NoTask,    \* no task
  GAP,       \* 15 in the code
  MAXJOBS,   \* more than there are tasks
  Builds     \* what is built, see below

(***************************************************************************)
(* A build: its groups of tasks (add_group), the type of each task with    *)
(* its constraints, run_after, the tasks that a task adds when it is run   *)
(* (more_tasks), maxjobs, algotype, the option keep, the tasks that are    *)
(* marked as run from the start, those that may be up to date, those that  *)
(* may fail and those that may raise SystemExit.                           *)
(***************************************************************************)
VARIABLES
  bld,
  main,                  \* where start() and compile() of the main thread are
  group, left, order,    \* current_group, its cstr_groups and its cstr_order
  temp_tasks,            \* JOBCONTROL: tasks put on hold
  run_after, maxjobs,
  outstanding, frozen,   \* tasks to process, tasks that wait for others
  count,                 \* tasks not in the producer area
  ready, out,            \* the queues to and from the consumers
  stop, error,
  consumer,              \* what each thread does, with its task
  hasrun,                \* NOT_RUN is "unset" once the task was executed
  tasks_done,
  started                \* history: how often each task was executed

mgrVars == <<group, left, order, temp_tasks, run_after>>
vars == <<bld, main, mgrVars, maxjobs, outstanding, frozen, count, ready, out, stop,
          error, consumer, hasrun, tasks_done, started>>

numjobs == Cardinality(Consumers)
ItsTasks(k) == {t \in bld.groups[group] : bld.type[t] = k}

\* Where a thread has a task; one that has ended keeps its last.
Running == {"run", "stop", "error", "put", "gone"}

-----------------------------------------------------------------------------
(* Constraints between types of tasks.                                      *)

compare_exts(a, b) ==
  IF a.ext_in \cap b.ext_out # {} THEN -1
  ELSE IF b.ext_in \cap a.ext_out # {} THEN 1 ELSE 0

compare_partial(a, b) ==
  IF b.name \in a.after THEN -1
  ELSE IF b.name \in a.before THEN 1
  ELSE IF a.name \in b.after THEN 1
  ELSE IF a.name \in b.before THEN -1 ELSE 0

Compare(a, b) ==
  LET exts == compare_exts(a, b) IN IF exts # 0 THEN exts ELSE compare_partial(a, b)

Precedes(a, b) == Compare(a, b) > 0

(* What a build may be.  A task is in one group; a task that a task adds is a new one, *)
(* of no group and of no other task; a task that does not set maxjobs has MAXJOBS.     *)
(* Types that name each other are named consistently: extract_constraints compares     *)
(* two types once, in the order of a dictionary.                                       *)
BuildOK(b) ==
  /\ b.groups \in Seq(SUBSET Tasks) /\ b.groups # << >>
  /\ \A i, j \in DOMAIN b.groups : i # j => b.groups[i] \cap b.groups[j] = {}
  /\ b.more \in [Tasks -> SUBSET Tasks]
  /\ \A p \in Tasks : \A i \in DOMAIN b.groups : b.more[p] \cap b.groups[i] = {}
  /\ \A p, q \in Tasks : p # q => b.more[p] \cap b.more[q] = {}
  /\ b.run_after \subseteq Tasks \X Tasks
  /\ b.maxjobs \in [Tasks -> 1..MAXJOBS]
  /\ b.algotype \in {"NORMAL", "JOBCONTROL", "MAXPARALLEL"} /\ b.keep \in BOOLEAN
  /\ \A s, t \in Tasks : b.type[s] # b.type[t] =>
        Compare(b.type[s], b.type[t]) = -Compare(b.type[t], b.type[s])

ASSUME BuildAssumption ==
  /\ IsFiniteSet(Consumers) /\ NoTask \notin Tasks
  /\ GAP \in Nat /\ MAXJOBS \in Nat \ {0}
  /\ \A b \in Builds : BuildOK(b)

\* extract_constraints: which types of a group come before which.
Constraints(types) == {p \in types \X types : p[1] # p[2] /\ Precedes(p[1], p[2])}

Types(g) == {bld.type[t] : t \in g}

-----------------------------------------------------------------------------
Init ==
  /\ bld \in Builds
  /\ main = "loop"
  /\ group = 1
  /\ left = Types(bld.groups[1]) /\ order = Constraints(Types(bld.groups[1]))
  /\ temp_tasks = {} /\ run_after = bld.run_after
  /\ maxjobs = MAXJOBS
  /\ outstanding = {} /\ frozen = {}
  /\ count = 0
  /\ ready = << >> /\ out = << >>
  /\ stop = FALSE /\ error = FALSE
  /\ consumer = [c \in Consumers |-> [at |-> "none", task |-> NoTask]]
  /\ hasrun = [t \in Tasks |-> IF t \in bld.marked THEN "skipped" ELSE "not_run"]
  /\ tasks_done = [t \in Tasks |-> 0]
  /\ started = [t \in Tasks |-> 0]

-----------------------------------------------------------------------------
(* The task manager.                                                        *)

\* tasks_in_parallel: the types that no type left comes before.
Unconnected == {k \in left : \A p \in order : p[2] # k}
Parallel == UNION {ItsTasks(k) : k \in Unconnected}

\* tasks_by_max_jobs: of the tasks on hold those with the smallest limit.
Limit(ts) == CHOOSE m \in {bld.maxjobs[t] : t \in ts} : \A t \in ts : m <= bld.maxjobs[t]
Tightest(ts) == {t \in ts : bld.maxjobs[t] = Limit(ts)}

\* tasks_with_inner_constraints: types become constraints on their tasks.
Inner ==
  UNION {ItsTasks(p[2]) \X ItsTasks(p[1]) : p \in order}

\* The group gives its next set of tasks, by the algorithm of the build.
NextOfGroup ==
  \/ /\ bld.algotype = "NORMAL" /\ Unconnected # {}
     /\ outstanding' = outstanding \cup Parallel
     /\ left' = left \ Unconnected
     /\ order' = {p \in order : p[1] \notin Unconnected}
     /\ maxjobs' = MAXJOBS
     /\ UNCHANGED <<temp_tasks, run_after>>
  \/ /\ bld.algotype = "JOBCONTROL" /\ (temp_tasks # {} \/ Unconnected # {})
     /\ LET held == IF temp_tasks # {} THEN temp_tasks ELSE Parallel
        IN /\ outstanding' = outstanding \cup Tightest(held)
           /\ temp_tasks' = held \ Tightest(held)
           /\ maxjobs' = Limit(held)
     /\ IF temp_tasks # {} THEN UNCHANGED <<left, order>>
        ELSE /\ left' = left \ Unconnected
             /\ order' = {p \in order : p[1] \notin Unconnected}
     /\ UNCHANGED run_after
  \/ /\ bld.algotype = "MAXPARALLEL" /\ left # {}
     /\ outstanding' = outstanding \cup bld.groups[group]
     /\ run_after' = run_after \cup Inner
     /\ left' = {} /\ order' = {}
     /\ maxjobs' = MAXJOBS
     /\ UNCHANGED temp_tasks

\* Types left that all wait for others: 'circular order constraint detected'.
Circular == bld.algotype # "MAXPARALLEL" /\ temp_tasks = {} /\ left # {} /\ Unconnected = {}

\* get_next_set: one group after the other until one has tasks.
GetNextSet ==
  /\ main = "nextset"
  /\ \/ NextOfGroup /\ main' = "next" /\ UNCHANGED group
     \/ Circular /\ main' = "raised" /\ UNCHANGED <<mgrVars, outstanding, maxjobs>>
     \/ /\ left = {} /\ temp_tasks = {}
        /\ group < Len(bld.groups)
        /\ group' = group + 1
        /\ left' = Types(bld.groups[group + 1])
        /\ order' = Constraints(left')
        /\ UNCHANGED <<main, temp_tasks, run_after, outstanding, maxjobs>>
     \/ /\ left = {} /\ temp_tasks = {}
        /\ group = Len(bld.groups)
        /\ main' = "next"
        /\ UNCHANGED <<mgrVars, outstanding, maxjobs>>
  /\ UNCHANGED <<bld, frozen, count, ready, out, stop, error, consumer, hasrun,
                 tasks_done, started>>

-----------------------------------------------------------------------------
(* The main thread.                                                         *)

\* while not self.stop
Loop ==
  /\ main = "loop"
  /\ main' = IF stop THEN "collect" ELSE "refill"
  /\ UNCHANGED <<bld, mgrVars, maxjobs, outstanding, frozen, count, ready, out, stop,
                 error, consumer, hasrun, tasks_done, started>>

\* get_out: the task that comes back is finished; tasks it adds are processed too.
get_out ==
  /\ out # << >>
  /\ out' = Tail(out)
  /\ tasks_done' = [tasks_done EXCEPT ![Head(out)] = @ + 1]
  /\ count' = count - 1

More == IF stop THEN {} ELSE bld.more[Head(out)]

Full_OffByOne == count > numjobs + GAP \/ count > maxjobs

Full == count > numjobs + GAP \/ count >= maxjobs

\* refill_task_list waits while too many tasks are with the consumers.
RefillFull ==
  /\ main = "refill" /\ Full
  /\ get_out
  /\ outstanding' = outstanding \cup More
  /\ UNCHANGED <<bld, main, mgrVars, maxjobs, frozen, ready, stop, error, consumer, hasrun,
                 started>>

\* The next set is asked for without waiting for the consumers.
Thaw_Early(os, n) ==
  /\ IF frozen # {} THEN outstanding' = os \cup frozen /\ frozen' = {}
     ELSE outstanding' = os /\ UNCHANGED frozen
  /\ main' = IF frozen = {} THEN "nextset" ELSE "next"

\* The rest of an iteration of refill_task_list, with os outstanding and n with the
\* consumers: frozen tasks are looked at again, or the next set is asked for.
Thaw(os, n) ==
  /\ IF frozen # {} THEN outstanding' = os \cup frozen /\ frozen' = {}
     ELSE outstanding' = os /\ UNCHANGED frozen
  /\ main' = IF frozen = {} /\ n = 0 THEN "nextset"
             ELSE IF frozen \cup os # {} THEN "next" ELSE "refill"

Refill ==
  /\ main = "refill" /\ ~Full
  /\ \/ /\ outstanding # {} /\ main' = "next"
        /\ UNCHANGED <<outstanding, frozen, count, out, tasks_done>>
     \/ /\ outstanding = {} /\ count > 0
        /\ get_out
        /\ Thaw(More, count - 1)
     \/ /\ outstanding = {} /\ count = 0
        /\ Thaw({}, 0)
        /\ UNCHANGED <<count, out, tasks_done>>
  /\ UNCHANGED <<bld, mgrVars, maxjobs, ready, stop, error, consumer, hasrun, started>>

\* error_handler, called by the main thread; no other thread sees it half done.
MainError == stop' = (stop \/ ~bld.keep) /\ error' = TRUE

Finish(t, how) ==
  /\ hasrun' = [hasrun EXCEPT ![t] = how]
  /\ tasks_done' = [tasks_done EXCEPT ![t] = @ + 1]

\* It waits until they have succeeded.
MustWait_Success(t) == \E p \in Tasks : <<t, p>> \in run_after /\ hasrun[p] # "success"

\* runnable_status of a task, when it does not raise: a task waits for the tasks of run_after.
MustWait(t) == \E p \in Tasks : <<t, p>> \in run_after /\ hasrun[p] \in {"not_run", "unset"}

\* RUN_ME: the task is handed over; the first one creates the threads.
Hand(t) ==
  /\ count' = count + 1
  /\ ready' = Append(ready, t)
  /\ consumer' = [c \in Consumers |->
       IF consumer[c].at = "none" THEN [at |-> "get", task |-> NoTask] ELSE consumer[c]]

\* get_next and what start() does with the task.
Process(t) ==
  /\ main = "next" /\ t \in outstanding
  /\ main' = "loop"
  /\ outstanding' = outstanding \ {t}
  /\ \/ /\ hasrun[t] # "not_run"
        /\ Finish(t, hasrun[t])
        /\ UNCHANGED <<frozen, count, ready, stop, error, consumer>>
     \/ /\ hasrun[t] = "not_run" /\ MustWait(t)
        /\ frozen' = frozen \cup {t}
        /\ UNCHANGED <<count, ready, stop, error, consumer, hasrun, tasks_done>>
     \/ /\ hasrun[t] = "not_run" /\ ~MustWait(t) /\ t \in bld.fresh
        /\ Finish(t, "skipped")
        /\ UNCHANGED <<frozen, count, ready, stop, error, consumer>>
     \/ /\ hasrun[t] = "not_run" /\ ~MustWait(t) /\ t \in bld.faulty
        /\ IF stop /\ ~bld.keep
           THEN Finish(t, "skipped") /\ UNCHANGED <<stop, error>>
           ELSE Finish(t, "exception") /\ MainError
        /\ UNCHANGED <<frozen, count, ready, consumer>>
     \/ /\ hasrun[t] = "not_run" /\ ~MustWait(t)
        /\ Hand(t)
        /\ UNCHANGED <<frozen, stop, error, hasrun, tasks_done>>
  /\ UNCHANGED <<bld, mgrVars, maxjobs, out, started>>

\* get_next finds no task: tasks may add new ones, or it is time to exit.
NoneLeft ==
  /\ main = "next" /\ outstanding = {}
  /\ main' = IF count > 0 THEN "loop" ELSE "collect"
  /\ UNCHANGED <<bld, mgrVars, maxjobs, outstanding, frozen, count, ready, out, stop,
                 error, consumer, hasrun, tasks_done, started>>

\* After the loop: 'collect all the tasks after an error'.
Collect ==
  /\ main = "collect"
  /\ \/ error /\ count > 0 /\ get_out /\ outstanding' = outstanding \cup More /\ UNCHANGED main
     \/ ~(error /\ count > 0) /\ main' = "save" /\ UNCHANGED <<out, tasks_done, count, outstanding>>
  /\ UNCHANGED <<bld, mgrVars, maxjobs, frozen, ready, stop, error, consumer, hasrun, started>>

\* compile() saves the signatures and raises BuildError when there was an error.
Compiled ==
  /\ main = "save"
  /\ main' = IF error THEN "failed" ELSE "ok"
  /\ UNCHANGED <<bld, mgrVars, maxjobs, outstanding, frozen, count, ready, out, stop,
                 error, consumer, hasrun, tasks_done, started>>

-----------------------------------------------------------------------------
(* A consumer thread.                                                       *)

Ended == main \in {"ok", "failed", "raised"}

mainVars == <<bld, main, mgrVars, maxjobs, outstanding, frozen, count, tasks_done>>

Goes(c, at, t) == consumer' = [consumer EXCEPT ![c] = [at |-> at, task |-> t]]

\* The task that goes back is kept as well.
Get_Twice(c) ==
  /\ ~Ended /\ consumer[c].at = "get" /\ ready # << >>
  /\ ready' = Tail(ready)
  /\ out' = IF stop THEN Append(out, Head(ready)) ELSE out
  /\ Goes(c, "run", Head(ready))
  /\ started' = [started EXCEPT ![Head(ready)] = @ + 1]
  /\ UNCHANGED <<mainVars, stop, error, hasrun>>

\* ready.get(); once the build stops the task goes back as it is.
Get(c) ==
  /\ ~Ended /\ consumer[c].at = "get" /\ ready # << >>
  /\ ready' = Tail(ready)
  /\ IF stop
     THEN /\ out' = Append(out, Head(ready))
          /\ UNCHANGED <<consumer, started>>
     ELSE /\ Goes(c, "run", Head(ready))
          /\ started' = [started EXCEPT ![Head(ready)] = @ + 1]
          /\ UNCHANGED out
  /\ UNCHANGED <<mainVars, stop, error, hasrun>>

\* The command ends, and post_run, well or not: a return code, an exception, a missing
\* output, or a WafError of post_run that leaves hasrun as it is.  SystemExit is no
\* Exception: it ends the thread, and the task does not go back.
Run(c) ==
  /\ ~Ended /\ consumer[c].at = "run"
  /\ LET t == consumer[c].task
     IN \/ /\ hasrun' = [hasrun EXCEPT ![t] = "success"]
           /\ Goes(c, "put", t)
        \/ /\ t \in bld.faulty
           /\ \E how \in {"crashed", "exception", "missing", "unset"} :
                hasrun' = [hasrun EXCEPT ![t] = how]
           /\ Goes(c, "stop", t)
        \/ /\ t \in bld.quits
           /\ hasrun' = [hasrun EXCEPT ![t] = "unset"]
           /\ Goes(c, "gone", t)
  /\ UNCHANGED <<mainVars, ready, out, stop, error, started>>

\* error_handler: two stores, 'not thread safe so be careful'.
SetStop(c) ==
  /\ ~Ended /\ consumer[c].at = "stop"
  /\ stop' = (stop \/ ~bld.keep)
  /\ Goes(c, "error", consumer[c].task)
  /\ UNCHANGED <<mainVars, ready, out, error, hasrun, started>>

\* The error flag is set only when the build stops for it.
SetError_OnlyStop(c) ==
  /\ ~Ended /\ consumer[c].at = "error"
  /\ error' = (error \/ ~bld.keep)
  /\ Goes(c, "put", consumer[c].task)
  /\ UNCHANGED <<mainVars, ready, out, stop, hasrun, started>>

SetError(c) ==
  /\ ~Ended /\ consumer[c].at = "error"
  /\ error' = TRUE
  /\ Goes(c, "put", consumer[c].task)
  /\ UNCHANGED <<mainVars, ready, out, stop, hasrun, started>>

Put(c) ==
  /\ ~Ended /\ consumer[c].at = "put"
  /\ out' = Append(out, consumer[c].task)
  /\ Goes(c, "get", NoTask)
  /\ UNCHANGED <<mainVars, ready, stop, error, hasrun, started>>

-----------------------------------------------------------------------------
\* The process ends, the threads are daemons.
Exit == Ended /\ UNCHANGED vars

Main ==
  \/ GetNextSet \/ Loop \/ RefillFull \/ Refill \/ NoneLeft \/ Collect \/ Compiled
  \/ \E t \in Tasks : Process(t)

Consumer(c) == Get(c) \/ Run(c) \/ SetStop(c) \/ SetError(c) \/ Put(c)

Next == Main \/ (\E c \in Consumers : Consumer(c)) \/ Exit

\* Threads are scheduled, and commands end.
Fairness == WF_vars(Main) /\ \A c \in Consumers : WF_vars(Consumer(c))

Spec == Init /\ [][Next]_vars /\ Fairness
-----------------------------------------------------------------------------
Busy == {c \in Consumers : consumer[c].at \in Running}

\* Where a task is, once for each place it is in.
Copies(q, t) == Cardinality({i \in 1..Len(q) : q[i] = t})
Held(t) == Cardinality({c \in Busy : consumer[c].task = t})
Places(t) ==
  Copies(ready, t) + Copies(out, t) + Held(t) + Cardinality({t} \cap outstanding)
  + Cardinality({t} \cap frozen) + tasks_done[t]

InGroup(t) == \E i \in DOMAIN bld.groups : t \in bld.groups[i]

(* count is the number of tasks in the queues and with the threads, no task is in   *)
(* two places or executed twice, and none is collected that the manager did not     *)
(* give: get_out() waits for exactly as many tasks as will come, whatever the       *)
(* threads do when the build stops, unless SystemExit has ended one with its task.   *)
(* With job control no more tasks are executed at                                   *)
(* a time than each task of a group among them allows; the limit of a task that was *)
(* added by a task is not looked at.                                                *)
Accounted ==
  /\ count = Len(ready) + Len(out) + Cardinality(Busy)
  /\ \A t \in Tasks : Places(t) <= 1 /\ started[t] <= 1
  /\ bld.algotype = "JOBCONTROL" =>
       \A c \in Busy : InGroup(consumer[c].task) =>
          Cardinality(Busy) <= bld.maxjobs[consumer[c].task]

\* The tasks of the group of a task whose types come before its type.
Before(t, g) ==
  {p \in g : bld.type[p] # bld.type[t] /\ Precedes(bld.type[p], bld.type[t])}

(* A task is executed only after the tasks it must run after, after those of the    *)
(* types that come before its own, and after every task of the earlier groups.      *)
Ordered ==
  \A c \in Busy, i \in DOMAIN bld.groups :
    LET t == consumer[c].task IN
    t \in bld.groups[i] =>
      /\ \A p \in Tasks : <<t, p>> \in bld.run_after => hasrun[p] # "not_run"
      /\ \A p \in Before(t, bld.groups[i]) : hasrun[p] # "not_run"
      /\ \A j \in 1..(i - 1) : \A p \in bld.groups[j] : tasks_done[p] = 1

(* A build that ends without BuildError has executed or skipped every task, each    *)
(* with success, and those that tasks added; the one exception is a thread caught   *)
(* between the two stores of error_handler(), which compile() misses.               *)
GoodIsWhole ==
  main = "ok" =>
    \/ \A t \in Tasks :
         InGroup(t) \/ (\E p \in Tasks : started[p] = 1 /\ t \in bld.more[p])
         => tasks_done[t] = 1 /\ hasrun[t] \in {"success", "skipped"}
    \/ \E c \in Consumers : consumer[c].at = "error"

(* The tasks that start() has wait for one another, for a task that left no result  *)
(* or for one that it is not given before them: start() looks at them for ever.     *)
Stuck ==
  /\ ~stop /\ count = 0 /\ outstanding \cup frozen # {}
  /\ \A t \in outstanding \cup frozen : \E p \in Tasks :
       <<t, p>> \in run_after
         /\ (p \in outstanding \cup frozen \/ hasrun[p] = "unset" \/ Places(p) = 0)

(* The build ends: no order of the threads, no failure and no task that waits or is *)
(* added leaves start() waiting for a task that does not come.  There are two       *)
(* exceptions, both in the code: a thread that SystemExit has ended, and run_after   *)
(* that cannot be met.  A circle of types is detected, except by MAXPARALLEL, which  *)
(* makes it one of run_after; a circle of run_after never is.                        *)
Terminates == <>(Ended \/ Stuck \/ \E c \in Consumers : consumer[c].at = "gone")

(* 'the compilation of one group does not begin until the previous group has        *)
(* finished': a task that a task of an earlier group has added is finished too.      *)
GroupsFinished ==
  \A c \in Busy, i \in DOMAIN bld.groups : consumer[c].task \in bld.groups[i] =>
    \A j \in 1..(i - 1) : \A p \in bld.groups[j] : \A q \in bld.more[p] :
      hasrun[p] = "success" => hasrun[q] # "not_run"
=============================================================================
