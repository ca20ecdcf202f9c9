# A TLA+ development of the node runtime

The repository is node 0.4.3 on SpiderMonkey: JavaScript modules in `lib/`, their C++
bindings in `src/`, and the libraries libev (event loop), libeio (thread pool),
http_parser and c-ares in `deps/`. This directory holds TLA+ modules of its core, TLC
configurations that check them on small instances, and TLAPS proofs about some of them.
Paths below are relative to the repository.

Contents: [the system](#the-system), [modules](#modules), [conventions](#conventions),
[runs](#runs), [bounds](#bounds), [fairness](#fairness), [proofs](#proofs),
[observations](#observations), [what is not modelled](#what-is-not-modelled).

## The system

One thread runs libev's loop and all JavaScript; JavaScript runs to completion. Other
threads exist only in the libeio pool. The parts and how they meet:

| part | code | talks to |
|---|---|---|
| event loop, `process.nextTick`, uncaught exceptions | `src/node.js`, `src/node.cc`, `deps/libev/ev.c` | everything: calls back into JavaScript |
| thread pool | `deps/libeio/eio.c`, `src/node.cc` | runs file system calls and lookups; notifies the loop |
| timers | `lib/timers.js`, `lib/_linklist.js`, `src/node_timer.cc` | libev's timer heap; idle timeouts of sockets |
| sockets and servers | `lib/net.js`, `src/node_net.cc`, `src/node_io_watcher.cc` | loop, timers, dns, the pool (socket files) |
| file streams and `fs` | `lib/fs.js`, `src/node_file.cc` | thread pool |
| `Stream.pipe` | `lib/stream.js` | any two streams |
| HTTP | `lib/http.js`, `src/node_http_parser.cc`, `deps/http_parser` | sockets, timers |
| dns, dgram | `lib/dns.js`, `lib/dgram.js`, `src/node_cares.cc` | loop, c-ares |
| tls, crypto, https | `lib/tls.js`, `lib/crypto.js`, `src/node_crypto.cc` | sockets, OpenSSL |
| child processes | `lib/child_process.js`, `src/node_child_process.cc` | loop, sockets, signals |
| string decoder | `lib/string_decoder.js` | data of streams |
| modules, vm, Buffer, events, util, ... | `lib/`, `src/` | pure or engine-bound |
| waf, which builds node | `tools/wafadmin/` | its own threads |

`PROJECT.json` lists every part with what is modelled of it, and the hazards of the code
at the lines where they bite.

## Modules

| module | models | state and actions |
|---|---|---|
| `LinkList` | `lib/_linklist.js` | the pointers `_idleNext` and `_idlePrev` of every item and list head; `init`, `append`, `remove`, `shift` pointer by pointer |
| `IdleLists` | what `LinkList` promises | a sequence of items per list, oldest first; append, remove, expire |
| `LinkListProofs` | | proofs about `LinkList` |
| `Timers` | `lib/timers.js`, `src/node_timer.cc`, libev's timers | lists of items by timeout, Timer objects with callback, references and heap entry, libev's cached time; `setTimeout`, `clearTimeout`, `enroll`, `active`, `unenroll`, raw Timers (intervals, timeouts of 0), the list callback item by item, exceptions |
| `TimersProofs` | | proofs about `Timers` |
| `EventLoop` | `src/node.js` ticks, watchers of `src/node.cc`, `ev_loop`, libeio | tick queue, active and pending watchers, `activecnt`, request and result queue, worker threads with their waits |
| `EventLoopProofs` | | proofs about `EventLoop` |
| `StreamPipe` | `lib/stream.js` | listeners of each pipe, sources that are paused, destinations that fill, drain, end and close |
| `StreamPipeProofs` | | proofs about `StreamPipe` |
| `NetSocket` | `net.Socket` | write queue with its parallel queues, descriptors to be passed, watchers, flags, descriptor, lookups, ticks; every public method from every callback, `flush()` one write at a time |
| `NetServer` | `net.Server` | descriptors of the process, listening state, accept loop turn by turn, EMFILE reserve, requests on the socket file |
| `HttpServer` | `connectionListener`, `OutgoingMessage`, `ServerResponse` of `lib/http.js` | queues `incoming` and `outgoing`, the message that has the socket, output buffered per response |
| `HttpAgent` | `Agent`, `ClientRequest`, `OutgoingMessage` of `lib/http.js` | the agent's queue and sockets, which request has which socket, what each request has heard; `_cycle()` turn by turn, `write`, `end`, `abort`, lookups, responses, upgrades, errors, `'close'` |
| `SecurePair` | `SecurePair` and `CryptoStream` of `lib/tls.js`, `Connection` of `src/node_crypto.cc` | what is pending in both streams, the records in OpenSSL, the four locks of `_cycle()`; its stages one by one, listeners that call back into it |
| `FsReadStream` | `fs.ReadStream` | reads in flight, position, paused buffer, descriptor |
| `FsWriteStream` | `fs.WriteStream` | queue of open, write and close, one in flight |
| `FsWriteStreamProofs` | | proofs about `FsWriteStream` |
| `FileCopy` | `createReadStream(a).pipe(createWriteStream(b))` | both streams and the listeners of `pipe()` composed, over the threads of the pool; implements `StreamPipe` |
| `StringDecoder` | `lib/string_decoder.js` | the character that is incomplete; `write()` of buffers cut anywhere |
| `WafRunner` | `Runner.py`, `TaskManager` and `TaskGroup` of `Task.py`, `compile()` of `Build.py` in `tools/wafadmin` | the groups, outstanding and frozen tasks, the two queues, what each consumer thread is doing; the unlocked stores of `error_handler()` one by one |
| `WafRunnerProofs` | | proofs about `WafRunner` |

`MC_X` instantiates module `X` for TLC; the `.cfg` files give the constants. `MC_Library`,
`MC_Net` and `MC_Http` instantiate several modules, which run side by side in one state
space: a variable `part`, chosen at the start, says which module takes the steps, and the
variables of the others keep a value that means nothing. This is a way to write several
small checks as one, nothing more: the modules do not interact in it, and each conjunct of
a property there speaks of the module whose part it is. In their fairness one condition
serves a step of each part, which is the same as one condition each, because the steps of
a part that does not run are never enabled.

The modules meet at their edges. `Timers` uses the ordered lists that `LinkList` is shown
to implement. `HttpServer` sees a socket as a queue that is written in order and closes
once, which is what `NetSocket` is checked for (`WireInOrder`, `Coherent`, `Completes`), and
so does `HttpAgent`. `FileCopy` composes the streams of `lib/fs.js` and `pipe()`, and every
step of it is a step of `StreamPipe` or none: the abstract sources and destinations of that
module are what the real streams are. The pool of `EventLoop` runs the requests of `FsReadStream`,
`FsWriteStream`, `FileCopy` and `NetServer`, where a request is a record that a thread completes at
any time and the loop calls back later, in any order.

## Conventions

*User code.* A program may call any modelled method from any listener. `stack` holds what
JavaScript still has to do, innermost first; a frame `"user"` is a listener of the
program, other frames are the rest of a method that called it. So a listener that
destroys, writes to or reuses the object whose method called it is covered. Exceptions
drop the frames up to the callback's start where the code has no handler.

*Programs.* A variable `program`, chosen in `Init` from the constant `Programs` and never
changed, says what a program does (`uses`), the data it works on, and bounds. One run
covers several kinds of programs, and a property that holds only of some says so in its
text (`Uses("late")`, `Orderly`, `Regular`). The programs left out are listed under
[observations](#observations) with what goes wrong in them.

*Variants.* A definition such as `Closed_KeepTimer` before `Closed` is the same code with
a plausible slip. `PROJECT.json` names for every property a variant under which TLC
finds the property violated, and for a property that joins several statements one for each
of most of them, so each is known to depend on the code.

*Assertions.* The default build defines NDEBUG (`wscript`): assertions of C and C++ are
compiled out, those of `assert.js` are not. A failed assertion is recorded (`aborted`,
`wrong`) and a property says it does not happen.

*Data.* Chunks are numbers, messages are pieces `<<response, part>>`, a partial write is a
choice of how much the kernel takes. Text, headers and formatting are left out.

## Runs

| run | checks | shows |
|---|---|---|
| `timers` | `TypeOK`, `Armed`, `OnTime`, `RefsSafe`, `NotEarly`, `Expires` | a list with items has its watcher armed in time; a Timer libev may still call is referenced once, so it is not collected; nobody is called early; everybody is called or cleared |
| `loop` | `TypeOK`, `TicksScheduled`, `TicksInOrder`, `ResultsNoticed`, `RefsBalanced`, `WorkDone` | no tick or result is stranded, whatever throws; ticks run once and in order; the loop's reference count is exact and the process ends only when done |
| `library`, lists | `Consistent`, `Implements` | next and previous are inverse, rings are never spliced together; every operation is the one on ordered lists |
| pipes | `Complete` | each pipe carries everything to its destination in order, also a second pipe between the same streams, and destinations are ended by the sources that should; a destination with one pipe whose `write()` has returned false gets no chunk before it emits `'drain'` or `'resume'` |
| file streams | `DataInOrder`, `PausedQuiet`, `ContentInOrder` | data in order by one read at a time, whole before `'end'`, none while paused; the file written is what was accepted, in order, one request at a time, and the close comes last |
| copy | `CopyInOrder`, `ImplementsPipe` | a file piped to one stream is copied, with one chunk or one read on its way; the copy implements `StreamPipe` |
| decoder | `Decoded` | a text is decoded however it is cut |
| all of `library` | `Progress` | sources flow to their end, streams end and close, what is accepted is written, copies get done |
| `net`, sockets | `WireInOrder`, `Coherent` | data is in order whatever the pool and the kernel take, nothing follows the FIN, callbacks and passed descriptors come with their data; queued data is watched; descriptors and events are closed once |
| servers | `ConnectionsExact` | the count is exact; callbacks throw only the errors of the system that the code throws on: of `stat()` or `unlink()` for the path of a socket, and of `accept()` |
| both | `Completes` | `end()` and `destroySoon()` complete; waiting clients are served or rejected, also out of descriptors |
| `http`, server | `WireInOrder`, `Accounted` | pipelined responses leave whole and in the order of requests; each request is answered or aborted once |
| agent | `Dispatch`, `Matched`, `ToldOnce` | requests and sockets belong together, none waits while it could be sent; a response reaches the request it answers; a request hears at most one response, which ends or is aborted once, and at most one error, with no response after it |
| both | `Completes` | what is ended is sent and the connection closed when it should; every request that is ended gets an outcome |
| `tls` | `InOrder`, `Graceful`, `Quiescent`, `Closes` | data stays in order both ways through re-entrant `_cycle()`s; a stream that ends has lost nothing, and the close_notify follows what was written; nothing that could move is left when `_cycle()` returns; the pair closes |
| `build` | `Accounted`, `Ordered`, `GoodIsWhole`, `Terminates` | `count` is exact and job limits hold; tasks run once and after those they need; a good build is complete; every build ends, except when SystemExit ends a thread or `run_after` cannot be met |
| `loop_lost_wakeup` | `IdleWithoutWork` violated | see observations: libeio |
| `copy_two` | `InSync` violated | see observations: streams |
| `agent_closing` | `NotClosing` violated | see observations: HTTP agent |
| `tls_drain` | `DrainFollows` violated | see observations: tls |
| `build_groups` | `GroupsFinished` violated | see observations: waf |

## Bounds

Each bound is a constant or a field of a program, and is named.

* lists: four items, two lists: an item with two neighbours moves within a list and
  between lists. There is no other bound; all reachable pointer states are visited.
* `timers`: one or two objects (`setTimeout` timers, sockets, a raw Timer) that share a
  list, share the clock or move between two timeouts; user code starts timers up to time
  `Horizon` 4, the clock stops at `MaxTime` 7, which is one longest timeout later. Two
  items are enough for a callback to act on the other one, before or behind it in the list.
* `loop`: three ticks beside one request; two requests with two workers; two requests with
  one worker whose wait may time out once. `MaxPollReqs` is 1 (in the code 10), so a poll
  stops at its limit with one result left; one readiness of a socket (`MaxEvents`).
* pipes: one pipe with four chunks (full, drained and full again); three pipes that share
  a source and a destination, two into one destination, and two between the same two
  streams, with two chunks each.
* file streams: files of three and five units in chunks of one and two, ranges that end
  inside, beyond and start beyond the file; four or five calls. Copies of an empty file, of
  whole chunks and with a short last chunk, and one of three chunks to two streams.
* decoder: all texts of up to three characters of one to four bytes, cut into buffers of up
  to six bytes, so that a buffer may hold the rest of a character, a whole one and the
  beginning of the next.
* sockets: three or four calls; a write is of two units, of which the pool takes one or
  all and the kernel any number, so a queue holds two writes, each cut, with `end()`,
  `destroy()` or `destroySoon()` behind; one read that returns data.
* servers: `maxConnections` 2 or none, four or five descriptors, up to five clients; the
  second rejected client (`RejectLimit` 1, in the code 50) makes the server pause. A field
  `faults` of a program says which calls may fail: those on the path, with an error or with
  a file that is no socket, and `accept()`.
* HTTP server: up to three pipelined requests (two wait in `outgoing`), three or four
  calls. Agent: two requests on one socket (one waits) or three on two, up to six calls;
  the header, a body and the last chunk are pieces that the kernel takes one by one.
* `tls`: a handshake of one record, two records of data, two writes, two pauses, and a
  buffer of `_push()` for two chunks (`Pool`).
* `build`: four tasks and two threads, with `GAP` 1 (in the code 15) so that the limit of
  tasks handed out is reached. Tasks fail in every way `TaskConsumer.loop()` tells apart,
  one that ends its thread by SystemExit included; types and `run_after` may be circular.

State counts range from 170 thousand (`library`) to 670 thousand distinct states (`tls`);
the longest run, `net`, takes about two minutes.

## Fairness

| run | assumed | because |
|---|---|---|
| `timers` | weak: the clock, the loop with callbacks that return | time passes and `ev_loop` iterates; there are no threads |
| `loop` | weak: the main thread, each worker | threads are scheduled; user code makes a bounded number of calls; sockets are ready `MaxEvents` times |
| pipes | strong: each source's data and end, each destination's drain and resume | a source that is not paused goes on; a full destination is drained by the kernel |
| file streams, copy | weak: code that runs, threads; strong: callbacks of results | what `loop` shows of requests (`WorkDone`) |
| sockets | weak: code that runs; strong: ticks, lookups, writability, a flush that makes progress | a callback finishes; the loop serves all fed watchers; *the peer keeps reading*, which is the condition of `Completes` |
| servers | weak: code that runs; strong: the accept watcher, the pause timer, ticks | an iteration visits every ready watcher |
| HTTP server | weak: code that runs; strong: the socket's `'close'` tick and writability | as for sockets; the client reads, but need not send anything |
| agent | weak: code that runs; strong: what happens to the sockets; *the server answers what it has received, with responses that end* | as for sockets; without the last there is no outcome to wait for |
| `tls` | weak: code that runs; strong: the socket's events, `resume()` by a program that has paused | the loop serves the socket; the application does not pause for ever |
| `build` | weak: the main thread, each consumer thread | threads are scheduled, commands end |

Strong fairness stands for one iteration of the loop visiting every watcher: between two
visits of one of them user code may have disabled it and enabled it again. Nothing else is
assumed of user code except that it returns, nor of clients, exceptions, errors of the
kernel, closing streams or the time limit of a worker's wait.

## Proofs

TLAPS checks these for every value of the constants.

* `LinkListProofs!PointersConsistent`: `Spec => []Consistent`, for any sets of items and
  lists, finite or not. The inductive invariant `IInv` is `Consistent` in terms of a record
  of pointers, `Sound(p, r)`, so that lemmas can speak of the result of `remove()` before
  `append()` or `init()` goes on with it: `RemoveSound`, `InitSound`, `AppendSound`. It adds
  that a list is in the ring of its own name. `ring`, the list that a node was last put
  into, is an auxiliary variable that no operation reads.
* `TimersProofs!TypeCorrect`: the type invariant; `refs_` never drops below zero.
* `TimersProofs!RefsCorrect`: a Timer that libev may still call is referenced exactly once
  (`RefsSafe`). This is not inductive. `WatchersOK` adds what node_timer.cc relies on: a
  list's watcher always repeats and is referenced exactly while active; a raw Timer that
  libev has fed is referenced whether it is active or not, and active only if it repeats; a
  one-shot whose callback is running is stopped but still referenced; and the Timer whose
  callback runs is not fed.
* `TimersProofs!AlwaysArmed`: a list with items has a running watcher (`Armed`), through
  every callback that throws or calls back into timers.js. It is inductive relative to
  `IInv`: the watcher is stopped only when its list is empty, and being a repeating one
  never stops by itself.
* `TimersProofs!NeverEarly`: `NotEarly`, an action property: the list callback calls an
  item only when its timeout has passed since the last activity of that item. It needs
  `ListsOK`: an item is in the list of its timeout, once and in no other; `_idleStart` is
  the time of its last activity; and a list is in the order of these times, which is why
  the callback may stop at the first item that is not due.
* `TimersProofs!AlwaysOnTime`: `OnTime`. `Bounds` relates the clocks: libev's cached
  time and the `now` of the callback are behind the clock, the activity of an item behind
  all of them, and a watcher is set for at most one timeout after the activity of its most
  idle item. The history variable `skew` remembers by how much libev's time was ahead of
  the callback's when the watcher was set, which only a raw Timer started in that callback
  can bring about; nothing reads it.

* `EventLoopProofs!TicksNotStranded` and `TicksOrdered`: `TicksScheduled` and
  `TicksInOrder`, for any number of ticks. Both need to know where a running
  `_tickCallback` stands. `TickInv` says that ticks are numbered by their calls, that the
  queue holds the last of these numbers, and that `Len(ran) + Len(nextTickQueue) = ticked +
  tickI`: what ran is what left the queue and the first `tickI` in it. A tick that throws
  drops exactly these `tickI`. While a tick runs, a queue longer than `tickL` has been asked
  for again.
* `EventLoopProofs!LoopTypeCorrect`: the type invariant. That `activecnt` and the counters
  of the pool stay natural numbers needs the next two invariants.
* `EventLoopProofs!RefsExact`: `RefsBalanced`. `EvInv` says that `activecnt` is the number
  of active idle watchers, of requests and of the socket's watcher. `PoolInv` says that
  `nready` and `npending` are the lengths of the queues and `nreqs` counts them and the
  workers that have a request; it also keeps each `ev_unref` above zero. Together with
  `TickInv` they give that `ev_loop` returns only when no tick and no request is left.
* `EventLoopProofs!ResultsNotStranded`: `ResultsNoticed`, for any number of threads and any
  limit of `eio_poll()`. It is not inductive: an `eio_poll()` on behalf of the done notifier
  that reaches its limit starts no watcher. `ResInv` asks for the notice during that poll
  too; `PendingInv` says that `eio_poller` is pending or polling only while active, and that
  nothing is pending when an iteration starts. Steps that do not touch the pool share one
  argument (`Quiet`, `QuietKept`).

* `StreamPipeProofs!PipeCorrect`: `TypeOK`, `Complete` and `NoOverflow` of `StreamPipe`, for
  any sources, destinations and pipes between them and any number of chunks; in the run
  `library` they make up `Complete` of `MC_Library`. `Complete` needs `Registered`: the
  listeners of a pipe are in place as long as its destination is open, even if a `cleanup()`
  threw, so that no `'data'` is missed. `NoOverflow` needs `Held`: as long as a writable
  destination of a pipe that shares neither end owes a `'drain'` or `'resume'` for a
  `write()` that returned false, its source is paused. A destination may emit `'resume'`
  while it is still full, which starts the source again: no pipe promises more.
* `FsWriteStreamProofs!WriteStreamInOrder`: `TypeOK`, `ContentInOrder` and `ClosedWhole` of
  `FsWriteStream`, for any number of writes and any faults; in the run `library` these three
  make up `ContentInOrder` of `MC_Library`. None of them speaks of the queue, which decides them.
  `QueueOK` says that the queue holds writes in the order of their calls and closes behind
  them; `SentOK`, that one request of it is at the threads, and which; `OrderOK`, that the
  file and the callbacks come before the write at the threads, and that before the queue.
  `WholeOK` adds, without faults, an exact account: the writes accepted are those in the
  file, the one at a thread, and those in the queue, without a gap. `OnceOK` says that the
  close of a stream that is ended once is its last request. All are stated of a stream,
  requests, file and events as parameters, because `flush()` ends `write()`, `end()` and
  every callback: its lemmas (`FlushInv`) are proved once and applied to the state that
  these have reached by then.

* `WafRunnerProofs!AlwaysAccounted`, `AlwaysOrdered` and `AlwaysWhole`: `Accounted`,
  `Ordered` and `GoodIsWhole` of `WafRunner`, for any build that satisfies `BuildOK`, any
  number of tasks and consumer threads, any `GAP` and `MAXJOBS`, and each of the three
  algorithms. One inductive invariant, `IInv`, serves all three. Its core is an account of
  places (`PlacesOK`): a task that the manager still has (`Pending`) is nowhere else, and
  one that it has given out is in exactly one place, which is a queue, a thread, the
  outstanding or frozen tasks, or the finished ones. `CountOK` says that `count` is what is
  in the queues and with the threads, and zero when the next set is asked for; with the
  account of places this gives that all tasks of a set are finished by then (`AtNextSet`).
  `AddedOK` and `StartedOK` are the account of added and of started tasks, `LimitOK` says
  that the tasks at work have the limit of the main thread. For the order, `HandedOK` says
  what held when a task was handed over, `GroupsOK` and `BeforeOK` what the manager's
  constraints still stand for; with MAXPARALLEL they have gone into `run_after`. `ThreadsOK`
  says that each failure and each stop has its error flag set or a thread that is about to
  set it, `EndOK` what is left when the loop is left. A task of a consumer only moves
  between places, so its steps share one argument (`ThreadStep`); those of the main thread
  share another (`MainStep`), and the three algorithms a third (`Gives`).

Assumptions: items and lists are distinct and `Null` is none of them (`NodesAssumption`);
timeouts are positive (`TimeAssumption`); kinds of timers and timeouts are distinct, and
programs use objects and timeouts of these sets (`IdentityAssumption`); there are finitely
many worker threads and at least one, `eio_poll()` handles at least one result, and programs
stay within the constants (`LoopAssumption`); pipes have an option `end` and sources a number
of chunks (`PipeAssumption`); programs of a `WriteStream` are records of a descriptor, uses,
faults and a number of calls (`WriteAssumption`); there are finitely many consumer threads,
and builds satisfy `BuildOK` (`BuildAssumption`): a task is in one group, an added task is
new, limits are positive, and two types do not each claim to come before the other, which
`extract_constraints()` would settle by the order of a dictionary. TLC evaluates them in the
runs.

Only model-checked: all other properties in the table of runs. Liveness under fairness is
outside the prover, and so is `Implements`, which follows pointers by a recursive function.

## Observations

Modelling met these places where the code differs from its documentation, its comments or
its own assertions. Five have a run; the others were found by runs of the same modules
with more liberal programs, and are what the properties' conditions leave out.

Timers
* `lib/timers.js:138`: `active()` on an item not fresh from `enroll()` appends without
  starting the watcher of an empty list; the list is then never served
  (`doc/api/net.markdown:275`).
* `lib/timers.js:102`: `unenroll()` keeps `_idleTimeout`, so traffic after
  `socket.setTimeout(0)` brings the timeout back (`doc/api/net.markdown:282`).
* `src/node_timer.cc:166`: a one-shot timer cleared after libev has fed it keeps its
  reference for ever (`src/node_object_wrap.h:82`).

* `src/node_timer.cc:147`: starting a raw Timer updates libev's time. In the callback of a
  list this makes the watcher of that list, which is set by the older time of the callback,
  go off late by the difference (`OnTime`, `skew`).

Event loop and pool
* `deps/libeio/eio.c:1621` (run `loop_lost_wakeup`): a worker whose timed wait has expired
  waits again without looking at the queue; a request signalled in between stays queued.
* `src/node.cc:286`: results left by an `eio_poll` at its limit are polled by an idle
  watcher, which a socket that is always ready starves (`src/node.cc:304`).

Streams
* `lib/stream.js:43`, `:61`: with several destinations the first `'drain'` resumes the
  source, and the close of a full one leaves it paused (`doc/api/streams.markdown:79`).
* `lib/stream.js:64`: `onend` is a function declared in a block; the engine binds it only
  when the block runs, so with `end: false` the cleanup throws out of `'close'`
  (`lib/events.js:155`, `doc/api/streams.markdown:88`).
* `lib/stream.js:42` (run `copy_two`): with two destinations the second `'drain'` resumes a
  ReadStream that has a read in flight; two reads run at once and the files are not copies.
  A connecting net.Socket emits one `'drain'` with nothing written (`lib/net.js:610`), with
  the same effect.

net.Socket
* `lib/net.js:719`, `:721`: the callback of a lookup does not look whether the socket was
  destroyed: it opens a descriptor nobody closes, or disturbs a second connection.
* `lib/net.js:717`: a failed lookup emits `'error'` without `'close'` and leaves the socket
  connecting (`doc/api/net.markdown:357`).
* `lib/net.js:862`: `end(data)` whose write fails throws from `_shutdown()`, other than
  `write(data)` and `end()` (`doc/api/net.markdown:256`).
* `lib/net.js:691`: `connect()` on an open socket resets it before it throws.
* `lib/net.js:780`: `__destroyOnDrain` survives reuse of a socket.
* `lib/net.js:443`, `:354`: a callback of a string that is cut twice runs twice; merged
  callbacks throw a TypeError (`doc/api/net.markdown:241`).
* `lib/net.js:367`, `:498`, `:519`: a descriptor to be passed goes out with whatever is first
  in the queue, perhaps before its data. When two strings are joined in the queue the
  second descriptor waits for the next write, for ever if there is none.

net.Server
* `lib/net.js:1094`: `'error'` comes after `close()`, so the retry of
  `doc/api/net.markdown:86` throws 'Not running'.
* `lib/net.js:1105`, `:1040`: `close()` and `listen()` before the callbacks of an earlier
  `listen()` set an active watcher, or throw out of the callback of `stat()`.
* `lib/net.js:1042`: an error of `stat()` other than ENOENT throws `r`, which is undefined, out
  of the callback.
* `lib/net.js:906`: a server paused from `'connection'` accepts all waiting clients.
* `lib/net.js:992`: a file opened by a thread after the reserve was closed makes
  `accept()` throw out of `_rejectPending()`.
* `lib/net.js:1140`: the late `unlink()` of `close()` removes the file of a new server.
* `lib/net.js:817`: an accepted socket that is used again is counted off twice.

HTTP server
* `lib/http.js:1075`: a response with a length whose body was sent before the connection
  closed, and which is ended afterwards, fails `assert(incoming[0] === req)`. The same
  happens when `end()` is called from a listener of `'aborted'`.
* `lib/http.js:1069`: a request that arrives while the connection drains after its last
  response gets the socket at once, before the responses still in `outgoing`.
* `lib/http.js:365`: the header of a first Buffer goes in front of a buffered
  '100 Continue'; and if writing the header fails, line 390 writes to a destroyed socket and
  throws 'Socket is not writable'.
* `lib/http.js:674`: `end(data)` for a HEAD request sends the data, other than `write(data)`
  and `end()` (`doc/api/http.markdown:358`, `lib/http.js:593`).
* `lib/http.js:696`: a second `end()` on a response without chunks throws a TypeError.

HTTP agent
* `lib/http.js:1365` (run `agent_closing`): `_httpConnecting` stays set on a socket that is
  destroyed while it connects; a request made before its `'close'` is given to the dead
  socket and fails with 'socket hang up'.
* `lib/http.js:924`: if the name is still being looked up, the destroyed socket never emits
  `'close'`: it stays in `sockets` as a connecting one and takes, or holds up, later requests
  for ever.
* `lib/http.js:1190`: a connection that is kept alive and reset while it has no request
  fails `assert(0)`, unless some request waits, which then gets the error. So does an
  error whose request is aborted before the tick that reports it.
* `lib/http.js:1287`: '100 Continue' sets `req.res`; when the connection closes after it,
  nobody is told (comment at line 1251).
* `lib/http.js:1315`: a response that ends before its request has been sent fails
  `assert(!socket.writable)`, or on a kept connection leaves the request incomplete.
* `lib/http.js:1322`: `abort()` in a listener of a response whose end is in the same packet
  makes `detachSocket()` fail its assertion; `abort()` in `'finish'` does so at line 1173.
* `lib/http.js:918`: a second `abort()` of a queued request removes the last one queued.
* `lib/http.js:1224`: an upgrade takes a socket from the agent without a `_cycle()`; a
  request that waited for it waits for the next event.

tls
* `lib/tls.js:96` (run `tls_drain`): `encrypted.write()` returns false after `'drain'` was
  emitted; the pipe pauses the socket and nothing resumes it.
* `lib/tls.js:328`: `end()` of a connection that has written nothing during the handshake
  calls SSL_shutdown, which does nothing then: the pair closes without a close_notify
  (comment at line 330).
* `lib/tls.js:622`: the text `_error()` looks for, of a peer without a certificate, is never
  that of an error: `HandleSSLError` (`src/node_crypto.cc:479`) formats the number of
  SSL_get_error. The model leaves this branch out.
* `lib/tls.js:569`: what a listener of the cleartext `'drain'` writes stays in `_pending`
  until something else happens (comment at line 571).
* After an error of OpenSSL on a socket that has ended, the pair stays open unless it is
  destroyed; a pair that is destroyed before its first tick throws a TypeError; an exception
  of a listener inside of `_cycle()` leaves a lock set.

waf
* `tools/wafadmin/Runner.py:140` (run `build_groups`): the next group is taken although the
  last task of the previous one has just added tasks.
* `tools/wafadmin/Runner.py:158`: `error_handler()` sets `stop` before `error`; the main
  thread may see only the first and end the build without `BuildError` (comment at line 223).
* `tools/wafadmin/Runner.py:54`: SystemExit is no Exception: it ends the thread with its
  task, and `get_out()` waits for it for ever (`Terminates`).
* `tools/wafadmin/Runner.py:69`: a WafError of `post_run()` may leave `hasrun` at NOT_RUN;
  with `-k` the tasks that run after this one stay frozen, and `start()` goes round for ever.
  So it does for a circle in `run_after`, and under MAXPARALLEL for one of types, which
  `tasks_in_parallel()` would detect (`Stuck`).
* `tools/wafadmin/Task.py:308`: job control looks at the limits of the tasks of a group. A
  task that a task adds is not in a group, and runs beside others whatever its `maxjobs` is.

File streams
* `lib/fs.js:987`: `pause()` and `resume()` during a read start a second
  one; data comes out of order, is lost, or comes after `'end'` (`lib/fs.js:916`, `:902`).
* `lib/fs.js:902`: a read in flight at `destroy()` still emits `'error'` or `'end'`.
* `lib/fs.js:963`: descriptor 0 of a ReadStream is never closed.
* `lib/fs.js:1074`: what a short write leaves is not written.
* `lib/fs.js:1056`: after a failed write the queued close is never sent.
* `lib/fs.js:1129`, `:1125`: `destroy()` leaves the queue going; a second `end()` closes a
  descriptor that may be another file's.

## What is not modelled

Engine and vendored libraries (SpiderMonkey, V8 interface, OpenSSL, c-ares, http_parser)
are external: JavaScript is code that runs to completion and may throw, a parse delivers
requests or fails, a lookup answers later. Out of the model inside modelled parts: string
encodings other than UTF-8, header text, trailers, received descriptors, the windows port,
clock jumps, priorities of requests (node uses one), signatures and saved state of waf.

The parts with status `not_modelled` in `PROJECT.json` carry their reason. Most are
sequential or stateless code (`url`, `querystring`, `path`, `util`, the module loader, the
tools of waf that make tasks) which unit tests reach better than a model; wrappers of system
calls or of OpenSSL, whose state is outside; or repeat a pattern that is modelled (dgram's
lookups are those of `NetSocket`, the legacy HTTP client is a shim over `HttpAgent`). What
remains with control of its own is `lib/child_process.js` (exit, end of output and `kill()`
in any order), the table of sockets and the timer of `lib/dns.js`, and the parser pool.
