---------------------------- MODULE MC_EventLoop ----------------------------
(* Small instances of EventLoop for TLC: ticks with their exceptions beside *)
(* one request; two workers; one worker whose wait may time out.            *)
EXTENDS EventLoop

CONSTANTS r1, r2

SmallPrograms ==
  {[reqs |-> {r1}, ticks |-> 3, threads |-> 1, timeouts |-> 0],
   [reqs |-> {r1, r2}, ticks |-> 0, threads |-> 2, timeouts |-> 0],
   [reqs |-> {r1, r2}, ticks |-> 1, threads |-> 1, timeouts |-> 1]}

LateRequest == {[reqs |-> {r1, r2}, ticks |-> 0, threads |-> 1, timeouts |-> 1]}
=============================================================================
