\* Three programs, a socket that is ready once, one result per eio_poll.
SPECIFICATION FairSpec
CONSTANTS
  r1 = r1 r2 = r2
  Reqs = {r1, r2}
  Workers = {w1, w2}
  Programs <- SmallPrograms
  MaxPollReqs = 1
  MaxTicks = 3
  MaxEvents = 1
  NoReq = NoReq
INVARIANTS TypeOK TicksScheduled TicksInOrder ResultsNoticed RefsBalanced
PROPERTY WorkDone
