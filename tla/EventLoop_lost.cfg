\* A request made at the moment a worker's wait times out.
SPECIFICATION Spec
CONSTANTS
  r1 = r1 r2 = r2
  Reqs = {r1, r2}
  Workers = {w1}
  Programs <- LateRequest
  MaxPollReqs = 1
  MaxTicks = 0
  MaxEvents = 0
  NoReq = NoReq
INVARIANT IdleWithoutWork
