\* Programs with two timers of one kind, or of two kinds, and two timeouts.
SPECIFICATION FairSpec
CONSTANTS
  d1 = d1 d2 = d2 s1 = s1 s2 = s2 r1 = r1
  DomTimers = {d1, d2}
  Sockets = {s1, s2}
  RawTimers = {r1}
  Programs <- SmallPrograms
  Msecs = {1, 2, 3}
  Repeats = {0, 2}
  Horizon = 4
  MaxTime = 7
  NoOne = NoOne
INVARIANTS TypeOK Armed OnTime RefsSafe
PROPERTIES NotEarly Expires
CHECK_DEADLOCK FALSE
