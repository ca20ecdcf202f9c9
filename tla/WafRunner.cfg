SPECIFICATION Spec
CONSTANTS
  t1 = t1
  t2 = t2
  t3 = t3
  t4 = t4
  NoTask = NoTask
  Tasks = {t1, t2, t3, t4}
  Consumers = {c1, c2}
  GAP = 1
  MAXJOBS = 9
  Builds <- MCBuilds
INVARIANT Accounted
INVARIANT Ordered
INVARIANT GoodIsWhole
PROPERTY Terminates
\* SystemExit in a thread leaves start() waiting for its task; Terminates says that nothing
\* else does.
CHECK_DEADLOCK FALSE
