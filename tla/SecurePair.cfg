SPECIFICATION Spec
CONSTANTS
  HS = 1
  Pool = 2
  Programs <- MCPrograms
CHECK_DEADLOCK FALSE
INVARIANT InOrder
INVARIANT Graceful
INVARIANT Quiescent
PROPERTY Closes
