\* A request that is aborted while it is connecting, and another one.
SPECIFICATION Spec
CONSTANTS
  Programs <- ClosingPrograms
  MaxRequests = 2
PROPERTY NotClosing
CHECK_DEADLOCK FALSE
