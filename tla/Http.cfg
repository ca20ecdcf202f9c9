SPECIFICATION FairSpec
INVARIANTS WireInOrder Accounted Dispatch Matched
PROPERTIES ToldOnce Completes
\* Programs end.
CHECK_DEADLOCK FALSE
