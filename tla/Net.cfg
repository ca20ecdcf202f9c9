SPECIFICATION FairSpec
INVARIANTS Coherent ConnectionsExact
PROPERTIES WireInOrder Completes
\* Programs end.
CHECK_DEADLOCK FALSE
