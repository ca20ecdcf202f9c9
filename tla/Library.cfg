SPECIFICATION FairSpec
CONSTANTS
  i1 = i1 i2 = i2 i3 = i3 i4 = i4 l1 = l1 l2 = l2
  Items = {i1, i2, i3, i4}
  Lists = {l1, l2}
  Null = Null
INVARIANTS Consistent Complete DataInOrder ContentInOrder CopyInOrder Decoded
PROPERTIES Implements PausedQuiet ImplementsPipe Progress
\* Programs end.
CHECK_DEADLOCK FALSE
