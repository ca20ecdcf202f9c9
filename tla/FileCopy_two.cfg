SPECIFICATION Spec
CONSTANT Programs <- TwoPrograms
INVARIANT InSync
CHECK_DEADLOCK FALSE
