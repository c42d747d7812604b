SPECIFICATION Spec
CONSTANTS
  Client = {"cli"}
  Call = {0, 1}
  ChainLength = 2
  MaxChunks = 3
  MaxFragments = 2
INVARIANTS
  ParallelCallsSurvive
\* An answer that has ended is the end.
CHECK_DEADLOCK FALSE
