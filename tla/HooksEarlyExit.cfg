SPECIFICATION Spec
CONSTANTS
  MaxCommands = 1
  MaxRuns = 1
INVARIANTS
  EarlyExitIsNoFailure
\* After the run nothing is left to do.
CHECK_DEADLOCK FALSE
