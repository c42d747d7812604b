SPECIFICATION Spec
CONSTANTS
  File = {"readme", "code"}
  Test = {}
  Readme = {"readme"}
  Outside = {}
  MaxTurns = 1
  MaxCalls = 2
  MaxFaults = 0
INVARIANTS
  RevertUndoesTheSession
CHECK_DEADLOCK FALSE
