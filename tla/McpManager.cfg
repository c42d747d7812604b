SPECIFICATION EachSpec
CONSTANTS
  Server = {"s"}
  MaxOperations = 2
  MaxId = 12
  MaxFrames = 2
INVARIANTS
  NoStaleAnswers
  EveryProcessIsKnown
  NestedRetriesAreBounded
PROPERTIES
  BestEffortAsksEveryServer
  CallsEnd
  DriversEnd
\* After the last call, and when a program has ended, nothing need happen.
CHECK_DEADLOCK FALSE
