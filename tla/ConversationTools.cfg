SPECIFICATION EachSpec
CONSTANTS
  Tool <- TwoTools
  Input <- ThreeInputs
  Lower <- Lowercase
  Policy <- GuardedPolicy
  HookEvents = {"pre", "post", "fail"}
  Answers = {"allow", "deny"}
  MaxIterations = 2
  Threshold = 100
  UsageTokens = {0}
  MaxUses = 1
  MaxTurns = 1
  MaxCommands = 2
  MaxRuns = 2
INVARIANTS
  OnlyPermittedRuns
  NoPhantomSuccess
  AbortStopsTools
  LooserIsLooser
  RunsLookAtomic
PROPERTIES
  TurnEnds
  CommandsEnd
\* After the last turn, or the last hook run, nothing is left to do.
CHECK_DEADLOCK FALSE
