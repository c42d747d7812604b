SPECIFICATION EachSpec
CONSTANTS
  Plugin <- TwoPlugins
  After <- InOrder
  MaxRounds = 4
  Tool = {"edit_file"}
  Input = {"f", "g"}
  Lower <- LowerIsIdentity
  OpOf <- EveryToolWrites
  PathOf <- InputIsPath
  NoPath = "no path"
  ToolOf <- EditsAnswered
  ChattyTokens = 50
  CollapseThreshold = 4
  ClusterMinSize = 3
  MaxPrompts = 3
  DefaultThreshold = 100
  MaxUses = 2
  Windows = {}
  File = {"test", "readme", "outside"}
  Test = {"test"}
  Readme = {"readme"}
  Outside = {"outside"}
  MaxTurns = 2
  MaxCalls = 3
  MaxFaults = 1
INVARIANTS
  FileHoldsTheSession
  PluginsStopOnce
  OneRuntimeAtThePrompt
PROPERTIES
  UnansweredTurnsOnlyAppend
  TurnEnds
  RevertGivesBack
\* After the last prompt and the exit nothing is left to do.
CHECK_DEADLOCK FALSE
