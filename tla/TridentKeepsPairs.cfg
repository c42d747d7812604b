SPECIFICATION Spec
CONSTANTS
  Tool <- Tools
  Input <- Files
  Lower <- LowerIsIdentity
  OpOf <- OpOfTool
  PathOf <- PathOfInput
  NoPath = "no path"
  ToolOf <- ToolOfId
  ChattyTokens = 50
  CollapseThreshold = 4
  ClusterMinSize = 3
  MaxMessages = 6
  MaxUses = 1
  MaxIds = 3
  Again = {4}
INVARIANTS
  KeepsPairs
\* A transcript of MaxMessages ends the run.
CHECK_DEADLOCK FALSE
