SPECIFICATION EachSpec
CONSTANTS
  Tool <- OneTool
  Input <- OneInput
  Lower <- Lowercase
  Policy <- OpenPolicy
  HookEvents = {}
  Answers = {"absent"}
  MaxIterations = 2
  Threshold = 2
  UsageTokens = {1}
  MaxUses = 2
  MaxTurns = 2
  OpOf <- OpOfTool
  PathOf <- PathOfInput
  NoPath = "no path"
  ToolOf <- ToolOfId
  ChattyTokens = 50
  CollapseThreshold = 4
  ClusterMinSize = 3
  RoundMessages = 6
  RoundUses = 2
  RoundIds = 3
  Again = {1}
  Client = {"cli", "agent"}
  Call = {0, 1}
  ChainLength = 2
  MaxChunks = 3
  MaxFragments = 2
  MaxFrames = 3
  MaxRetries = 1
INVARIANTS
  ResultsStayPaired
  UsesAnsweredInOrder
  SurvivorsInOrder
  NewestWritesSurvive
  BlocksAreBracketed
  ToolCallsSurvive
  EventsSurviveChunking
PROPERTIES
  AnswerLeavesBoundedTranscript
  ImplementsTranscript
\* After the last turn nothing is left to do.
CHECK_DEADLOCK FALSE
