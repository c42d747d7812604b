SPECIFICATION EachSpec
CONSTANTS
  Agent = {"a1", "a2"}
  Cron = {"c1", "c2"}
  Settles <- AllSettled
  MaxFaults = 2
  cwd1 = cwd1
  prompt1 = prompt1
  prompt2 = prompt2
  process1 = process1
  process2 = process2
  Worker = {"worker1"}
  Dir = {cwd1}
  Cwd <- AllShare
  Prompt = {prompt1, prompt2}
  NoPrompt = NoPrompt
  EmitMayFail = FALSE
  MaxEvents = 6
SYMMETRY Symmetry
INVARIANTS
  BlockedWorkersSayWhy
  ReplayFollowsMisdelivery
  StaleFileMeansRunning
  ManifestTellsTheTruth
  FileMirrorsSession
  AcknowledgedSurvives
  OneSessionIsOpen
  AnswersStay
PROPERTIES
  OnePromptInFlight
\* The event logs are full, the bounds are reached, or a file is gone or
\* unreadable after a crash: nobody can go on.
CHECK_DEADLOCK FALSE
