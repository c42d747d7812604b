SPECIFICATION EachSpec
CONSTANTS
  Subagents = {"agent"}
  Main = "main"
  Other = {"other"}
  MaxCuts = 2
  External = {"external"}
  Bundled = {"bundled"}
  DefaultOn = {"external", "bundled"}
  MaxVersion = 2
INVARIANTS
  BundledCopiesAreWhole
  OverrideCanBeUndone
PROPERTIES
  SwitchedOffStaysOff
\* A program without plugins may stay as it is.
CHECK_DEADLOCK FALSE
