SPECIFICATION Spec
CONSTANTS
  Hijacks = FALSE
  MaxCalls = 1
  MaxDrivers = 1
  MaxSessions = 1
INVARIANT ShutdownReleasesSessions
\* A program that has ended does nothing more.
CHECK_DEADLOCK FALSE
