SPECIFICATION Spec
CONSTANTS
  MaxNames = 3
  MaxPrompts = 1
PROPERTIES
  TheOpenFileStays
\* At the bounds a closed program may have nothing to start.
CHECK_DEADLOCK FALSE
