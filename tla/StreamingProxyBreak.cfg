CONSTANTS
  Chunks = 6
SPECIFICATION Spec
INVARIANT TerminatedMeansWhole
CHECK_DEADLOCK FALSE
