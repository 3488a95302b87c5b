CONSTANTS
  MaxSpecs = 2
  MaxRows = 2
  MaxLimit = 2
  BusyMax = 0
SPECIFICATION Spec
INVARIANTS CompletedAsDocumented
CHECK_DEADLOCK FALSE
