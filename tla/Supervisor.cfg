CONSTANTS
  Standard = {"s1"}
  Streams = {"q1", "t1"}
  Realtime = {"t1"}
  Resets = {"z1"}
  MaxGenerations = 3
SPECIFICATION MCSpec
INVARIANTS NoLostWorker ResetEndsSession ReturnLeavesNoWorker
PROPERTIES RequestsEnd FaultsHeal
CHECK_DEADLOCK FALSE
