CONSTANTS
  Chunks = 6
  Calls = {"c1", "c2"}
  Realtime = {"r1"}
  Watches = {"w1"}
  Shutdowns = {"s1"}
  Threads = 2
  KeepAliveMax = 2
SPECIFICATION MCSpec
INVARIANTS NothingLostBetween RestartsForCause AcceptedAreSettled
PROPERTIES HandlerEnds PoolGoesOn
CHECK_DEADLOCK FALSE
