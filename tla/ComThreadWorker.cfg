CONSTANTS
  NoTask = NoTask
  Callers = {c1, c2, c3}
  Timed = {c1, c2}
  MaxCalls = 2
  Starters = {"w1", "w2"}
  Stoppers = {"x1"}
  Queries = {"q1"}
SPECIFICATION MCSpec
INVARIANTS NothingStranded BodyHasItsCaller WatchIsHonest DestroyedMeansReleased
PROPERTIES ImplementsExecutor TimedCallsReturn CallsAndStopReturn StartEnds
CHECK_DEADLOCK FALSE
