CONSTANTS
  MaxSpecs = 2
  MaxRows = 2
  MaxLimit = 3
  BusyMax = 1
  Managers = {m1, m2}
  Hand = hand
SPECIFICATION MCSpec
INVARIANTS ReceivedInOrder CompletedMeansAll NeverBusyWithItself AskedForTheRest
INVARIANTS StrangersAreSpared NothingLeftBehind
PROPERTIES QueryKeepsPromise QueryEnds
CHECK_DEADLOCK FALSE
