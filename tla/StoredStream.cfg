CONSTANTS
  Kinds = {"ra", "se", "xx"}
  Opaque = {"xx"}
  Libraries <- MCLibraries
  Requests <- MCRequests
  RetryLimit = 3
  PollLimit = 2
  MaxRecords = 3
  MaxBeats = 3
SPECIFICATION MCSpec
INVARIANTS Types LinesArePrefix CleanEndIsComplete LinesAreWhole DepartureCostsOneRecord
PROPERTIES StreamKeepsPromise StreamMovesOn StreamsEnd
CHECK_DEADLOCK FALSE
