CONSTANTS
  Kinds = {"ra", "se", "xx"}
  Opaque = {"xx"}
  Libraries <- MCLibraries
  Requests <- MCRequests
  RetryLimit = 3
  PollLimit = 2
  MaxRecords = 0
  MaxBeats = 0
SPECIFICATION MCSpec
PROPERTY DeletesTheDamagedFile
CHECK_DEADLOCK FALSE
