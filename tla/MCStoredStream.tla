--------------------------- MODULE MCStoredStream ---------------------------
(* Small libraries and requests for StoredStream: up to three files of two *)
(* wanted record types and one that cannot be parsed, damage at the start  *)
(* and in the middle of a file, limits below, at and above what there is.  *)
(*                                                                         *)
(* The instance also holds RealtimeStream.  A behaviour is one of a stored *)
(* or of a realtime stream; the other one is over.                         *)
EXTENDS StoredStream, RealtimeStream

F(k, n, b) == [kind |-> k, size |-> n, bad |-> b]

MCLibraries ==
  { <<>>,
    << F("ra", 2, 0) >>,
    << F("ra", 1, 0), F("se", 2, 0) >>,
    << F("se", 0, 0), F("ra", 2, 2) >>,
    << F("ra", 1, 0), F("ra", 2, 1), F("se", 1, 0) >>,
    << F("se", 1, 0), F("xx", 1, 0), F("ra", 1, 0) >> }

MCRequests ==
  [kinds : {{}, {"ra"}}, max : {-1, 0, 1, 2}, auto : {TRUE}, retries : {0, 2}]
    \union [kinds : {{"se"}}, max : {-1}, auto : {FALSE}, retries : {3}]

NoRealtimeStream ==
  /\ step = "done" /\ beat = "off" /\ beats = 0
  /\ read = 0 /\ answer = "none" /\ wire = <<>>
  /\ resetAsked = FALSE /\ departed = FALSE /\ unheard = 0

NoStoredStream ==
  /\ files = <<>> /\ request = [kinds |-> {}, max |-> 0, auto |-> TRUE, retries |-> 0]
  /\ cursor = <<1, 1>> /\ deleted = {}
  /\ filename = 0 /\ attempt = 0 /\ records = 0 /\ retries = 0
  /\ opened = "no" /\ polls = 0
  /\ reply = "none" /\ lines = <<>> /\ ending = "none"
  /\ canceled = FALSE /\ pc = "done"

MCInit == (Init /\ NoRealtimeStream) \/ (NoStoredStream /\ RealtimeInit)

MCNext ==
  \/ Next /\ UNCHANGED realtimeVars
  \/ RealtimeNext /\ UNCHANGED vars

MCSpec ==
  MCInit /\ [][MCNext]_<<vars, realtimeVars>> /\ WF_vars(Advance) /\ RealtimeFairness

-----------------------------------------------------------------------------
(* Both streams keep to the values of their C++ types and to their limits. *)
Types == TypeOK /\ RealtimeTypes

(* Every stream ends; a realtime one unless JV-Link says "once more" for   *)
(* ever and nobody asks for a reset (queryRealtime has no retry limit).    *)
StreamsEnd == StreamEnds /\ RealtimeEnds
=============================================================================
