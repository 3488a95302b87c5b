--------------------------- MODULE RealtimeStream ---------------------------
(***************************************************************************)
(* One /query/realtime stream: queryRealtime of the wrapper with the       *)
(* callbacks of handleRealtimeOpen, and the heartbeat thread that writes   *)
(* to the same sink.  It differs from a stored stream: JVGets may say      *)
(* "once more" for ever, a failed heartbeat tells nobody, and the client's *)
(* departure is found by the next record only.                             *)
(*                                                                         *)
(* Every write of the sink is one chunk and one step: sink_mutex is held   *)
(* for it.  After a failed one the sink writes nothing any more.           *)
(***************************************************************************)
EXTENDS Integers, Sequences, SequencesExt

CONSTANTS
  MaxRecords,   (* records JV-Link has for the key                         *)
  MaxBeats      (* bound for the blank lines of the heartbeat              *)

ASSUME RealtimeAssumption == MaxRecords \in Nat /\ MaxBeats \in Nat

VARIABLES
  step,      (* of the handler: open, opened, meta, loop, gets, record,    *)
             (* newline, error, leave, join, end, done                     *)
  beat,      (* the heartbeat: off, asleep, awake, ended                   *)
  beats,     (* blank lines it has written                                 *)
  read,      (* record_count                                               *)
  answer,    (* what JVRTOpen or JVGets said last                          *)
  wire,      (* what the client was sent                                   *)
  resetAsked,   (* isSessionResetRequested                                 *)
  departed,  (* the client's socket is dead                                *)
  unheard    (* history: records read since then                           *)

handlerVars == <<step, read, answer, unheard>>
heartbeat == <<beat, beats>>
realtimeVars == <<handlerVars, heartbeat, wire, resetAsked, departed>>

(* What a chunk holds: a record is its number.                             *)
Meta == 0
Newline == -1
ErrorText == -2
Terminator == -3

RealtimeInit ==
  /\ step = "open" /\ beat \in {"off", "asleep"} /\ beats = 0
  /\ read = 0 /\ answer = "none" /\ wire = <<>>
  /\ resetAsked = FALSE /\ departed = FALSE /\ unheard = 0

GoOn(from, to) == step = from /\ step' = to

Write(chunks) == wire' = IF departed THEN wire ELSE wire \o chunks

-----------------------------------------------------------------------------
Reset ==
  /\ ~resetAsked /\ step # "done" /\ resetAsked' = TRUE
  /\ UNCHANGED <<handlerVars, heartbeat, wire, departed>>

Depart ==
  /\ ~departed /\ step # "done" /\ departed' = TRUE
  /\ UNCHANGED <<handlerVars, heartbeat, wire, resetAsked>>

-----------------------------------------------------------------------------
(* The handler.  JVRTOpen: a stream, no data (-1), an error.               *)
OpenRealtime ==
  /\ GoOn("open", "opened") /\ answer' \in {"stream", "nodata", "refused"}
  /\ UNCHANGED <<read, unheard, heartbeat, wire, resetAsked, departed>>

(* JVOperationCanceledException: the response ends without another line.   *)
Canceled ==
  /\ resetAsked /\ \E from \in {"opened", "loop", "gets"} : GoOn(from, "leave")
  /\ UNCHANGED <<read, answer, unheard, heartbeat, wire, resetAsked, departed>>

(* The meta callback; whether it could write is not looked at.             *)
WriteMeta ==
  /\ ~resetAsked /\ GoOn("opened", "meta")
  /\ Write(<<IF answer = "refused" THEN ErrorText ELSE Meta>>)
  /\ UNCHANGED <<read, answer, unheard, heartbeat, resetAsked, departed>>

EndMetaLine ==
  /\ GoOn("meta", IF answer = "stream" THEN "loop" ELSE "leave")
  /\ Write(<<Newline>>)
  /\ UNCHANGED <<read, answer, unheard, heartbeat, resetAsked, departed>>

NextRealtimeRead ==
  /\ ~resetAsked /\ GoOn("loop", "gets")
  /\ UNCHANGED <<read, answer, unheard, heartbeat, wire, resetAsked, departed>>

(* A record for the callback.                                              *)
GotRealtimeRecord ==
  /\ ~resetAsked /\ read < MaxRecords /\ GoOn("gets", "record")
  /\ read' = read + 1 /\ answer' = "record"
  /\ unheard' = IF departed THEN unheard + 1 ELSE unheard
  /\ UNCHANGED <<heartbeat, wire, resetAsked, departed>>

(* Slip: the callback's catch keeps what says that the client has left.    *)
Swallowed ==
  /\ departed /\ GoOn("record", "loop")
  /\ UNCHANGED <<read, answer, unheard, heartbeat, wire, resetAsked, departed>>

(* ClientDisconnectedException: the sink is not writable, or the write of  *)
(* the record failed.                                                      *)
FindsItGone ==
  /\ departed /\ GoOn("record", "leave")
  /\ UNCHANGED <<read, answer, unheard, heartbeat, wire, resetAsked, departed>>

(* What cannot be parsed is left out.                                      *)
WriteRealtimeRecord ==
  /\ ~departed
  /\ \/ GoOn("record", "newline") /\ Write(<<read>>)
     \/ GoOn("record", IF resetAsked THEN "leave" ELSE "loop") /\ UNCHANGED wire
  /\ UNCHANGED <<read, answer, unheard, heartbeat, resetAsked, departed>>

(* The second write of a record; whether it succeeds is not looked at.     *)
EndRecordLine ==
  /\ GoOn("newline", IF resetAsked THEN "leave" ELSE "loop")
  /\ Write(<<Newline>>)
  /\ UNCHANGED <<read, answer, unheard, heartbeat, resetAsked, departed>>

(* -1 and -3: once more, as often as JV-Link says so.                      *)
OnceMore ==
  /\ ~resetAsked /\ GoOn("gets", "loop") /\ answer' = "again"
  /\ UNCHANGED <<read, unheard, heartbeat, wire, resetAsked, departed>>

EndOfRealtime ==
  /\ ~resetAsked /\ GoOn("gets", "leave") /\ answer' = "end"
  /\ UNCHANGED <<read, unheard, heartbeat, wire, resetAsked, departed>>

(* Another code of JVGets, or the wrapper has become unavailable.          *)
RealtimeFails ==
  /\ \E from \in {"open", "gets"} : GoOn(from, "error")
  /\ answer' = "failed"
  /\ UNCHANGED <<read, unheard, heartbeat, wire, resetAsked, departed>>

(* writeStreamErrorLine has the mutex for both writes.                     *)
WriteErrorLine ==
  /\ GoOn("error", "leave") /\ Write(<<ErrorText, Newline>>)
  /\ UNCHANGED <<read, answer, unheard, heartbeat, resetAsked, departed>>

(* streaming_active = false.                                               *)
Leave ==
  /\ GoOn("leave", "join")
  /\ UNCHANGED <<read, answer, unheard, heartbeat, wire, resetAsked, departed>>

(* Slip: the response is terminated while the heartbeat still runs.        *)
NoJoin ==
  /\ GoOn("join", "end")
  /\ UNCHANGED <<read, answer, unheard, heartbeat, wire, resetAsked, departed>>

Join ==
  /\ beat \in {"off", "ended"} /\ GoOn("join", "end")
  /\ UNCHANGED <<read, answer, unheard, heartbeat, wire, resetAsked, departed>>

(* sink.done(); the session guard has closed JV-Link before.               *)
EndResponse ==
  /\ GoOn("end", "done") /\ Write(<<Terminator>>)
  /\ UNCHANGED <<read, answer, unheard, heartbeat, resetAsked, departed>>

-----------------------------------------------------------------------------
(* The heartbeat thread.                                                   *)
Active == step \notin {"join", "end", "done"}

Wake ==
  /\ beat = "asleep"
  /\ \/ Active /\ beats < MaxBeats /\ beat' = "awake"
     \/ ~Active /\ beat' = "ended"
  /\ UNCHANGED <<handlerVars, beats, wire, resetAsked, departed>>

Beat ==
  /\ beat = "awake" /\ ~departed
  /\ Write(<<Newline>>) /\ beat' = "asleep" /\ beats' = beats + 1
  /\ UNCHANGED <<handlerVars, resetAsked, departed>>

(* It only ends itself.                                                    *)
BeatFails ==
  /\ beat = "awake" /\ departed /\ beat' = "ended"
  /\ UNCHANGED <<handlerVars, beats, wire, resetAsked, departed>>

-----------------------------------------------------------------------------
Handling ==
  \/ OpenRealtime \/ Canceled \/ WriteMeta \/ EndMetaLine \/ NextRealtimeRead
  \/ GotRealtimeRecord \/ FindsItGone \/ WriteRealtimeRecord \/ EndRecordLine
  \/ OnceMore \/ EndOfRealtime \/ RealtimeFails \/ WriteErrorLine
  \/ Leave \/ Join \/ EndResponse

Beating == Wake \/ Beat \/ BeatFails

RealtimeNext == Handling \/ Beating \/ Reset \/ Depart

RealtimeSpec == RealtimeInit /\ [][RealtimeNext]_realtimeVars

(* Both threads run, a call returns or times out, and a blocked write ends *)
(* with the socket's timeout.                                              *)
RealtimeFairness == WF_realtimeVars(Handling) /\ WF_realtimeVars(Beating)

-----------------------------------------------------------------------------
(* The variables keep to the values listed above.                          *)
RealtimeTypes ==
  /\ step \in {"open", "opened", "meta", "loop", "gets", "record", "newline", "error",
               "leave", "join", "end", "done"}
  /\ beat \in {"off", "asleep", "awake", "ended"} /\ beats \in 0..MaxBeats
  /\ read \in 0..MaxRecords /\ unheard \in 0..read
  /\ answer \in {"none", "stream", "nodata", "refused", "record", "again", "end", "failed"}
  /\ wire \in Seq(Terminator..MaxRecords)
  /\ resetAsked \in BOOLEAN /\ departed \in BOOLEAN

(* What the client sees are whole lines, whatever two threads do to one    *)
(* sink: a newline follows each text before the next one, blank lines come *)
(* in between only, the records in their order, and nothing follows the    *)
(* terminator (safe_write, writeStreamErrorLine, the joins before done()). *)
LinesAreWhole ==
  /\ \A i \in 1..Len(wire) - 1 :
       /\ wire[i] # Terminator
       /\ wire[i] # Newline => wire[i + 1] = Newline
  /\ \A i, j \in 1..Len(wire) : i < j /\ wire[i] > 0 /\ wire[j] > 0 => wire[i] < wire[j]
  /\ \A i \in 1..Len(wire) : wire[i] > 0 => Contains(SubSeq(wire, 1, i), Meta)

(* A client that has left costs JV-Link at most one more record: what the  *)
(* heartbeat and the writes of the newlines keep to themselves is found by *)
(* the next record.                                                        *)
DepartureCostsOneRecord == unheard <= 1

(* The stream ends, for a client that has left, too, unless JV-Link says   *)
(* "once more" for ever; then a reset ends it.                             *)
RealtimeEnds == <>(step = "done") \/ <>[](answer = "again" /\ ~resetAsked)
=============================================================================
