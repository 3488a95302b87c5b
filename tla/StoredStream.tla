---------------------------- MODULE StoredStream ----------------------------
(***************************************************************************)
(* One /query/stored stream from JVOpen to the last line: queryStored,     *)
(* waitForDownload, jvGetsWithRetry and jvGets of the wrapper, with the    *)
(* callbacks of handleQuery that write the lines.                          *)
(*                                                                         *)
(* JV-Link (external) is a list of files.  Its cursor moves on when a      *)
(* record is handed out and at the end of a file; a file read up to its    *)
(* damage answers -402/-403 from then on.  Around its answers it may also  *)
(* say "wait" (-3), hand out no buffer, or fail.                           *)
(*                                                                         *)
(* The client's departure and a session reset are one flag, canceled: both *)
(* are only looked at through cancel_requested.                            *)
(***************************************************************************)
EXTENDS Integers, Sequences, FiniteSets, SequencesExt

CONSTANTS
  Kinds,       (* record types                                             *)
  Opaque,      (* those RecordParser::parseRecord returns nothing for      *)
  Libraries,   (* what JV-Link may hold: sequences of files                *)
  Requests,    (* the requests a client may send                           *)
  RetryLimit,  (* bound for max_retries (10000) of the read loop           *)
  PollLimit    (* bound for max_iterations of the download wait            *)

(* A file: its record type (a file has only one), its length, the first    *)
(* record that is damaged (0: none).                                       *)
File == [kind : Kinds, size : Nat, bad : Nat]

ASSUME StreamAssumption ==
  /\ Opaque \subseteq Kinds
  /\ \A l \in Libraries : l \in Seq(File)
  /\ \A q \in Requests :
       /\ q.kinds \subseteq Kinds /\ q.max \in Int
       /\ q.auto \in BOOLEAN /\ q.retries \in Nat
  /\ RetryLimit \in Nat \ {0} /\ PollLimit \in Nat \ {0}

VARIABLES
  files, request,   (* the case at hand, fixed at the start                *)
  cursor,      (* JV-Link's position: <<file, next record>>                *)
  filename,    (* the buffer queryStored lends jvGets: a file, 0 is ""     *)
  attempt,     (* of jvGetsWithRetry                                       *)
  deleted,     (* what JVFiledelete was called with                        *)
  opened,      (* how JVOpen went                                          *)
  polls,       (* of JVStatus                                              *)
  records,     (* actual_records                                           *)
  retries,     (* retry_count                                              *)
  reply,       (* the first line of the response: none, meta, error        *)
  lines,       (* the record lines after it                                *)
  ending,      (* how the response ended                                   *)
  canceled, pc

input == <<files, request>>
jvlink == <<cursor, deleted>>
loop == <<filename, attempt, records, retries>>
response == <<reply, lines, ending>>
vars == <<input, jvlink, loop, response, opened, polls, canceled, pc>>

Init ==
  /\ files \in Libraries /\ request \in Requests
  /\ cursor = <<1, 1>> /\ deleted = {}
  /\ filename = 0 /\ attempt = 0 /\ records = 0 /\ retries = 0
  /\ opened = "no" /\ polls = 0
  /\ reply = "none" /\ lines = <<>> /\ ending = "none"
  /\ canceled = FALSE /\ pc = "open"

(* Slip: one record too many.                                              *)
AtMostMax(n) == request.max <= 0 \/ n <= request.max

(* effective_max_records: no limit unless max_records is positive.         *)
BelowMax(n) == request.max <= 0 \/ n < request.max

Attempts == IF request.retries > 1 THEN request.retries ELSE 1

Filtered(kind) == request.kinds # {} /\ kind \notin request.kinds

-----------------------------------------------------------------------------
Goto(from, to) == pc = from /\ pc' = to

(* The response ends without another line (clean, canceled) or with an     *)
(* error line; the chunked body is terminated properly in each case.       *)
End(from, how) == Goto(from, "done") /\ ending' = how

Cancel ==
  /\ ~canceled /\ pc # "done"
  /\ canceled' = TRUE
  /\ UNCHANGED <<input, jvlink, loop, response, opened, polls, pc>>

(* JVOpen: a session, no data (-1), an error; "broken" is a COM invocation *)
(* that failed, which performJVOpen also reports as -1.                    *)
Open ==
  /\ Goto("open", "opened")
  /\ opened' \in {"session", "nodata", "error", "broken"}
  /\ UNCHANGED <<input, jvlink, loop, response, polls, canceled>>

(* Both counts are left at 0 unless JVOpen set them.                       *)
HasFiles == opened = "session" /\ files # <<>>

AfterOpen ==
  /\ \/ canceled /\ End("opened", "canceled") /\ UNCHANGED reply
     \/ /\ ~canceled /\ opened = "error"
        /\ End("opened", "clean") /\ reply' = "error"
     \/ /\ ~canceled /\ opened # "error"
        /\ \/ HasFiles /\ Goto("opened", "download")
           \/ Goto("opened", "meta")
        /\ UNCHANGED <<reply, ending>>
  /\ UNCHANGED <<input, jvlink, loop, lines, opened, polls, canceled>>

(* waitForDownload: done, not yet, an error or too many polls.             *)
Download ==
  /\ \/ canceled /\ End("download", "canceled") /\ UNCHANGED <<reply, polls>>
     \/ ~canceled /\ Goto("download", "meta") /\ UNCHANGED <<reply, ending, polls>>
     \/ /\ ~canceled /\ polls + 1 < PollLimit
        /\ polls' = polls + 1
        /\ UNCHANGED <<reply, ending, pc>> /\ pc = "download"
     \/ /\ ~canceled
        /\ End("download", "clean") /\ reply' = "error" /\ UNCHANGED polls
  /\ UNCHANGED <<input, jvlink, loop, lines, opened, canceled>>

SendMeta ==
  /\ \/ canceled /\ End("meta", "canceled") /\ UNCHANGED reply
     \/ /\ ~canceled /\ reply' = "meta"
        /\ IF HasFiles THEN Goto("meta", "loop") /\ UNCHANGED ending ELSE End("meta", "clean")
  /\ UNCHANGED <<input, jvlink, loop, lines, opened, polls, canceled>>

-----------------------------------------------------------------------------
(* The read loop.                                                          *)

(* The head of the loop: a limit, a cancellation, or the next JVGets.      *)
NextRead ==
  /\ \/ ~BelowMax(records) /\ End("loop", "clean") /\ UNCHANGED attempt
     \/ /\ BelowMax(records) /\ retries >= RetryLimit
        /\ End("loop", "errorLine") /\ UNCHANGED attempt
     \/ /\ BelowMax(records) /\ retries < RetryLimit /\ canceled
        /\ End("loop", "canceled") /\ UNCHANGED attempt
     \/ /\ BelowMax(records) /\ retries < RetryLimit /\ ~canceled
        /\ Goto("loop", "gets") /\ attempt' = 0 /\ UNCHANGED ending
  /\ UNCHANGED <<input, jvlink, filename, records, retries, reply, lines, opened, polls, canceled>>

AtEnd == cursor[1] > Len(files)
Current == files[cursor[1]]
Damaged == ~AtEnd /\ Current.bad > 0 /\ cursor[2] >= Current.bad /\ cursor[2] <= Current.size
HasRecord == ~AtEnd /\ ~Damaged /\ cursor[2] <= Current.size

NextFile == <<cursor[1] + 1, 1>>
NextRecord == <<cursor[1], cursor[2] + 1>>

(* A cancellation is looked at again before the answer is.                 *)
DropAnswer ==
  /\ canceled /\ End("gets", "canceled")
  /\ UNCHANGED <<input, jvlink, loop, reply, lines, opened, polls, canceled>>

(* Slip: a record of an unwanted type is written before its file is left.  *)
WriteThenSkip ==
  /\ HasRecord /\ ~canceled
  /\ Goto("gets", "loop")
  /\ filename' = cursor[1]
  /\ cursor' = IF Filtered(Current.kind) THEN NextFile ELSE NextRecord
  /\ lines' = Append(lines, cursor)
  /\ records' = (IF Filtered(Current.kind) THEN records ELSE records + 1) /\ retries' = 0
  /\ UNCHANGED <<input, deleted, attempt, reply, ending, opened, polls, canceled>>

(* JVSkip goes on to the next file, or fails and leaves the cursor here.   *)
JVSkip == cursor' \in {NextFile, NextRecord}

(* Slip: a record that cannot be parsed leaves the last text to be written.*)
WriteStale ==
  lines' = IF Current.kind \notin Opaque THEN Append(lines, cursor)
           ELSE IF lines = <<>> THEN lines ELSE Append(lines, Last(lines))
(* The record callback writes a record that can be parsed.                 *)
WriteRecord == lines' = IF Current.kind \in Opaque THEN lines ELSE Append(lines, cursor)

(* A record of an unwanted type is skipped with the rest of its file; any  *)
(* other is counted and handed to the callback.                            *)
GotRecord ==
  /\ HasRecord /\ ~canceled
  /\ Goto("gets", "loop")
  /\ filename' = cursor[1]
  /\ retries' = 0
  /\ IF Filtered(Current.kind)
     THEN JVSkip /\ UNCHANGED <<records, lines>>
     ELSE /\ cursor' = NextRecord
          /\ records' = records + 1
          /\ WriteRecord
  /\ UNCHANGED <<input, deleted, attempt, reply, ending, opened, polls, canceled>>

(* Slip: a file switch is not counted, as in queryRealtime.                *)
SwitchUncounted(moves) ==
  /\ ~canceled /\ Goto("gets", "loop")
  /\ cursor' = moves
  /\ UNCHANGED <<input, deleted, loop, response, opened, polls, canceled>>

(* File switch (-1), download in progress (-3) or no buffer: once more.    *)
TryAgain(moves) ==
  /\ ~canceled /\ Goto("gets", "loop")
  /\ cursor' = moves
  /\ retries' = retries + 1
  /\ UNCHANGED <<input, deleted, filename, attempt, records, response, opened, polls, canceled>>

(* Slip: -1 taken for the end of the data.                                 *)
SwitchIsEnd ==
  /\ ~AtEnd /\ cursor[2] > Current.size /\ ~canceled /\ End("gets", "clean")
  /\ UNCHANGED <<input, jvlink, loop, reply, lines, opened, polls, canceled>>

SwitchFile == ~AtEnd /\ cursor[2] > Current.size /\ TryAgain(NextFile)

(* "Still downloading", or success without a buffer: read again.  JV-Link  *)
(* is assumed not to have moved on when it hands out no buffer; the code   *)
(* could not tell, and such a record would be lost.                        *)
Hesitate == ~Damaged /\ TryAgain(cursor)

JVFiledelete(name) == deleted' = deleted \union {name}

(* Slip: the attempt is counted from the start again.                      *)
DeleteUncounted ==
  /\ Damaged /\ request.auto /\ attempt + 1 < Attempts
  /\ pc = "gets"
  /\ JVFiledelete(filename)
  /\ UNCHANGED <<input, cursor, loop, response, opened, polls, canceled, pc>>

(* jvGetsWithRetry on -402/-403: JVFiledelete of the name in the buffer,   *)
(* which jvGets writes only with a record, and another attempt.            *)
DeleteAndRetry ==
  /\ Damaged /\ request.auto /\ attempt + 1 < Attempts
  /\ pc = "gets"
  /\ JVFiledelete(filename)
  /\ attempt' = attempt + 1
  /\ UNCHANGED <<input, cursor, filename, records, retries, response, opened, polls, canceled, pc>>

(* Damage that is not retried, or any other error: an error line.          *)
ReadFails ==
  /\ ~canceled
  /\ Damaged => ~request.auto \/ attempt + 1 >= Attempts
  /\ End("gets", "errorLine")
  /\ UNCHANGED <<input, jvlink, loop, reply, lines, opened, polls, canceled>>

EndOfData ==
  /\ AtEnd /\ ~canceled
  /\ End("gets", "clean")
  /\ UNCHANGED <<input, jvlink, loop, reply, lines, opened, polls, canceled>>

(* The watchdog of invokeComCall, or a fault found when a call is made.    *)
BecomesUnavailable ==
  /\ \E from \in {"open", "download", "gets"} : End(from, "errorLine")
  /\ UNCHANGED <<input, jvlink, loop, reply, lines, opened, polls, canceled>>

-----------------------------------------------------------------------------
Advance ==
  \/ Open \/ AfterOpen \/ Download \/ SendMeta \/ NextRead
  \/ DropAnswer \/ GotRecord \/ SwitchFile \/ Hesitate
  \/ DeleteAndRetry \/ ReadFails \/ EndOfData \/ BecomesUnavailable

Next == Advance \/ Cancel

Spec == Init /\ [][Next]_vars

(* The handler thread runs and a call returns or times out.                *)
FairSpec == Spec /\ WF_vars(Advance)

-----------------------------------------------------------------------------
(* The records of the wanted types, and JV-Link's order of records.        *)
Wanted ==
  UNION { {f} \X (1..files[f].size) : f \in {g \in 1..Len(files) : ~Filtered(files[g].kind)} }
Before(p, q) == p[1] < q[1] \/ (p[1] = q[1] /\ p[2] < q[2])

Read == {r \in Wanted : Before(r, cursor)}
Parsed(rs) == {r \in rs : files[r[1]].kind \notin Opaque}

(* The variables range over the values of their C++ types; the counters    *)
(* stay within their limits.                                               *)
TypeOK ==
  /\ files \in Libraries /\ request \in Requests
  /\ cursor \in (1..Len(files) + 1) \X (Nat \ {0})
  /\ filename \in 0..Len(files) /\ deleted \subseteq 0..Len(files)
  /\ attempt \in 0..Attempts - 1
  /\ records \in Nat /\ (request.max > 0 => records <= request.max)
  /\ retries \in 0..RetryLimit
  /\ polls \in 0..PollLimit - 1
  /\ opened \in {"no", "session", "nodata", "error", "broken"}
  /\ reply \in {"none", "meta", "error"}
  /\ ending \in {"none", "clean", "errorLine", "canceled"}
  /\ canceled \in BOOLEAN
  /\ pc \in {"open", "opened", "download", "meta", "loop", "gets", "done"}

(* The record lines are at all times the wanted records read so far that   *)
(* can be parsed, in JV-Link's order: nothing unwanted, nothing twice,     *)
(* nothing left out; what counts towards max_records is what was read (the *)
(* filter with JVSkip, the count, the retries).                            *)
LinesArePrefix ==
  /\ \A i, j \in 1..Len(lines) : i < j => Before(lines[i], lines[j])
  /\ ToSet(lines) = Parsed(Read)
  /\ records = Cardinality(Read)

(* A response that ends by itself after its meta line is complete: it has  *)
(* max_records of them, or every wanted record.  Only a response with a    *)
(* session promises that: without one (opened) there was no data, or the   *)
(* call of JVOpen itself failed, which is reported as no data.             *)
CleanEndIsComplete ==
  ending = "clean" /\ reply = "meta" /\ opened = "session" =>
    (request.max > 0 /\ records = request.max) \/ Parsed(Wanted) \subseteq ToSet(lines)

(* The stream ends, whatever JV-Link answers (retry_count, the attempts,   *)
(* the polls).                                                             *)
StreamEnds == <>(pc = "done")

(* The response as its reader sees it; of one without a session there is   *)
(* nothing to be complete.                                                 *)
ResultState ==
  IF ending = "none" THEN "open"
  ELSE IF ending = "clean" /\ reply = "meta" /\ opened = "session" THEN "complete"
  ELSE "partial"
Result == INSTANCE StoredResult WITH wanted <- Parsed(Wanted), received <- lines,
                                     full <- ~BelowMax(records),
                                     cut <- FALSE, state <- ResultState

(* Each step of the read loop, whatever JVGets answers, writes the next    *)
(* wanted record or none, and an end that counts as complete is one.       *)
StreamKeepsPromise == Result!Spec

(* How far the handler is, the most lasting first: the phase, the polls,   *)
(* JV-Link's file and record, the retries, the call, its attempts.         *)
Phase == [open |-> 1, opened |-> 2, download |-> 3, meta |-> 4, loop |-> 5, gets |-> 5, done |-> 6]
Progress ==
  <<Phase[pc], polls, cursor[1], cursor[2], retries, IF pc = "gets" THEN 1 ELSE 0, attempt>>
Ahead(p, q) == \E i \in DOMAIN p : p[i] < q[i] /\ \A j \in 1..(i - 1) : p[j] = q[j]

(* The handler never goes in circles: each answer of JV-Link, also one     *)
(* that brings no record, uses up a file, a record, or one of the limits   *)
(* on retries, attempts and polls, although a record resets the retries    *)
(* and a call the attempts.                                                *)
StreamMovesOn == [][canceled' = canceled => Ahead(Progress, Progress')]_vars

(* The comment on jvGetsWithRetry: the damaged file is deleted.            *)
DeletesTheDamagedFile ==
  [][deleted' # deleted => deleted' = deleted \union {cursor[1]}]_vars
=============================================================================
