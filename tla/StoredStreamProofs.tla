------------------------- MODULE StoredStreamProofs -------------------------
(***************************************************************************)
(* The two streams of the worker.                                          *)
(*                                                                         *)
(* A stored one, for whatever JV-Link holds and whatever is requested: the *)
(* lines are the wanted records before JV-Link's cursor, and a record that *)
(* is handed out is always the next of them (ReadOneMore, ReadNoMore).     *)
(*                                                                         *)
(* A realtime one, for any number of records and heartbeats: no chunk can  *)
(* come between a text and its newline but the newline of the heartbeat    *)
(* (OpenLineInv), and the heartbeat is over when the response is ended     *)
(* (JoinInv).                                                              *)
(***************************************************************************)
EXTENDS MCStoredStream, FiniteSetTheorems, SequenceTheorems, TLAPS

Places == Nat \X Nat

(* Every line is of a record before the cursor, in JV-Link's order.        *)
LinesInv ==
  /\ lines \in Seq(Places)
  /\ IsFiniteSet(Read)
  /\ LinesArePrefix

(* Where the handler is says what it has found out and sent.               *)
PlaceInv ==
  /\ pc = "done" <=> ending # "none"
  /\ pc \in {"open", "opened", "download", "meta"} => reply = "none"
  /\ pc \in {"loop", "gets"} => reply = "meta"
  /\ pc = "gets" => BelowMax(records) /\ retries < RetryLimit

StreamInv == TypeOK /\ LinesInv /\ PlaceInv /\ CleanEndIsComplete

-----------------------------------------------------------------------------
(* Places of records.                                                      *)
LEMMA WantedMember ==
  ASSUME TypeOK
  PROVE  /\ files \in Seq(File) /\ Len(files) \in Nat
         /\ \A f \in 1..Len(files) : files[f].size \in Nat
         /\ \A r : r \in Wanted <=>
              /\ r \in Nat \X Nat /\ r[1] \in 1..Len(files)
              /\ r[2] \in 1..files[r[1]].size /\ ~Filtered(files[r[1]].kind)
<1>1. files \in Seq(File) /\ Len(files) \in Nat
  BY StreamAssumption, LenProperties DEF TypeOK
<1>2. \A f \in 1..Len(files) : files[f].size \in Nat
  <2>1. \A f \in 1..Len(files) : files[f] \in File
    BY <1>1, ElementOfSeq
  <2> QED
    BY <2>1 DEF File
<1>3. ASSUME NEW r, r \in Wanted
      PROVE  /\ r \in Nat \X Nat /\ r[1] \in 1..Len(files)
             /\ r[2] \in 1..files[r[1]].size /\ ~Filtered(files[r[1]].kind)
  <2>1. PICK f \in 1..Len(files) : r \in {f} \X (1..files[f].size) /\ ~Filtered(files[f].kind)
    BY <1>3 DEF Wanted
  <2> QED
    BY <1>1, <1>2, <2>1
<1>4. ASSUME NEW r \in Nat \X Nat, r[1] \in 1..Len(files),
             r[2] \in 1..files[r[1]].size, ~Filtered(files[r[1]].kind)
      PROVE  r \in Wanted
  <2>1. r \in {r[1]} \X (1..files[r[1]].size)
    BY <1>4
  <2> QED
    BY <1>4, <2>1 DEF Wanted
<1> QED
  BY <1>1, <1>2, <1>3, <1>4

LEMMA SameCase ==
  ASSUME UNCHANGED input
  PROVE  /\ Wanted' = Wanted /\ \A n : BelowMax(n)' <=> BelowMax(n)
         /\ \A rs : Parsed(rs)' = Parsed(rs)
         /\ cursor' = cursor => Read' = Read
BY DEF input, Wanted, Filtered, BelowMax, Parsed, Read, Before

(* One wanted record is handed out: it is the next one.                    *)
LEMMA ReadOneMore ==
  ASSUME TypeOK, HasRecord, ~Filtered(Current.kind), cursor' = NextRecord, UNCHANGED input
  PROVE  cursor \notin Read /\ Read' = Read \union {cursor}
<1>1. /\ \A r : r \in Wanted <=>
           /\ r \in Nat \X Nat /\ r[1] \in 1..Len(files)
           /\ r[2] \in 1..files[r[1]].size /\ ~Filtered(files[r[1]].kind)
      /\ Len(files) \in Nat
  BY WantedMember
<1>2. /\ cursor \in Nat \X Nat /\ cursor = <<cursor[1], cursor[2]>>
      /\ cursor[1] \in 1..Len(files) + 1 /\ cursor[2] \in Nat /\ cursor[2] >= 1
  BY <1>1 DEF TypeOK
<1>3. /\ cursor[1] \in 1..Len(files) /\ cursor[2] <= files[cursor[1]].size
      /\ ~Filtered(files[cursor[1]].kind)
  BY <1>1, <1>2 DEF HasRecord, AtEnd, Current
<1>4. cursor \in Wanted
  <2>1. files[cursor[1]].size \in Nat
    BY <1>3, WantedMember
  <2> QED
    BY <1>1, <1>2, <1>3, <2>1
<1>5. ~Before(cursor, cursor) /\ Before(cursor, cursor')
  BY <1>2 DEF Before, NextRecord
<1>6. ASSUME NEW r \in Wanted PROVE Before(r, cursor') <=> Before(r, cursor) \/ r = cursor
  <2>1. r \in Nat \X Nat /\ r = <<r[1], r[2]>> /\ r[1] \in Nat /\ r[2] \in Nat
    BY <1>1
  <2>2. cursor'[1] = cursor[1] /\ cursor'[2] = cursor[2] + 1
    BY DEF NextRecord
  <2> QED
    BY <1>2, <2>1, <2>2 DEF Before
<1>7. Wanted' = Wanted
  BY SameCase
<1>8. Read' = {r \in Wanted : Before(r, cursor')}
  BY <1>7 DEF Read, Before
<1> QED
  BY <1>4, <1>5, <1>6, <1>8 DEF Read

(* What JVSkip and the end of a file pass over was not wanted.             *)
LEMMA ReadNoMore ==
  ASSUME TypeOK, ~AtEnd, cursor' \in {NextFile, NextRecord}, UNCHANGED input,
         Filtered(Current.kind) \/ cursor[2] > Current.size
  PROVE  Read' = Read
<1>1. /\ \A r : r \in Wanted <=>
           /\ r \in Nat \X Nat /\ r[1] \in 1..Len(files)
           /\ r[2] \in 1..files[r[1]].size /\ ~Filtered(files[r[1]].kind)
      /\ Len(files) \in Nat
  BY WantedMember
<1>2. /\ cursor[1] \in 1..Len(files) /\ cursor[2] \in Nat /\ cursor[2] >= 1
  BY <1>1 DEF TypeOK, AtEnd
<1>3. ASSUME NEW r \in Wanted PROVE Before(r, cursor') <=> Before(r, cursor)
  <2>1. r[1] \in Nat /\ r[2] \in Nat /\ r[2] \in 1..files[r[1]].size /\ ~Filtered(files[r[1]].kind)
    BY <1>1
  <2>2. r[1] # cursor[1] \/ r[2] < cursor[2]
    <3>1. files[cursor[1]].size \in Nat
      BY <1>2, WantedMember
    <3> QED
      BY <1>2, <2>1, <3>1 DEF Current
  <2>3. \/ cursor'[1] = cursor[1] + 1 /\ cursor'[2] = 1
        \/ cursor'[1] = cursor[1] /\ cursor'[2] = cursor[2] + 1
    BY DEF NextFile, NextRecord
  <2>4. r[2] >= 1
    BY <2>1
  <2> QED
    BY <1>2, <2>1, <2>2, <2>3, <2>4 DEF Before
<1>4. Wanted' = Wanted
  BY SameCase
<1>5. Read' = {r \in Wanted : Before(r, cursor')}
  BY <1>4 DEF Read, Before
<1> QED
  BY <1>3, <1>5 DEF Read

(* One line more.                                                          *)
LEMMA AppendLine ==
  ASSUME NEW S, NEW s \in Seq(S), NEW e \in S, NEW t, t = Append(s, e)
  PROVE  /\ t \in Seq(S) /\ Len(t) = Len(s) + 1 /\ t[Len(s) + 1] = e
         /\ \A k \in 1..Len(s) : t[k] = s[k]
BY AppendProperties

-----------------------------------------------------------------------------
LEMMA StreamInit == Init => StreamInv
<1> SUFFICES ASSUME Init PROVE StreamInv
  OBVIOUS
<1>1. TypeOK
  <2>1. files \in Seq(File) /\ Len(files) \in Nat
    BY StreamAssumption, LenProperties DEF Init
  <2>2. Attempts - 1 \in Nat /\ records \in Nat /\ (request.max > 0 => records <= request.max)
    BY StreamAssumption DEF Init, Attempts
  <2>3. cursor \in (1..Len(files) + 1) \X (Nat \ {0})
    BY <2>1 DEF Init
  <2>4. filename \in 0..Len(files) /\ deleted \subseteq 0..Len(files)
    BY <2>1 DEF Init
  <2>5. attempt \in 0..Attempts - 1 /\ retries \in 0..RetryLimit /\ polls \in 0..PollLimit - 1
    BY <2>2, StreamAssumption DEF Init
  <2> QED
    BY <2>2, <2>3, <2>4, <2>5 DEF Init, TypeOK
<1>2. Read = {}
  <2>1. \A r \in Wanted : r[1] \in Nat /\ r[2] \in Nat /\ r[1] >= 1 /\ r[2] >= 1
    <3>1. \A r \in Wanted : r \in Nat \X Nat /\ r[1] \in 1..Len(files) /\ r[2] \in 1..files[r[1]].size
      BY <1>1, WantedMember
    <3> QED
      BY <3>1
  <2> QED
    BY <2>1 DEF Read, Before, Init
<1>3. lines = <<>> /\ lines \in Seq(Places) /\ Len(lines) = 0 /\ ToSet(lines) = {}
  BY EmptySeq DEF Init, ToSet
<1>4. LinesInv
  BY <1>2, <1>3, FS_EmptySet DEF LinesInv, LinesArePrefix, Parsed, Init
<1> QED
  BY <1>1, <1>4 DEF StreamInv, PlaceInv, CleanEndIsComplete, Init

(* What no step before the read loop, and no end of it, changes.           *)
LEMMA LinesStay ==
  ASSUME StreamInv, UNCHANGED <<input, cursor, lines, records>>
  PROVE  LinesInv'
<1>1. Read' = Read
  BY SameCase
<1>2. (\A i, j \in 1..Len(lines) : i < j => Before(lines[i], lines[j]))'
  BY DEF StreamInv, LinesInv, LinesArePrefix, Before
<1>3. (ToSet(lines) = Parsed(Read))'
  BY <1>1 DEF StreamInv, LinesInv, LinesArePrefix, Parsed, ToSet, input
<1> QED
  BY <1>1, <1>2, <1>3 DEF StreamInv, LinesInv, LinesArePrefix

LEMMA OpeningKeepsInv ==
  ASSUME StreamInv, Open \/ AfterOpen \/ Download \/ SendMeta
  PROVE  StreamInv'
<1>0. TypeOK /\ LinesInv /\ PlaceInv /\ CleanEndIsComplete
  BY DEF StreamInv
<1>1. /\ UNCHANGED <<input, jvlink, loop, lines, canceled>> /\ ending = "none"
      /\ pc \in {"open", "opened", "download", "meta"}
  BY <1>0 DEF PlaceInv, Open, AfterOpen, Download, SendMeta, Goto, End, response
<1>2. TypeOK'
  BY <1>0, <1>1, StreamAssumption
     DEF TypeOK, Open, AfterOpen, Download, SendMeta, Goto, End, response, input, jvlink, loop, Attempts
<1>3. LinesInv'
  BY <1>1, LinesStay DEF jvlink, loop
<1>4. PlaceInv'
  BY <1>0, <1>1
     DEF TypeOK, PlaceInv, Open, AfterOpen, Download, SendMeta, Goto, End, response, input, loop, BelowMax
<1>5. CleanEndIsComplete'
  <2>1. CASE Open \/ AfterOpen \/ Download
    BY <1>0, <1>1, <2>1
       DEF CleanEndIsComplete, PlaceInv, Open, AfterOpen, Download, Goto, End, response
  <2>2. CASE SendMeta
    <3>1. CASE HasFiles
      BY <1>1, <2>2, <3>1 DEF SendMeta, CleanEndIsComplete, End, Goto
    <3>2. CASE ~HasFiles
      <4>1. opened' = "session" => files = <<>>
        BY <2>2, <3>2 DEF SendMeta, HasFiles
      <4>2. files = <<>> => Wanted = {}
        BY DEF Wanted
      <4>3. Parsed(Wanted)' = Parsed(Wanted)
        BY <1>1, SameCase DEF Parsed, input
      <4> QED
        BY <4>1, <4>2, <4>3 DEF CleanEndIsComplete, Parsed
    <3> QED
      BY <3>1, <3>2
  <2> QED
    BY <2>1, <2>2
<1> QED
  BY <1>2, <1>3, <1>4, <1>5 DEF StreamInv

(* JVGets and what its answers lead to.                                    *)
LEMMA GettingKeepsInv ==
  ASSUME StreamInv,
         \/ NextRead \/ DropAnswer \/ SwitchFile \/ Hesitate
         \/ DeleteAndRetry \/ ReadFails \/ EndOfData \/ BecomesUnavailable
  PROVE  StreamInv'
<1>0. TypeOK /\ LinesInv /\ PlaceInv /\ CleanEndIsComplete /\ Len(files) \in Nat
  BY WantedMember DEF StreamInv
<1>1. /\ UNCHANGED <<input, records, reply, lines, opened, polls, canceled>>
      /\ ending = "none" /\ pc # "done"
  BY <1>0 DEF PlaceInv, NextRead, DropAnswer, SwitchFile, Hesitate, TryAgain, DeleteAndRetry,
              ReadFails, EndOfData, BecomesUnavailable, Goto, End, response, jvlink, loop
<1>2. TypeOK'
  <2>1. cursor' \in (1..Len(files) + 1) \X (Nat \ {0})
    BY <1>0 DEF TypeOK, NextRead, DropAnswer, SwitchFile, Hesitate, TryAgain, DeleteAndRetry,
                ReadFails, EndOfData, BecomesUnavailable, jvlink, AtEnd, NextFile
  <2>2. attempt' \in 0..Attempts - 1
    <3>1. Attempts \in Nat \ {0} /\ attempt \in 0..Attempts - 1
      BY <1>0, StreamAssumption DEF TypeOK, Attempts
    <3>2. attempt' \in {attempt, 0} \/ (attempt' = attempt + 1 /\ attempt + 1 < Attempts)
      BY DEF NextRead, DropAnswer, SwitchFile, Hesitate, TryAgain, DeleteAndRetry,
             ReadFails, EndOfData, BecomesUnavailable, loop
    <3> QED
      BY <3>1, <3>2
  <2>6. deleted' \subseteq 0..Len(files) /\ filename' \in 0..Len(files)
    BY <1>0
       DEF TypeOK, NextRead, DropAnswer, SwitchFile, Hesitate, TryAgain, DeleteAndRetry, JVFiledelete,
           ReadFails, EndOfData, BecomesUnavailable, jvlink, loop
  <2>3. retries' \in 0..RetryLimit
    BY <1>0, StreamAssumption
       DEF TypeOK, PlaceInv, NextRead, DropAnswer, SwitchFile, Hesitate, TryAgain, DeleteAndRetry,
           ReadFails, EndOfData, BecomesUnavailable, loop, Goto, End
  <2>4. /\ ending' \in {"none", "clean", "errorLine", "canceled"}
        /\ pc' \in {"open", "opened", "download", "meta", "loop", "gets", "done"}
    BY <1>0 DEF TypeOK, NextRead, DropAnswer, SwitchFile, Hesitate, TryAgain, DeleteAndRetry,
                ReadFails, EndOfData, BecomesUnavailable, Goto, End, response
  <2>5. (Attempts = IF request.retries > 1 THEN request.retries ELSE 1)'
    BY DEF Attempts
  <2> QED
    BY <1>0, <1>1, <2>1, <2>2, <2>3, <2>4, <2>5, <2>6 DEF TypeOK, input, Attempts
<1>3. LinesInv'
  <2>1. Read' = Read
    <3>1. CASE SwitchFile
      BY <1>0, <1>1, <3>1, ReadNoMore DEF SwitchFile, TryAgain
    <3>2. CASE ~SwitchFile
      <4>1. cursor' = cursor
        BY <3>2 DEF NextRead, DropAnswer, Hesitate, TryAgain, DeleteAndRetry,
                    ReadFails, EndOfData, BecomesUnavailable, jvlink
      <4> QED
        BY <1>1, <4>1, SameCase
    <3> QED
      BY <3>1, <3>2
  <2>2. (\A i, j \in 1..Len(lines) : i < j => Before(lines[i], lines[j]))'
    BY <1>0, <1>1 DEF LinesInv, LinesArePrefix, Before
  <2>3. (ToSet(lines) = Parsed(Read))'
    BY <1>0, <1>1, <2>1 DEF LinesInv, LinesArePrefix, Parsed, ToSet, input
  <2> QED
    BY <1>0, <1>1, <2>1, <2>2, <2>3 DEF LinesInv, LinesArePrefix
<1>4. PlaceInv'
  BY <1>0, <1>1
     DEF TypeOK, PlaceInv, NextRead, DropAnswer, SwitchFile, Hesitate, TryAgain, DeleteAndRetry,
         ReadFails, EndOfData, BecomesUnavailable, Goto, End, response, loop, BelowMax, input
<1>5. CleanEndIsComplete'
  <2>1. CASE NextRead /\ ~BelowMax(records)
    <3>1. request.max > 0 /\ records = request.max
      <4>1. request.max \in Int
        BY <1>0, StreamAssumption DEF TypeOK
      <4> QED
        BY <1>0, <2>1, <4>1 DEF TypeOK, BelowMax
    <3> QED
      BY <1>1, <3>1 DEF CleanEndIsComplete, input
  <2>2. CASE EndOfData
    <3>1. Wanted \subseteq Read
      <4>1. \A r \in Wanted : r[1] \in 1..Len(files)
        BY <1>0, WantedMember
      <4>2. cursor[1] \in Nat /\ cursor[1] > Len(files)
        BY <1>0, <2>2 DEF EndOfData, AtEnd, TypeOK
      <4> QED
        BY <1>0, <4>1, <4>2 DEF Read, Before
    <3>2. Parsed(Wanted) \subseteq ToSet(lines)
      BY <1>0, <3>1 DEF LinesInv, LinesArePrefix, Parsed
    <3>3. (Parsed(Wanted) \subseteq ToSet(lines))'
      BY <1>1, <3>2, SameCase DEF Parsed, ToSet, input
    <3> QED
      BY <3>3 DEF CleanEndIsComplete
  <2>3. CASE ~(NextRead /\ ~BelowMax(records)) /\ ~EndOfData
    <3>1. ending' # "clean"
      BY <1>1, <2>3 DEF NextRead, DropAnswer, SwitchFile, Hesitate, TryAgain, DeleteAndRetry,
                        ReadFails, BecomesUnavailable, Goto, End, response
    <3> QED
      BY <3>1 DEF CleanEndIsComplete
  <2> QED
    BY <2>1, <2>2, <2>3
<1> QED
  BY <1>2, <1>3, <1>4, <1>5 DEF StreamInv

(* A record: counted and written, or skipped.                              *)
LEMMA RecordKeepsInv ==
  ASSUME StreamInv, GotRecord
  PROVE  StreamInv'
<1>0. TypeOK /\ LinesInv /\ PlaceInv /\ CleanEndIsComplete /\ Len(files) \in Nat
  BY WantedMember DEF StreamInv
<1>1. /\ HasRecord /\ ~AtEnd /\ pc = "gets" /\ pc' = "loop" /\ filename' = cursor[1] /\ retries' = 0
      /\ UNCHANGED <<input, deleted, attempt, reply, ending, opened, polls, canceled>>
      /\ ending = "none" /\ reply = "meta" /\ BelowMax(records)
  BY <1>0 DEF GotRecord, Goto, HasRecord, PlaceInv
<1>2. cursor[1] \in 1..Len(files) /\ cursor[2] \in Nat \ {0}
  BY <1>0, <1>1 DEF TypeOK, AtEnd
<1>3. PlaceInv' /\ CleanEndIsComplete'
  BY <1>0, <1>1 DEF PlaceInv, CleanEndIsComplete
<1>4. ASSUME records' \in Nat, request.max > 0 => records' <= request.max,
             cursor' \in {NextFile, NextRecord}
      PROVE  TypeOK'
  <2>1. cursor' \in (1..Len(files) + 1) \X (Nat \ {0})
    BY <1>0, <1>2, <1>4 DEF NextFile, NextRecord
  <2>2. Attempts' = Attempts
    BY <1>1 DEF Attempts, input
  <2>3. retries' \in 0..RetryLimit
    BY <1>1, StreamAssumption
  <2>4. filename' \in 0..Len(files)
    BY <1>0, <1>1, <1>2
  <2> QED
    BY <1>0, <1>1, <1>4, <2>1, <2>2, <2>3, <2>4 DEF TypeOK, input
<1>5. CASE Filtered(Current.kind)
  <2>1. cursor' \in {NextFile, NextRecord} /\ UNCHANGED <<records, lines>>
    BY <1>5 DEF GotRecord, JVSkip
  <2>2. Read' = Read
    BY <1>0, <1>1, <1>5, <2>1, ReadNoMore
  <2>3. (\A i, j \in 1..Len(lines) : i < j => Before(lines[i], lines[j]))'
    BY <1>0, <2>1 DEF LinesInv, LinesArePrefix, Before
  <2>4. (ToSet(lines) = Parsed(Read))'
    BY <1>0, <1>1, <2>1, <2>2 DEF LinesInv, LinesArePrefix, Parsed, ToSet, input
  <2>5. LinesInv'
    BY <1>0, <2>1, <2>2, <2>3, <2>4 DEF LinesInv, LinesArePrefix
  <2>6. TypeOK'
    BY <1>0, <1>4, <2>1 DEF TypeOK
  <2> QED
    BY <1>3, <2>5, <2>6 DEF StreamInv
<1>6. CASE ~Filtered(Current.kind)
  <2>1. cursor' = NextRecord /\ records' = records + 1 /\ WriteRecord
    BY <1>6 DEF GotRecord
  <2>2. TypeOK'
    <3>1. request.max \in Int
      BY <1>0, StreamAssumption DEF TypeOK
    <3> QED
      BY <1>0, <1>1, <1>4, <2>1, <3>1 DEF TypeOK, BelowMax
  <2>3. cursor \notin Read /\ Read' = Read \union {cursor}
    BY <1>0, <1>1, <1>6, <2>1, ReadOneMore
  <2>4. IsFiniteSet(Read') /\ records' = Cardinality(Read')
    BY <1>0, <2>1, <2>3, FS_AddElement DEF LinesInv, LinesArePrefix
  <2>5. cursor \in Nat \X Nat /\ files[cursor[1]] = Current
    BY <1>0 DEF TypeOK, Current
  <2>6. \A k \in 1..Len(lines) : Before(lines[k], cursor)
    <3>1. \A k \in 1..Len(lines) : lines[k] \in ToSet(lines)
      BY <1>0 DEF LinesInv, ToSet
    <3> QED
      BY <1>0, <3>1 DEF LinesInv, LinesArePrefix, Parsed, Read
  <2>7. ASSUME Current.kind \in Opaque PROVE LinesInv'
    <3>1. lines' = lines
      BY <2>1, <2>7 DEF WriteRecord
    <3>2. (\A i, j \in 1..Len(lines) : i < j => Before(lines[i], lines[j]))'
      BY <1>0, <3>1 DEF LinesInv, LinesArePrefix, Before
    <3>3. (ToSet(lines) = Parsed(Read))'
      BY <1>0, <1>1, <2>3, <2>5, <2>7, <3>1 DEF LinesInv, LinesArePrefix, Parsed, ToSet, input
    <3> QED
      BY <1>0, <2>4, <3>1, <3>2, <3>3 DEF LinesInv, LinesArePrefix
  <2>8. ASSUME Current.kind \notin Opaque PROVE LinesInv'
    <3>1. lines' = Append(lines, cursor)
      BY <2>1, <2>8 DEF WriteRecord
    <3>2. /\ lines' \in Seq(Places) /\ ToSet(lines') = ToSet(lines) \union {cursor}
          /\ Len(lines') = Len(lines) + 1 /\ lines'[Len(lines) + 1] = cursor
          /\ \A k \in 1..Len(lines) : lines'[k] = lines[k]
      <4>1. lines \in Seq(Places)
        BY <1>0 DEF LinesInv
      <4>2. cursor \in Places
        BY <2>5 DEF Places
      <4>3. /\ lines' \in Seq(Places) /\ Len(lines') = Len(lines) + 1
            /\ lines'[Len(lines) + 1] = cursor
            /\ \A k \in 1..Len(lines) : lines'[k] = lines[k]
        BY <3>1, <4>1, <4>2, AppendLine
      <4>4. /\ Len(lines) \in Nat /\ DOMAIN lines = 1..Len(lines)
            /\ DOMAIN lines' = 1..Len(lines')
        BY <4>1, <4>3, LenProperties
      <4>5. \A k \in 1..Len(lines') : k \in 1..Len(lines) \/ k = Len(lines) + 1
        BY <4>3, <4>4
      <4>6. Len(lines) + 1 \in 1..Len(lines') /\ \A k \in 1..Len(lines) : k \in 1..Len(lines')
        BY <4>3, <4>4
      <4>7. ToSet(lines') = ToSet(lines) \union {cursor}
        BY <4>3, <4>4, <4>5, <4>6 DEF ToSet
      <4> QED
        BY <4>3, <4>7
    <3>3. (\A i, j \in 1..Len(lines) : i < j => Before(lines[i], lines[j]))'
      <4> SUFFICES ASSUME NEW i \in 1..Len(lines'), NEW j \in 1..Len(lines'), i < j
                   PROVE  Before(lines'[i], lines'[j])
        BY DEF Before
      <4>1. Len(lines) \in Nat
        BY <1>0, LenProperties DEF LinesInv
      <4>2. i \in 1..Len(lines) /\ (j \in 1..Len(lines) \/ j = Len(lines) + 1)
        BY <3>2, <4>1
      <4>3. CASE j \in 1..Len(lines)
        BY <1>0, <3>2, <4>2, <4>3 DEF LinesInv, LinesArePrefix
      <4>4. CASE j = Len(lines) + 1
        BY <2>6, <3>2, <4>2, <4>4
      <4> QED
        BY <4>2, <4>3, <4>4
    <3>4. (ToSet(lines) = Parsed(Read))'
      <4>1. Parsed(Read)' = Parsed(Read) \union {cursor}
        BY <1>1, <2>3, <2>5, <2>8 DEF Parsed, input
      <4> QED
        BY <1>0, <3>2, <4>1 DEF LinesInv, LinesArePrefix, ToSet
    <3> QED
      BY <2>4, <3>2, <3>3, <3>4 DEF LinesInv, LinesArePrefix
  <2>9. LinesInv'
    BY <2>7, <2>8
  <2> QED
    BY <1>3, <2>2, <2>9 DEF StreamInv
<1> QED
  BY <1>5, <1>6

LEMMA CancelKeepsInv ==
  ASSUME StreamInv, Cancel \/ UNCHANGED vars
  PROVE  StreamInv'
<1>1. UNCHANGED <<input, jvlink, loop, response, opened, polls, pc>> /\ canceled' \in BOOLEAN
  BY DEF StreamInv, TypeOK, Cancel, vars
<1>2. LinesInv'
  BY <1>1, LinesStay DEF jvlink, loop, response
<1>3. TypeOK' /\ PlaceInv'
  BY <1>1 DEF StreamInv, TypeOK, PlaceInv, input, jvlink, loop, response, Attempts, BelowMax
<1>4. CleanEndIsComplete'
  BY <1>1, SameCase DEF StreamInv, CleanEndIsComplete, response, loop, input, Parsed, ToSet
<1> QED
  BY <1>2, <1>3, <1>4 DEF StreamInv

(* The strengthened invariant of one stored stream.                        *)
THEOREM StreamInvariant == Spec => []StreamInv
<1>1. StreamInv /\ [Next]_vars => StreamInv'
  BY OpeningKeepsInv, GettingKeepsInv, RecordKeepsInv, CancelKeepsInv DEF Next, Advance
<1> QED
  BY <1>1, StreamInit, PTL DEF Spec

(* The lines are the wanted records read so far, whatever JV-Link holds.   *)
THEOREM LinesAreWhatWasRead == Spec => []LinesArePrefix
<1>1. StreamInv => LinesArePrefix
  BY DEF StreamInv, LinesInv
<1> QED
  BY <1>1, StreamInvariant, PTL

(* A response that ends by itself has max_records or all of them.          *)
THEOREM CleanEndHolds == Spec => []CleanEndIsComplete
<1>1. StreamInv => CleanEndIsComplete
  BY DEF StreamInv
<1> QED
  BY <1>1, StreamInvariant, PTL

(* The lines are in order, so no two are the same.                         *)
LEMMA LinesCount ==
  ASSUME StreamInv
  PROVE  Len(lines) \in Nat /\ Cardinality(Parsed(Read)) = Len(lines)
<1>1. /\ lines \in Seq(Places) /\ ToSet(lines) = Parsed(Read)
      /\ \A i, j \in 1..Len(lines) : i < j => Before(lines[i], lines[j])
  BY DEF StreamInv, LinesInv, LinesArePrefix
<1>2. /\ Len(lines) \in Nat /\ lines = [i \in 1..Len(lines) |-> lines[i]]
      /\ \A i \in 1..Len(lines) : lines[i] \in Places
  BY <1>1, LenProperties, ElementOfSeq
<1>3. \A p \in Places : ~Before(p, p)
  BY DEF Places, Before
<1>4. \A i, j \in 1..Len(lines) : lines[i] = lines[j] => i = j
  <2> SUFFICES ASSUME NEW i \in 1..Len(lines), NEW j \in 1..Len(lines), lines[i] = lines[j], i # j
               PROVE  FALSE
    OBVIOUS
  <2>1. i < j \/ j < i
    BY <1>2
  <2> QED
    BY <1>1, <1>2, <1>3, <2>1
<1>5. lines \in [1..Len(lines) -> ToSet(lines)] /\ ToSet(lines) = {lines[i] : i \in 1..Len(lines)}
  BY <1>1, <1>2 DEF ToSet
<1>6. \A t \in ToSet(lines) : \E i \in 1..Len(lines) : lines[i] = t
  BY <1>5
<1>7. ExistsBijection(1..Len(lines), ToSet(lines))
  <2>1. lines \in Injection(1..Len(lines), ToSet(lines))
    BY <1>4, <1>5 DEF Injection, IsInjective
  <2>2. lines \in Surjection(1..Len(lines), ToSet(lines))
    BY <1>5, <1>6 DEF Surjection
  <2> QED
    BY <2>1, <2>2 DEF ExistsBijection, Bijection
<1> QED
  BY <1>1, <1>2, <1>7, FS_CountingElements

(* Each file has so many records, and there are so many files.             *)
LEMMA WantedIsFinite == TypeOK => IsFiniteSet(Wanted)
<1> SUFFICES ASSUME TypeOK PROVE IsFiniteSet(Wanted)
  OBVIOUS
<1>0. \A n \in Nat : IsFiniteSet(1..n)
  BY FS_Interval
<1> DEFINE box == [f \in 1..Len(files) |-> {f} \X (1..files[f].size)]
<1>1. Len(files) \in Nat /\ \A f \in 1..Len(files) : files[f].size \in Nat
  BY WantedMember
<1>2. IsFiniteSet(1..Len(files))
  BY <1>0, <1>1
<1>3. ASSUME NEW f \in 1..Len(files) PROVE IsFiniteSet(box[f])
  <2>1. IsFiniteSet(1..files[f].size)
    BY <1>0, <1>1
  <2>2. IsFiniteSet({f})
    BY FS_Singleton
  <2>3. IsFiniteSet({f} \X (1..files[f].size))
    BY <2>1, <2>2, FS_Product
  <2> QED
    BY <2>3
<1>4. Wanted \subseteq UNION Range(box)
  <2>1. ASSUME NEW r \in Wanted PROVE \E f \in 1..Len(files) : r \in box[f]
    BY DEF Wanted
  <2> QED
    BY <2>1 DEF Range
<1>5. IsFiniteSet(Range(box))
  <2>1. box \in Surjection(1..Len(files), Range(box))
    BY DEF Surjection, Range
  <2> QED
    BY <1>2, <2>1, FS_Surjection
<1>6. \A T \in Range(box) : IsFiniteSet(T)
  BY <1>3 DEF Range
<1> HIDE DEF box
<1>7. IsFiniteSet(UNION Range(box))
  BY <1>5, <1>6, FS_UNION
<1> QED
  BY <1>4, <1>7, FS_Subset

(* At a clean end nothing that was wanted is left unread, also none of the *)
(* records no line is written of.                                          *)
AllRead ==
  ending = "clean" /\ reply = "meta" /\ opened = "session" =>
    (request.max > 0 /\ records = request.max) \/ Wanted \subseteq Read

(* The cases: no files, the limit, and JVGets answering the end of data.   *)
LEMMA CleanEndHasReadAll == Spec => []AllRead
<1>1. Init => AllRead
  BY DEF Init, AllRead
<1>2. StreamInv /\ AllRead /\ [Next]_vars => AllRead'
  <2> SUFFICES ASSUME StreamInv, AllRead, [Next]_vars, ending' = "clean", reply' = "meta",
                      opened' = "session"
               PROVE  (request.max > 0 /\ records = request.max)' \/ Wanted' \subseteq Read'
    BY DEF AllRead
  <2>0. /\ TypeOK /\ PlaceInv /\ Len(files) \in Nat /\ request.max \in Int /\ UNCHANGED input
    BY WantedMember, StreamAssumption
       DEF StreamInv, TypeOK, Next, Advance, Cancel, Open, AfterOpen, Download, SendMeta, NextRead,
           DropAnswer, GotRecord, SwitchFile, Hesitate, TryAgain, DeleteAndRetry, ReadFails,
           EndOfData, BecomesUnavailable, vars
  <2>1. CASE SendMeta
    <3>1. pc # "done" /\ ending = "none" /\ files = <<>>
      BY <2>0, <2>1 DEF SendMeta, HasFiles, Goto, End, PlaceInv
    <3> QED
      BY <2>0, <3>1, SameCase DEF Wanted
  <2>2. CASE NextRead
    <3>1. pc = "loop" /\ ending = "none" /\ ~BelowMax(records) /\ UNCHANGED <<input, records>>
      BY <2>0, <2>2 DEF NextRead, Goto, End, PlaceInv
    <3>2. request.max > 0 /\ records = request.max
      BY <2>0, <3>1 DEF TypeOK, BelowMax
    <3> QED
      BY <3>1, <3>2 DEF input
  <2>3. CASE EndOfData
    <3>1. \A r \in Wanted : r[1] \in 1..Len(files)
      BY <2>0, WantedMember
    <3>2. cursor[1] \in Nat /\ cursor[1] > Len(files)
      BY <2>0, <2>3 DEF EndOfData, AtEnd, TypeOK
    <3>3. Wanted \subseteq Read
      BY <2>0, <3>1, <3>2 DEF Read, Before
    <3>4. cursor' = cursor
      BY <2>3 DEF EndOfData, jvlink
    <3> QED
      BY <2>0, <3>3, <3>4, SameCase
  <2>4. CASE Cancel \/ UNCHANGED vars
    <3>1. UNCHANGED <<input, cursor, ending, reply, opened, records>>
      BY <2>4 DEF Cancel, vars, jvlink, loop, response
    <3> QED
      BY <3>1, SameCase DEF AllRead, input
  <2>5. CASE \/ Open \/ AfterOpen \/ Download \/ DropAnswer \/ GotRecord \/ SwitchFile \/ Hesitate
             \/ DeleteAndRetry \/ ReadFails \/ BecomesUnavailable
    BY <2>0, <2>5
       DEF PlaceInv, Open, AfterOpen, Download, DropAnswer, GotRecord, SwitchFile, Hesitate, TryAgain,
           DeleteAndRetry, ReadFails, BecomesUnavailable, Goto, End, response, HasRecord
  <2> QED
    BY <2>1, <2>2, <2>3, <2>4, <2>5 DEF Next, Advance
<1> QED
  BY <1>1, <1>2, StreamInvariant, PTL DEF Spec

(* What the client may count on: a complete response has read the limit it *)
(* asked for or all that is wanted, whichever is less, and a line of each  *)
(* record of these that can be parsed: StoredQuery!Served where all can.   *)
CompleteIsServed ==
  ResultState = "complete" =>
    /\ records = IF request.max > 0 /\ request.max < Cardinality(Wanted)
                 THEN request.max ELSE Cardinality(Wanted)
    /\ Len(lines) = Cardinality(Parsed(Read))
    /\ Opaque = {} => Len(lines) = records

(* A client that asked for n records gets n, or as many as there are, of a *)
(* stream that ended well, for any library and request.                    *)
THEOREM CompleteResponseIsServed == Spec => []CompleteIsServed
<1>1. StreamInv /\ AllRead => CompleteIsServed
  <2> SUFFICES ASSUME StreamInv, AllRead, ResultState = "complete" PROVE CompleteIsServed
    BY DEF CompleteIsServed
  <2>1. TypeOK /\ LinesArePrefix /\ IsFiniteSet(Read) /\ Read \subseteq Wanted
    BY DEF StreamInv, LinesInv, Read
  <2>2. IsFiniteSet(Wanted) /\ Cardinality(Wanted) \in Nat /\ records <= Cardinality(Wanted)
    <3>1. IsFiniteSet(Wanted) /\ Cardinality(Read) <= Cardinality(Wanted)
      BY <2>1, WantedIsFinite, FS_Subset
    <3> QED
      BY <2>1, <3>1, FS_CardinalityType DEF LinesArePrefix
  <2>3. Len(lines) = Cardinality(Parsed(Read))
    BY LinesCount
  <2>4. Opaque = {} => Parsed(Read) = Read /\ Parsed(Wanted) = Wanted
    BY DEF Parsed
  <2>5. request.max \in Int /\ records \in Nat /\ (request.max > 0 => records <= request.max)
    BY <2>1, StreamAssumption DEF TypeOK
  <2>6. (request.max > 0 /\ records = request.max) \/ Wanted \subseteq Read
    BY DEF AllRead, ResultState
  <2>7. records = IF request.max > 0 /\ request.max < Cardinality(Wanted)
                  THEN request.max ELSE Cardinality(Wanted)
    <3>1. Wanted \subseteq Read => Read = Wanted
      BY <2>1
    <3>2. records = Cardinality(Read)
      BY <2>1 DEF LinesArePrefix
    <3> QED
      BY <2>2, <2>5, <2>6, <3>1, <3>2
  <2> QED
    BY <2>1, <2>3, <2>4, <2>7 DEF CompleteIsServed, LinesArePrefix
<1> QED
  BY <1>1, StreamInvariant, CleanEndHasReadAll, PTL

(* A step that writes no record: the promise is kept as it was, or the     *)
(* response has come to its end.                                           *)
LEMMA QuietStep ==
  ASSUME StreamInv, StreamInv', UNCHANGED <<input, lines>>,
         \/ pc # "done" /\ records' = records
         \/ pc # "done" /\ pc' # "done" /\ BelowMax(records)
         \/ UNCHANGED <<reply, ending, opened, records>>
  PROVE  Result!Next \/ UNCHANGED Result!resultVars
<1>1. /\ Parsed(Wanted)' = Parsed(Wanted)
      /\ records' = records => (~BelowMax(records))' = ~BelowMax(records)
  BY SameCase DEF BelowMax, input
<1>2. CASE UNCHANGED <<reply, ending, opened, records>>
  <2>1. ResultState' = ResultState
    BY <1>2 DEF ResultState
  <2> QED
    BY <1>1, <1>2, <2>1 DEF Result!resultVars
<1>3. CASE pc # "done" /\ pc' # "done" /\ (records' = records \/ BelowMax(records))
  <2>1. ResultState = "open" /\ ResultState' = "open"
    BY <1>3 DEF StreamInv, PlaceInv, ResultState
  <2>2. ~BelowMax(records) => (~BelowMax(records))'
    BY <1>1, <1>3
  <2> QED
    BY <1>1, <2>1, <2>2 DEF Result!Next, Result!Narrow, Result!Grows
<1>4. CASE pc # "done" /\ pc' = "done" /\ records' = records
  <2>1. ResultState = "open" /\ ResultState' \in {"partial", "complete"}
    BY <1>4 DEF StreamInv, PlaceInv, ResultState
  <2>2. CASE ResultState' = "partial"
    BY <1>1, <1>4, <2>1, <2>2 DEF Result!Next, Result!GiveUp
  <2>3. CASE ResultState' = "complete"
    <3>1. ending' = "clean" /\ reply' = "meta" /\ opened' = "session"
      BY <2>3 DEF ResultState
    <3>2. (request.max > 0 /\ records = request.max) \/ Parsed(Wanted) \subseteq ToSet(lines)
      BY <1>1, <1>4, <3>1 DEF StreamInv, CleanEndIsComplete, ToSet, input
    <3>3. request.max > 0 /\ records = request.max => ~BelowMax(records)
      <4>1. request.max \in Int
        BY StreamAssumption DEF StreamInv, TypeOK
      <4> QED
        BY <4>1 DEF BelowMax
    <3> QED
      BY <1>1, <1>4, <2>1, <2>3, <3>2, <3>3
         DEF Result!Next, Result!Complete, Result!Grows, Result!Honest, ToSet, Result!ToSet
  <2> QED
    BY <2>1, <2>2, <2>3
<1> QED
  BY <1>2, <1>3, <1>4

(* A line that is written is that of the next record.                      *)
LEMMA RecordDelivers ==
  ASSUME StreamInv, StreamInv', GotRecord, ~Filtered(Current.kind), Current.kind \notin Opaque
  PROVE  Result!Deliver
<1>0. /\ TypeOK /\ LinesInv /\ PlaceInv /\ HasRecord /\ UNCHANGED input
      /\ pc = "gets" /\ pc' = "loop" /\ cursor' = NextRecord /\ lines' = Append(lines, cursor)
  BY DEF StreamInv, GotRecord, Goto, WriteRecord
<1>1. ResultState = "open" /\ ResultState' = "open" /\ BelowMax(records)
  BY <1>0 DEF StreamInv, PlaceInv, ResultState
<1>2. Wanted' = Wanted /\ Parsed(Wanted)' = Parsed(Wanted)
  BY <1>0, SameCase DEF input
<1>3. cursor \in Parsed(Wanted)
  <2>1. cursor \in Read'
    BY <1>0, ReadOneMore
  <2>2. cursor \in Wanted
    BY <1>2, <2>1 DEF Read
  <2> QED
    BY <2>2 DEF Parsed, Current
<1>4. ToSet(lines) = {r \in Parsed(Wanted) : Before(r, cursor)}
  BY <1>0 DEF LinesInv, LinesArePrefix, Parsed, Read
<1>5. \A k \in DOMAIN lines : Result!Before(lines[k], cursor)
  BY <1>4 DEF ToSet, Before, Result!Before
<1>6. \A w \in Parsed(Wanted) : Result!Before(w, cursor) => w \in Result!ToSet(lines)
  BY <1>4 DEF ToSet, Result!ToSet, Before, Result!Before
<1> QED
  BY <1>0, <1>1, <1>2, <1>3, <1>5, <1>6 DEF Result!Deliver, Result!Grows

LEMMA StreamStepKeepsPromise ==
  ASSUME StreamInv, StreamInv', [Next]_vars
  PROVE  Result!Next \/ UNCHANGED Result!resultVars
<1>1. CASE Open \/ AfterOpen \/ Download \/ SendMeta
  BY <1>1, QuietStep DEF Open, AfterOpen, Download, SendMeta, Goto, End, loop, response
<1>2. CASE NextRead \/ DropAnswer \/ ReadFails \/ EndOfData \/ BecomesUnavailable
  BY <1>2, QuietStep
     DEF NextRead, DropAnswer, ReadFails, EndOfData, BecomesUnavailable, Goto, End, loop
<1>3. CASE SwitchFile \/ Hesitate \/ DeleteAndRetry
  BY <1>3, QuietStep DEF SwitchFile, Hesitate, TryAgain, DeleteAndRetry, Goto, response
<1>4. CASE GotRecord
  <2>1. UNCHANGED input /\ pc = "gets" /\ pc' = "loop" /\ BelowMax(records)
    BY <1>4 DEF GotRecord, Goto, StreamInv, PlaceInv
  <2>2. CASE Filtered(Current.kind) \/ Current.kind \in Opaque
    <3>1. UNCHANGED lines
      BY <1>4, <2>2 DEF GotRecord, WriteRecord
    <3> QED
      BY <2>1, <3>1, QuietStep
  <2> QED
    BY <1>4, <2>2, RecordDelivers DEF Result!Next
<1>5. CASE Cancel \/ UNCHANGED vars
  BY <1>5, QuietStep DEF Cancel, vars, loop, response
<1> QED
  BY <1>1, <1>2, <1>3, <1>4, <1>5 DEF Next, Advance

(* What the response promises its reader holds step by step: the callbacks *)
(* of handleQuery write the next wanted record or none, for any library.   *)
THEOREM StreamImplementsResult == Spec => StreamKeepsPromise
<1>1. Init => Result!Init
  BY DEF Init, Result!Init, ResultState
<1>2. StreamInv /\ StreamInv' /\ [Next]_vars => [Result!Next]_Result!resultVars
  BY StreamStepKeepsPromise
<1> QED
  BY <1>1, <1>2, StreamInvariant, PTL DEF Spec, StreamKeepsPromise, Result!Spec

-----------------------------------------------------------------------------
(* The first of the seven that changes grows.                              *)
Moved ==
  \/ Phase[pc] < Phase[pc']
  \/ /\ Phase[pc'] = Phase[pc]
     /\ \/ polls < polls'
        \/ /\ polls' = polls
           /\ \/ Before(cursor, cursor')
              \/ /\ cursor' = cursor
                 /\ \/ retries < retries'
                    \/ /\ retries' = retries
                       /\ \/ pc = "loop" /\ pc' = "gets"
                          \/ pc' = pc /\ attempt < attempt'

LEMMA MovedIsAhead ==
  ASSUME Moved
  PROVE  Ahead(Progress, Progress')
<1>0. DOMAIN Progress = 1..7
  BY DEF Progress
<1>1. SUFFICES \E i \in 1..7 : Progress[i] < Progress'[i] /\ \A j \in 1..(i - 1) : Progress[j] = Progress'[j]
  BY <1>0 DEF Ahead
<1>2. /\ Progress[1] = Phase[pc] /\ Progress[2] = polls /\ Progress[3] = cursor[1]
      /\ Progress[4] = cursor[2] /\ Progress[5] = retries
      /\ Progress[6] = (IF pc = "gets" THEN 1 ELSE 0) /\ Progress[7] = attempt
  BY DEF Progress
<1>3. /\ Progress'[1] = Phase[pc'] /\ Progress'[2] = polls' /\ Progress'[3] = cursor'[1]
      /\ Progress'[4] = cursor'[2] /\ Progress'[5] = retries'
      /\ Progress'[6] = (IF pc' = "gets" THEN 1 ELSE 0) /\ Progress'[7] = attempt'
  BY DEF Progress
<1>4. CASE Phase[pc] < Phase[pc']
  BY <1>2, <1>3, <1>4
<1>5. CASE Phase[pc'] = Phase[pc] /\ polls < polls'
  <2>1. Progress[2] < Progress'[2] /\ \A j \in 1..1 : Progress[j] = Progress'[j]
    BY <1>2, <1>3, <1>5
  <2> QED
    BY <2>1
<1>6. CASE Phase[pc'] = Phase[pc] /\ polls' = polls /\ Before(cursor, cursor')
  <2>1. CASE cursor[1] < cursor'[1]
    <3>1. Progress[3] < Progress'[3] /\ \A j \in 1..2 : Progress[j] = Progress'[j]
      BY <1>2, <1>3, <1>6, <2>1
    <3> QED
      BY <3>1
  <2>2. CASE cursor[1] = cursor'[1] /\ cursor[2] < cursor'[2]
    <3>1. Progress[4] < Progress'[4] /\ \A j \in 1..3 : Progress[j] = Progress'[j]
      BY <1>2, <1>3, <1>6, <2>2
    <3> QED
      BY <3>1
  <2> QED
    BY <1>6, <2>1, <2>2 DEF Before
<1>7. CASE /\ Phase[pc'] = Phase[pc] /\ polls' = polls /\ cursor' = cursor
           /\ retries < retries'
  <2>1. Progress[5] < Progress'[5] /\ \A j \in 1..4 : Progress[j] = Progress'[j]
    BY <1>2, <1>3, <1>7
  <2> QED
    BY <2>1
<1>8. CASE /\ Phase[pc'] = Phase[pc] /\ polls' = polls /\ cursor' = cursor
           /\ retries' = retries /\ pc = "loop" /\ pc' = "gets"
  <2>1. Progress[6] < Progress'[6] /\ \A j \in 1..5 : Progress[j] = Progress'[j]
    BY <1>2, <1>3, <1>8
  <2> QED
    BY <2>1
<1>9. CASE /\ polls' = polls /\ cursor' = cursor
           /\ retries' = retries /\ pc' = pc /\ attempt < attempt'
  <2>1. Progress[7] < Progress'[7] /\ \A j \in 1..6 : Progress[j] = Progress'[j]
    BY <1>2, <1>3, <1>9
  <2> QED
    BY <2>1
<1> QED
  BY <1>4, <1>5, <1>6, <1>7, <1>8, <1>9 DEF Moved

(* The values that bound the seven: what is left of the library, and the   *)
(* limits.                                                                 *)
Reach ==
  /\ polls < PollLimit /\ retries <= RetryLimit /\ attempt < Attempts
  /\ \/ cursor[1] \in 1..Len(files) /\ cursor[2] \in 1..files[cursor[1]].size + 1
     \/ cursor = <<Len(files) + 1, 1>>

LEMMA StepsMoveOn ==
  ASSUME StreamInv, Advance
  PROVE  Moved
<1>0. /\ TypeOK /\ pc # "done" /\ polls \in Nat /\ retries \in Nat /\ attempt \in Nat
      /\ cursor[1] \in Nat /\ cursor[2] \in Nat
  <2>1. pc # "done"
    BY DEF Advance, Open, AfterOpen, Download, SendMeta, NextRead, DropAnswer, GotRecord,
           SwitchFile, Hesitate, TryAgain, DeleteAndRetry, ReadFails, EndOfData,
           BecomesUnavailable, Goto, End
  <2>2. TypeOK /\ Len(files) \in Nat
    BY WantedMember DEF StreamInv
  <2> QED
    BY <2>1, <2>2, StreamAssumption DEF TypeOK, Attempts
<1>1. /\ Phase["open"] = 1 /\ Phase["opened"] = 2 /\ Phase["download"] = 3 /\ Phase["meta"] = 4
      /\ Phase["loop"] = 5 /\ Phase["gets"] = 5 /\ Phase["done"] = 6
  BY DEF Phase
<1>2. CASE Open \/ AfterOpen \/ Download \/ SendMeta
  BY <1>0, <1>1, <1>2 DEF Moved, Open, AfterOpen, Download, SendMeta, Goto, End
<1>3. CASE NextRead \/ DropAnswer \/ ReadFails \/ EndOfData \/ BecomesUnavailable
  BY <1>0, <1>1, <1>3
     DEF Moved, NextRead, DropAnswer, ReadFails, EndOfData, BecomesUnavailable, Goto, End,
         jvlink, loop
<1>4. Before(cursor, NextFile) /\ Before(cursor, NextRecord)
  BY <1>0 DEF Before, NextFile, NextRecord
<1>5. CASE GotRecord
  <2>1. cursor' \in {NextFile, NextRecord}
    BY <1>5 DEF GotRecord, JVSkip
  <2> QED
    BY <1>0, <1>1, <1>4, <1>5, <2>1 DEF Moved, GotRecord, Goto
<1>6. CASE SwitchFile \/ Hesitate \/ DeleteAndRetry
  BY <1>0, <1>1, <1>4, <1>6
     DEF Moved, SwitchFile, Hesitate, TryAgain, DeleteAndRetry, Goto
<1> QED
  BY <1>2, <1>3, <1>5, <1>6 DEF Advance

(* Nothing in the loop of queryStored can go on for ever, for any library  *)
(* and any limits: what each step uses up does not come back.              *)
THEOREM StreamAlwaysMovesOn == Spec => StreamMovesOn
<1>1. StreamInv /\ [Next]_vars => [canceled' = canceled => Ahead(Progress, Progress')]_vars
  BY StepsMoveOn, MovedIsAhead DEF Next, Cancel
<1> QED
  BY <1>1, StreamInvariant, PTL DEF Spec, StreamMovesOn

(* Nor can any of the seven grow without bound: JV-Link's cursor stays in  *)
(* the library, the retries, attempts and polls below their limits.        *)
THEOREM StreamStaysInReach == Spec => []Reach
<1>1. Init => Reach
  <2> SUFFICES ASSUME Init PROVE Reach
    OBVIOUS
  <2>1. Len(files) \in Nat /\ \A f \in 1..Len(files) : files[f].size \in Nat
    BY StreamInit, WantedMember DEF StreamInv
  <2>2. polls < PollLimit /\ retries <= RetryLimit
    BY StreamAssumption DEF Init
  <2>3. attempt < Attempts
    BY StreamAssumption DEF Init, Attempts
  <2>4. cursor[1] = 1 /\ cursor[2] = 1 /\ cursor = <<1, 1>>
    BY DEF Init
  <2>5. CASE Len(files) = 0
    BY <2>2, <2>3, <2>4, <2>5 DEF Reach
  <2>6. CASE Len(files) # 0
    <3>1. cursor[1] \in 1..Len(files) /\ files[1].size \in Nat
      BY <2>1, <2>4, <2>6
    <3>2. cursor[2] \in 1..files[cursor[1]].size + 1
      BY <2>4, <3>1
    <3> QED
      BY <2>2, <2>3, <3>1, <3>2 DEF Reach
  <2> QED
    BY <2>5, <2>6
<1>2. StreamInv /\ StreamInv' /\ Reach /\ [Next]_vars => Reach'
  <2> SUFFICES ASSUME StreamInv, StreamInv', Reach, [Next]_vars PROVE Reach'
    OBVIOUS
  <2>0. /\ Len(files) \in Nat /\ \A f \in 1..Len(files) : files[f].size \in Nat
        /\ TypeOK /\ TypeOK' /\ input' = input
        /\ cursor[1] \in Nat /\ cursor[2] \in Nat /\ cursor = <<cursor[1], cursor[2]>>
    <3>1. input' = input
      BY DEF Next, Advance, Cancel, Open, AfterOpen, Download, SendMeta, NextRead, DropAnswer,
             GotRecord, SwitchFile, Hesitate, TryAgain, DeleteAndRetry, ReadFails, EndOfData,
             BecomesUnavailable, vars
    <3>2. TypeOK /\ TypeOK' /\ Len(files) \in Nat /\ \A f \in 1..Len(files) : files[f].size \in Nat
      BY WantedMember DEF StreamInv
    <3>3. cursor \in Nat \X Nat
      BY <3>2 DEF TypeOK
    <3> QED
      BY <3>1, <3>2, <3>3
  <2>1. polls' < PollLimit /\ retries' <= RetryLimit /\ attempt' < Attempts'
    BY <2>0, StreamAssumption DEF TypeOK, Attempts, input
  <2>2. \/ cursor' = cursor
        \/ HasRecord /\ cursor' \in {NextFile, NextRecord}
        \/ ~AtEnd /\ cursor' = NextFile
    BY DEF Next, Advance, Cancel, Open, AfterOpen, Download, SendMeta, NextRead, DropAnswer,
           GotRecord, JVSkip, SwitchFile, Hesitate, TryAgain, DeleteAndRetry, ReadFails,
           EndOfData, BecomesUnavailable, vars, jvlink
  <2>3. CASE cursor' = cursor
    BY <2>0, <2>1, <2>3 DEF Reach, input
  <2>4. CASE ~AtEnd /\ cursor' = NextFile
    BY <2>0, <2>1, <2>4 DEF Reach, input, NextFile, AtEnd
  <2>5. CASE HasRecord /\ cursor' = NextRecord
    BY <2>0, <2>1, <2>5 DEF Reach, input, NextRecord, HasRecord, AtEnd, Current
  <2> QED
    BY <2>2, <2>3, <2>4, <2>5 DEF HasRecord
<1> QED
  BY <1>1, <1>2, StreamInvariant, PTL DEF Spec

-----------------------------------------------------------------------------
(* What a sequence of chunks can be.                                       *)
Sent == Terminator..MaxRecords

Whole(w) ==
  \A k \in 1..Len(w) - 1 : w[k] # Terminator /\ (w[k] # Newline => w[k + 1] = Newline)
Rising(w) == \A k, n \in 1..Len(w) : k < n /\ w[k] > 0 /\ w[n] > 0 => w[k] < w[n]
Below(w, n) == \A k \in 1..Len(w) : w[k] <= n
Announced(w) == \E k \in 1..Len(w) : w[k] = Meta
Headed(w) == \A k \in 1..Len(w) : w[k] > 0 => \E n \in 1..k : w[n] = Meta

(* After a text the next write is the newline that belongs to it: until    *)
(* then the handler is at "meta" or "newline".  With the terminator both   *)
(* threads are through.                                                    *)
OpenLineInv ==
  ~departed /\ wire # <<>> =>
    /\ wire[Len(wire)] = Terminator => step = "done"
    /\ wire[Len(wire)] \notin {Newline, Terminator} => step \in {"meta", "newline"}

(* The record that the callback has was not written before, and the meta   *)
(* line was.                                                               *)
RecordsInv ==
  /\ Rising(wire) /\ Headed(wire)
  /\ IF step = "record" THEN read > 0 /\ Below(wire, read - 1) ELSE Below(wire, read)
  /\ ~departed /\ (step \in {"loop", "gets", "record", "newline"} \/ (step = "meta" /\ answer = "stream"))
       => Announced(wire)

(* The response is ended when the heartbeat is over.                       *)
JoinInv ==
  /\ step \in {"end", "done"} => beat \in {"off", "ended"}
  /\ beat = "awake" => beats < MaxBeats

(* Who has left is found out when the next record is in the callback.      *)
UnheardInv ==
  /\ ~departed => unheard = 0
  /\ step \in {"open", "opened", "meta", "loop", "gets", "newline"} => unheard = 0
  /\ unheard <= 1

RealtimeInv ==
  RealtimeTypes /\ OpenLineInv /\ Whole(wire) /\ RecordsInv /\ JoinInv /\ UnheardInv

-----------------------------------------------------------------------------
LEMMA ChunksAreInt == \A w \in Seq(Sent) : \A k \in 1..Len(w) : w[k] \in Int
<1>1. Sent \subseteq Int
  BY RealtimeAssumption DEF Sent, Terminator
<1> QED
  BY <1>1, ElementOfSeq

LEMMA AppendChunk ==
  ASSUME NEW w \in Seq(Sent), NEW e \in Sent, NEW v, v = w \o <<e>>
  PROVE  /\ v \in Seq(Sent) /\ v # <<>> /\ Len(v) = Len(w) + 1 /\ v[Len(v)] = e
         /\ \A k \in 1..Len(w) : v[k] = w[k]
<1>1. <<e>> \in Seq(Sent) /\ Len(<<e>>) = 1 /\ <<e>>[1] = e
  OBVIOUS
<1>2. Len(w) \in Nat
  BY LenProperties
<1>3. /\ v \in Seq(Sent) /\ Len(v) = Len(w) + 1
      /\ \A k \in 1..Len(w) + 1 : v[k] = IF k <= Len(w) THEN w[k] ELSE <<e>>[k - Len(w)]
  BY <1>1, ConcatProperties
<1>4. v[Len(w) + 1] = e
  <2>1. Len(w) + 1 \in 1..Len(w) + 1 /\ ~(Len(w) + 1 <= Len(w)) /\ (Len(w) + 1) - Len(w) = 1
    BY <1>2
  <2> QED
    BY <1>1, <1>3, <2>1
<1>5. v # <<>>
  BY <1>2, <1>3, EmptySeq
<1>6. \A k \in 1..Len(w) : v[k] = w[k]
  BY <1>2, <1>3
<1> QED
  BY <1>3, <1>4, <1>5, <1>6

(* What one chunk more may not break.                                      *)
LEMMA AppendKeeps ==
  ASSUME NEW w \in Seq(Sent), NEW e \in Sent, NEW v, v = w \o <<e>>
  PROVE  /\ Whole(w) /\ (w # <<>> => w[Len(w)] = Newline \/ (e = Newline /\ w[Len(w)] # Terminator))
              => Whole(v)
         /\ Rising(w) /\ (e <= 0 \/ Below(w, e - 1)) => Rising(v)
         /\ \A n \in Int : Below(w, n) /\ e <= n => Below(v, n)
         /\ Announced(w) \/ e = Meta => Announced(v)
         /\ Headed(w) /\ (e <= 0 \/ Announced(w)) => Headed(v)
<1>1. /\ v \in Seq(Sent) /\ Len(v) = Len(w) + 1 /\ v[Len(w) + 1] = e
      /\ \A k \in 1..Len(w) : v[k] = w[k]
  BY AppendChunk
<1>2. /\ Len(w) \in Nat /\ e \in Int /\ \A k \in 1..Len(w) : w[k] \in Int
      /\ Newline = -1 /\ Terminator = -3 /\ Meta = 0
  BY LenProperties, ElementOfSeq, RealtimeAssumption DEF Sent, Terminator, Newline, Meta
<1>3. \A k \in 1..Len(v) : k \in 1..Len(w) \/ k = Len(w) + 1
  BY <1>1, <1>2
<1>4. ASSUME Whole(w), w # <<>> => w[Len(w)] = Newline \/ (e = Newline /\ w[Len(w)] # Terminator)
      PROVE  Whole(v)
  <2> SUFFICES ASSUME NEW k \in 1..Len(v) - 1
               PROVE  v[k] # Terminator /\ (v[k] # Newline => v[k + 1] = Newline)
    BY DEF Whole
  <2>1. k \in 1..Len(w) /\ (k = Len(w) \/ (k \in 1..Len(w) - 1 /\ k + 1 \in 1..Len(w)))
    BY <1>1, <1>2
  <2>2. CASE k = Len(w)
    <3>1. w # <<>> /\ v[k] = w[k] /\ v[k + 1] = e
      BY <1>1, <1>2, <2>1, <2>2, EmptySeq
    <3> QED
      BY <1>2, <1>4, <2>2, <3>1
  <2>3. CASE k \in 1..Len(w) - 1 /\ k + 1 \in 1..Len(w)
    <3>1. v[k] = w[k] /\ v[k + 1] = w[k + 1]
      BY <1>1, <2>1, <2>3
    <3> QED
      BY <1>4, <2>3, <3>1 DEF Whole
  <2> QED
    BY <2>1, <2>2, <2>3
<1>5. ASSUME Rising(w), e <= 0 \/ Below(w, e - 1) PROVE Rising(v)
  <2> SUFFICES ASSUME NEW k \in 1..Len(v), NEW n \in 1..Len(v), k < n, v[k] > 0, v[n] > 0
               PROVE  v[k] < v[n]
    BY DEF Rising
  <2>1. k \in 1..Len(w)
    BY <1>1, <1>2
  <2>2. CASE n \in 1..Len(w)
    BY <1>1, <1>5, <2>1, <2>2 DEF Rising
  <2>3. CASE n = Len(w) + 1
    <3>1. v[n] = e /\ v[k] = w[k] /\ w[k] \in Int /\ w[k] <= e - 1
      BY <1>1, <1>2, <1>5, <2>1, <2>3 DEF Below
    <3> QED
      BY <1>2, <3>1
  <2> QED
    BY <1>3, <2>2, <2>3
<1>6. ASSUME NEW n \in Int, Below(w, n), e <= n PROVE Below(v, n)
  BY <1>1, <1>3, <1>6 DEF Below
<1>7. ASSUME Announced(w) \/ e = Meta PROVE Announced(v)
  <2>1. Len(w) + 1 \in 1..Len(v) /\ \A k \in 1..Len(w) : k \in 1..Len(v)
    BY <1>1, <1>2
  <2> QED
    BY <1>1, <1>7, <2>1 DEF Announced
<1>8. ASSUME Headed(w), e <= 0 \/ Announced(w) PROVE Headed(v)
  <2> SUFFICES ASSUME NEW k \in 1..Len(v), v[k] > 0 PROVE \E n \in 1..k : v[n] = Meta
    BY DEF Headed
  <2>1. CASE k \in 1..Len(w)
    <3>1. PICK n \in 1..k : w[n] = Meta
      BY <1>1, <1>8, <2>1 DEF Headed
    <3>2. n \in 1..Len(w)
      BY <1>2, <2>1
    <3> QED
      BY <1>1, <3>1, <3>2
  <2>2. CASE k = Len(w) + 1
    <3>1. Announced(w)
      BY <1>1, <1>2, <1>8, <2>2
    <3>2. PICK n \in 1..Len(w) : w[n] = Meta
      BY <3>1 DEF Announced
    <3>3. n \in 1..k
      BY <1>2, <2>2
    <3> QED
      BY <1>1, <3>2, <3>3
  <2> QED
    BY <1>3, <2>1, <2>2
<1> QED
  BY <1>4, <1>5, <1>6, <1>7, <1>8

(* Two chunks written in one are the one after the other.                  *)
LEMMA PairIsConcat ==
  ASSUME NEW S, NEW a \in S, NEW b \in S
  PROVE  <<a>> \o <<b>> = <<a, b>>
<1> DEFINE s == <<a>> \o <<b>>
           t == <<a, b>>
<1>1. <<a>> \in Seq(S) /\ <<b>> \in Seq(S) /\ Len(<<a>>) = 1 /\ Len(<<b>>) = 1
      /\ <<a>>[1] = a /\ <<b>>[1] = b
  OBVIOUS
<1>2. s \in Seq(S) /\ Len(s) = 2 /\ s[1] = a /\ s[2] = b
  BY <1>1, ConcatProperties
<1>3. t \in Seq(S) /\ Len(t) = 2 /\ t[1] = a /\ t[2] = b
  OBVIOUS
<1> HIDE DEF s, t
<1>4. s = t
  BY <1>2, <1>3, SeqEqual
<1> QED
  BY <1>4 DEF s, t

(* writeStreamErrorLine: a text and its newline in one.                    *)
LEMMA AppendErrorLine ==
  ASSUME NEW w \in Seq(Sent), Whole(w), Rising(w), Headed(w),
         w # <<>> => w[Len(w)] = Newline,
         NEW n \in Nat, Below(w, n),
         NEW v, v = w \o <<ErrorText, Newline>>
  PROVE  /\ v \in Seq(Sent) /\ Whole(v) /\ Rising(v) /\ Headed(v) /\ Below(v, n)
         /\ v[Len(v)] = Newline
<1> DEFINE u == w \o <<ErrorText>>
<1>1. /\ ErrorText \in Sent /\ ErrorText <= 0 /\ ErrorText <= n /\ ErrorText # Terminator
      /\ Newline \in Sent /\ Newline <= 0 /\ Newline <= n
  BY RealtimeAssumption DEF Sent, ErrorText, Newline, Terminator
<1>2. v = u \o <<Newline>>
  <2>1. <<ErrorText>> \in Seq(Sent) /\ <<Newline>> \in Seq(Sent)
    BY <1>1
  <2>2. <<ErrorText>> \o <<Newline>> = <<ErrorText, Newline>>
    BY <1>1, PairIsConcat
  <2>3. (w \o <<ErrorText>>) \o <<Newline>> = w \o (<<ErrorText>> \o <<Newline>>)
    BY <2>1, ConcatAssociative
  <2> QED
    BY <2>2, <2>3
<1>3. u \in Seq(Sent) /\ u # <<>> /\ u[Len(u)] = ErrorText
  BY <1>1, AppendChunk
<1>4. Whole(u) /\ Rising(u) /\ Headed(u)
  BY <1>1, AppendKeeps
<1> HIDE DEF u
<1>0. n \in Int /\ u = w \o <<ErrorText>>
  BY DEF u
<1>5. Below(u, n)
  <2>1. \A m \in Int : Below(w, m) /\ ErrorText <= m => Below(u, m)
    BY <1>0, <1>1, AppendKeeps
  <2> QED
    BY <1>0, <1>1, <2>1
<1>6. v \in Seq(Sent) /\ v[Len(v)] = Newline
  BY <1>1, <1>2, <1>3, AppendChunk
<1>7. Whole(v)
  BY <1>1, <1>2, <1>3, <1>4, AppendKeeps
<1>8. Rising(v) /\ Headed(v)
  BY <1>1, <1>2, <1>3, <1>4, AppendKeeps
<1>9. Below(v, n)
  <2>1. \A m \in Int : Below(u, m) /\ Newline <= m => Below(v, m)
    BY <1>1, <1>2, <1>3, AppendKeeps
  <2> QED
    BY <1>0, <1>1, <1>5, <2>1
<1> QED
  BY <1>6, <1>7, <1>8, <1>9

(* A write of the sink, which a client that has left does not get.         *)
LEMMA WriteKeeps ==
  ASSUME RealtimeInv, NEW e \in Sent, Write(<<e>>),
         ~departed /\ wire # <<>> =>
           wire[Len(wire)] = Newline \/ (e = Newline /\ wire[Len(wire)] # Terminator),
         ~departed => e <= 0 \/ (Below(wire, e - 1) /\ Announced(wire))
  PROVE  /\ wire' \in Seq(Sent) /\ Whole(wire') /\ Rising(wire') /\ Headed(wire')
         /\ \A n \in Int : Below(wire, n) /\ e <= n => Below(wire', n)
         /\ ~departed =>
              /\ wire'[Len(wire')] = e
              /\ Announced(wire) \/ e = Meta => Announced(wire')
<1>0. wire \in Seq(Sent) /\ Whole(wire) /\ Rising(wire) /\ Headed(wire)
  BY DEF RealtimeInv, RealtimeTypes, RecordsInv, Sent
<1>1. CASE departed
  BY <1>0, <1>1 DEF Write
<1>2. CASE ~departed
  <2>1. wire' = wire \o <<e>>
    BY <1>2 DEF Write
  <2>2. /\ wire' \in Seq(Sent) /\ wire'[Len(wire')] = e
    BY <1>0, <2>1, AppendChunk
  <2>3. Whole(wire')
    BY <1>0, <1>2, <2>1, AppendKeeps
  <2>4. Rising(wire') /\ Headed(wire')
    BY <1>0, <1>2, <2>1, AppendKeeps
  <2>5. \A n \in Int : Below(wire, n) /\ e <= n => Below(wire', n)
    BY <1>0, <2>1, AppendKeeps
  <2>6. Announced(wire) \/ e = Meta => Announced(wire')
    BY <1>0, <2>1, AppendKeeps
  <2> QED
    BY <2>2, <2>3, <2>4, <2>5, <2>6
<1> QED
  BY <1>1, <1>2

-----------------------------------------------------------------------------
LEMMA RealtimeInitEstablishesInv == RealtimeInit => RealtimeInv
<1> SUFFICES ASSUME RealtimeInit PROVE RealtimeInv
  OBVIOUS
<1>1. RealtimeTypes
  <2>1. wire \in Seq(Terminator..MaxRecords)
    BY EmptySeq DEF RealtimeInit
  <2>2. read \in 0..MaxRecords /\ unheard \in 0..read /\ beats \in 0..MaxBeats
    BY RealtimeAssumption DEF RealtimeInit
  <2> QED
    BY <2>1, <2>2 DEF RealtimeInit, RealtimeTypes
<1>2. Whole(wire) /\ Rising(wire) /\ Headed(wire) /\ Below(wire, read)
  BY DEF RealtimeInit, Whole, Rising, Headed, Below
<1> QED
  BY <1>1, <1>2 DEF RealtimeInit, RealtimeInv, OpenLineInv, RecordsInv, JoinInv, UnheardInv

(* The steps of the handler that write nothing.                            *)
LEMMA ReadingKeepsInv ==
  ASSUME RealtimeInv,
         \/ OpenRealtime \/ Canceled \/ NextRealtimeRead \/ GotRealtimeRecord \/ FindsItGone
         \/ OnceMore \/ EndOfRealtime \/ RealtimeFails \/ Leave \/ Join
         \/ WriteRealtimeRecord /\ UNCHANGED wire
  PROVE  RealtimeInv'
<1>0. RealtimeTypes /\ OpenLineInv /\ Whole(wire) /\ RecordsInv /\ JoinInv /\ UnheardInv
  BY DEF RealtimeInv
<1>1. UNCHANGED <<wire, beat, beats, resetAsked, departed>>
  BY DEF OpenRealtime, Canceled, NextRealtimeRead, GotRealtimeRecord, FindsItGone, OnceMore,
         EndOfRealtime, RealtimeFails, Leave, Join, WriteRealtimeRecord, heartbeat
<1>2. \A k \in 1..Len(wire) : wire[k] \in Int
  BY <1>0, ChunksAreInt DEF RealtimeTypes, Sent
<1> USE DEF GoOn, heartbeat
<1>3. RealtimeTypes'
  BY <1>0, <1>1, RealtimeAssumption
     DEF RealtimeTypes, OpenRealtime, Canceled, NextRealtimeRead, GotRealtimeRecord, FindsItGone,
         OnceMore, EndOfRealtime, RealtimeFails, Leave, Join, WriteRealtimeRecord
<1>4. OpenLineInv'
  BY <1>0, <1>1
     DEF OpenLineInv, OpenRealtime, Canceled, NextRealtimeRead, GotRealtimeRecord, FindsItGone,
         OnceMore, EndOfRealtime, RealtimeFails, Leave, Join, WriteRealtimeRecord
<1>5. Rising(wire') /\ Headed(wire')
  BY <1>0, <1>1 DEF RecordsInv
<1>6. IF step' = "record" THEN read' > 0 /\ Below(wire', read' - 1) ELSE Below(wire', read')
  <2>1. CASE GotRealtimeRecord
    BY <1>0, <1>1, <2>1 DEF GotRealtimeRecord, RecordsInv, RealtimeTypes
  <2>2. CASE FindsItGone \/ (WriteRealtimeRecord /\ UNCHANGED wire)
    <3>1. step = "record" /\ step' # "record" /\ read' = read /\ Below(wire, read - 1)
      BY <1>0, <2>2 DEF FindsItGone, WriteRealtimeRecord, RecordsInv
    <3> QED
      BY <1>0, <1>1, <1>2, <3>1 DEF Below, RealtimeTypes
  <2>3. CASE \/ OpenRealtime \/ Canceled \/ NextRealtimeRead \/ OnceMore \/ EndOfRealtime
             \/ RealtimeFails \/ Leave \/ Join
    <3>1. step # "record" /\ step' # "record" /\ read' = read
      BY <2>3 DEF OpenRealtime, Canceled, NextRealtimeRead, OnceMore, EndOfRealtime,
                  RealtimeFails, Leave, Join
    <3> QED
      BY <1>0, <1>1, <3>1 DEF RecordsInv
  <2> QED
    BY <2>1, <2>2, <2>3
<1>7. ~departed' /\ (step' \in {"loop", "gets", "record", "newline"} \/ (step' = "meta" /\ answer' = "stream"))
        => Announced(wire')
  BY <1>0, <1>1
     DEF RecordsInv, OpenRealtime, Canceled, NextRealtimeRead, GotRealtimeRecord, FindsItGone,
         OnceMore, EndOfRealtime, RealtimeFails, Leave, Join, WriteRealtimeRecord
<1>8. JoinInv'
  BY <1>0, <1>1
     DEF JoinInv, OpenRealtime, Canceled, NextRealtimeRead, GotRealtimeRecord, FindsItGone,
         OnceMore, EndOfRealtime, RealtimeFails, Leave, Join, WriteRealtimeRecord
<1>9. UnheardInv'
  BY <1>0, <1>1
     DEF UnheardInv, OpenRealtime, Canceled, NextRealtimeRead, GotRealtimeRecord, FindsItGone,
         OnceMore, EndOfRealtime, RealtimeFails, Leave, Join, WriteRealtimeRecord
<1> QED
  BY <1>0, <1>1, <1>3, <1>4, <1>5, <1>6, <1>7, <1>8, <1>9 DEF RealtimeInv, RecordsInv

(* The steps of the handler that write.                                    *)
LEMMA WritingKeepsInv ==
  ASSUME RealtimeInv,
         \/ WriteMeta \/ EndMetaLine \/ EndRecordLine \/ WriteErrorLine \/ EndResponse
         \/ WriteRealtimeRecord /\ wire' # wire
  PROVE  RealtimeInv'
<1>0. /\ RealtimeTypes /\ OpenLineInv /\ Whole(wire) /\ RecordsInv /\ JoinInv /\ UnheardInv
      /\ wire \in Seq(Sent) /\ read \in Nat
  BY DEF RealtimeInv, RealtimeTypes, Sent
<1>1. {Meta, Newline, ErrorText, Terminator} \subseteq Sent /\ 1..MaxRecords \subseteq Sent
  BY RealtimeAssumption DEF Sent, Meta, Newline, ErrorText, Terminator
<1> USE DEF GoOn, heartbeat, Meta, Newline, ErrorText, Terminator
<1>2. CASE WriteMeta
  <2> DEFINE e == IF answer = "refused" THEN ErrorText ELSE Meta
  <2>1. /\ e \in Sent /\ Write(<<e>>) /\ step = "opened" /\ step' = "meta"
        /\ UNCHANGED <<read, answer, unheard, beat, beats, resetAsked, departed>>
    BY <1>1, <1>2 DEF WriteMeta
  <2>2. ~departed /\ wire # <<>> => wire[Len(wire)] = Newline
    BY <1>0, <2>1 DEF OpenLineInv
  <2>3. e <= 0
    OBVIOUS
  <2>4. /\ wire' \in Seq(Sent) /\ Whole(wire') /\ Rising(wire') /\ Headed(wire')
        /\ Below(wire', read)
        /\ ~departed => wire'[Len(wire')] = e /\ (e = Meta => Announced(wire'))
    <3>1. Below(wire, read)
      BY <1>0, <2>1 DEF RecordsInv
    <3> QED
      BY <1>0, <2>1, <2>2, <2>3, <3>1, WriteKeeps
  <2> HIDE DEF e
  <2>5. RealtimeTypes'
    BY <1>0, <2>1, <2>4 DEF RealtimeTypes, Sent
  <2>6. answer = "stream" => e = Meta
    BY DEF e
  <2>7. ~departed => wire'[Len(wire')] # Terminator
    BY <2>4 DEF e
  <2> QED
    BY <1>0, <2>1, <2>4, <2>5, <2>6, <2>7
       DEF RealtimeInv, OpenLineInv, RecordsInv, JoinInv, UnheardInv
<1>3. CASE EndMetaLine \/ EndRecordLine
  <2>1. /\ Newline \in Sent /\ Write(<<Newline>>) /\ step \in {"meta", "newline"}
        /\ step' \in {"loop", "leave"} /\ (step = "meta" /\ step' = "loop" => answer = "stream")
        /\ UNCHANGED <<read, answer, unheard, beat, beats, resetAsked, departed>>
    BY <1>1, <1>3 DEF EndMetaLine, EndRecordLine
  <2>2. ~departed /\ wire # <<>> => wire[Len(wire)] # Terminator
    BY <1>0, <2>1 DEF OpenLineInv
  <2>3. /\ wire' \in Seq(Sent) /\ Whole(wire') /\ Rising(wire') /\ Headed(wire')
        /\ Below(wire', read)
        /\ ~departed => wire'[Len(wire')] = Newline /\ (Announced(wire) => Announced(wire'))
    <3>1. Below(wire, read)
      BY <1>0, <2>1 DEF RecordsInv
    <3> QED
      BY <1>0, <2>1, <2>2, <3>1, WriteKeeps
  <2>4. RealtimeTypes'
    BY <1>0, <2>1, <2>3 DEF RealtimeTypes, Sent
  <2> QED
    BY <1>0, <2>1, <2>3, <2>4
       DEF RealtimeInv, OpenLineInv, RecordsInv, JoinInv, UnheardInv
<1>4. CASE WriteRealtimeRecord /\ wire' # wire
  <2>1. /\ read \in Sent /\ Write(<<read>>) /\ step = "record" /\ step' = "newline" /\ ~departed
        /\ UNCHANGED <<read, answer, unheard, beat, beats, resetAsked, departed>>
    <3>1. read \in 1..MaxRecords
      BY <1>0, <1>4 DEF WriteRealtimeRecord, RecordsInv, RealtimeTypes
    <3> QED
      BY <1>1, <1>4, <3>1 DEF WriteRealtimeRecord
  <2>2. ~departed /\ wire # <<>> => wire[Len(wire)] = Newline
    BY <1>0, <2>1 DEF OpenLineInv
  <2>3. read > 0 /\ Below(wire, read - 1) /\ Announced(wire)
    BY <1>0, <2>1 DEF RecordsInv
  <2>4. Below(wire, read)
    <3>1. \A k \in 1..Len(wire) : wire[k] \in Int
      BY <1>0, ChunksAreInt
    <3> QED
      BY <1>0, <2>3, <3>1 DEF Below
  <2>5. /\ wire' \in Seq(Sent) /\ Whole(wire') /\ Rising(wire') /\ Headed(wire')
        /\ Below(wire', read) /\ wire'[Len(wire')] = read /\ Announced(wire')
    BY <1>0, <2>1, <2>2, <2>3, <2>4, WriteKeeps
  <2>6. RealtimeTypes'
    BY <1>0, <2>1, <2>5 DEF RealtimeTypes, Sent
  <2>7. wire'[Len(wire')] # Terminator
    BY <2>3, <2>5, <1>0
  <2>8. UnheardInv'
    BY <1>0, <2>1 DEF UnheardInv
  <2> QED
    BY <1>0, <2>1, <2>5, <2>6, <2>7, <2>8
       DEF RealtimeInv, OpenLineInv, RecordsInv, JoinInv
<1>5. CASE WriteErrorLine
  <2>1. /\ Write(<<ErrorText, Newline>>) /\ step = "error" /\ step' = "leave"
        /\ UNCHANGED <<read, answer, unheard, beat, beats, resetAsked, departed>>
    BY <1>5 DEF WriteErrorLine
  <2>2. Rising(wire) /\ Headed(wire) /\ Below(wire, read)
    BY <1>0, <2>1 DEF RecordsInv
  <2>3. /\ wire' \in Seq(Sent) /\ Whole(wire') /\ Rising(wire') /\ Headed(wire')
        /\ Below(wire', read)
        /\ ~departed => wire'[Len(wire')] = Newline
    <3>1. CASE departed
      BY <1>0, <2>1, <2>2, <3>1 DEF Write
    <3>2. CASE ~departed
      <4>1. wire' = wire \o <<ErrorText, Newline>>
        BY <2>1, <3>2 DEF Write
      <4>2. wire # <<>> => wire[Len(wire)] = Newline
        BY <1>0, <2>1, <3>2 DEF OpenLineInv
      <4> QED
        BY <1>0, <2>2, <4>1, <4>2, AppendErrorLine
    <3> QED
      BY <3>1, <3>2
  <2>4. RealtimeTypes'
    BY <1>0, <2>1, <2>3 DEF RealtimeTypes, Sent
  <2> QED
    BY <1>0, <2>1, <2>3, <2>4
       DEF RealtimeInv, OpenLineInv, RecordsInv, JoinInv, UnheardInv
<1>6. CASE EndResponse
  <2>1. /\ Terminator \in Sent /\ Write(<<Terminator>>) /\ step = "end" /\ step' = "done"
        /\ UNCHANGED <<read, answer, unheard, beat, beats, resetAsked, departed>>
    BY <1>1, <1>6 DEF EndResponse
  <2>2. ~departed /\ wire # <<>> => wire[Len(wire)] = Newline
    BY <1>0, <2>1 DEF OpenLineInv
  <2>3. /\ wire' \in Seq(Sent) /\ Whole(wire') /\ Rising(wire') /\ Headed(wire')
        /\ Below(wire', read)
        /\ ~departed => wire'[Len(wire')] = Terminator
    <3>1. Below(wire, read)
      BY <1>0, <2>1 DEF RecordsInv
    <3> QED
      BY <1>0, <2>1, <2>2, <3>1, WriteKeeps
  <2>4. RealtimeTypes'
    BY <1>0, <2>1, <2>3 DEF RealtimeTypes, Sent
  <2> QED
    BY <1>0, <2>1, <2>3, <2>4
       DEF RealtimeInv, OpenLineInv, RecordsInv, JoinInv, UnheardInv
<1> QED
  BY <1>2, <1>3, <1>4, <1>5, <1>6

(* The heartbeat, whose blank line may come behind any write but the last. *)
LEMMA BeatingKeepsInv ==
  ASSUME RealtimeInv, Beating
  PROVE  RealtimeInv'
<1>0. /\ RealtimeTypes /\ OpenLineInv /\ Whole(wire) /\ RecordsInv /\ JoinInv /\ UnheardInv
      /\ wire \in Seq(Sent) /\ read \in Nat
  BY DEF RealtimeInv, RealtimeTypes, Sent
<1> USE DEF handlerVars
<1>1. CASE Wake \/ BeatFails
  <2>1. UNCHANGED <<step, read, answer, unheard, beats, wire, resetAsked, departed>>
    BY <1>1 DEF Wake, BeatFails
  <2>2. RealtimeTypes' /\ JoinInv'
    BY <1>0, <1>1, <2>1 DEF RealtimeTypes, JoinInv, Wake, BeatFails, Active
  <2> QED
    BY <1>0, <2>1, <2>2 DEF RealtimeInv, OpenLineInv, RecordsInv, UnheardInv
<1>2. CASE Beat
  <2>1. /\ Newline \in Sent /\ Write(<<Newline>>) /\ beat = "awake" /\ beat' = "asleep" /\ ~departed
        /\ UNCHANGED <<step, read, answer, unheard, resetAsked, departed>>
    BY <1>2, RealtimeAssumption DEF Beat, Sent, Newline, Terminator
  <2>2. step \notin {"end", "done"}
    BY <1>0, <2>1 DEF JoinInv
  <2>3. ~departed /\ wire # <<>> => wire[Len(wire)] # Terminator
    BY <1>0, <2>2 DEF OpenLineInv
  <2>4. /\ wire' \in Seq(Sent) /\ Whole(wire') /\ Rising(wire') /\ Headed(wire')
        /\ wire'[Len(wire')] = Newline
        /\ Announced(wire) => Announced(wire')
        /\ \A n \in Int : Below(wire, n) /\ Newline <= n => Below(wire', n)
    BY <1>0, <2>1, <2>3, WriteKeeps DEF Newline
  <2>5. IF step = "record" THEN read > 0 /\ Below(wire', read - 1) ELSE Below(wire', read)
    BY <1>0, <2>4 DEF RecordsInv, Newline
  <2>6. RealtimeTypes'
    <3>1. beats' \in 0..MaxBeats
      BY <1>0, <1>2, RealtimeAssumption DEF Beat, RealtimeTypes, JoinInv
    <3> QED
      BY <1>0, <2>1, <2>4, <3>1 DEF RealtimeTypes, Sent
  <2>7. RecordsInv'
    BY <1>0, <2>1, <2>4, <2>5 DEF RecordsInv
  <2>8. OpenLineInv'
    BY <2>4 DEF OpenLineInv, Newline, Terminator
  <2>9. JoinInv' /\ UnheardInv'
    BY <1>0, <2>1, <2>2 DEF JoinInv, UnheardInv
  <2> QED
    BY <2>4, <2>6, <2>7, <2>8, <2>9 DEF RealtimeInv
<1> QED
  BY <1>1, <1>2 DEF Beating

(* The client's departure and a reset.                                     *)
LEMMA OthersKeepRealtime ==
  ASSUME RealtimeInv, Reset \/ Depart \/ UNCHANGED realtimeVars
  PROVE  RealtimeInv'
<1>1. /\ UNCHANGED <<step, read, answer, unheard, beat, beats, wire>>
      /\ departed => departed'
  BY DEF Reset, Depart, realtimeVars, handlerVars, heartbeat
<1>2. RealtimeTypes'
  BY <1>1 DEF RealtimeInv, RealtimeTypes, Reset, Depart, realtimeVars
<1> QED
  BY <1>1, <1>2 DEF RealtimeInv, OpenLineInv, RecordsInv, JoinInv, UnheardInv

(* The strengthened invariant of handler, heartbeat and wire.              *)
THEOREM RealtimeInvariant == RealtimeSpec => []RealtimeInv
<1>1. RealtimeInit => RealtimeInv
  BY RealtimeInitEstablishesInv
<1>2. RealtimeInv /\ [RealtimeNext]_realtimeVars => RealtimeInv'
  <2> SUFFICES ASSUME RealtimeInv, [RealtimeNext]_realtimeVars PROVE RealtimeInv'
    OBVIOUS
  <2>1. CASE Handling
    <3>1. CASE WriteRealtimeRecord /\ wire' # wire
      BY <3>1, WritingKeepsInv
    <3>2. CASE WriteRealtimeRecord /\ wire' = wire
      BY <3>2, ReadingKeepsInv
    <3> QED
      BY <2>1, <3>1, <3>2, ReadingKeepsInv, WritingKeepsInv DEF Handling
  <2>2. CASE Beating
    BY <2>2, BeatingKeepsInv
  <2>3. CASE Reset \/ Depart \/ UNCHANGED realtimeVars
    BY <2>3, OthersKeepRealtime
  <2> QED
    BY <2>1, <2>2, <2>3 DEF RealtimeNext
<1> QED
  BY <1>1, <1>2, PTL DEF RealtimeSpec

(* safe_write, writeStreamErrorLine and the join before done(): however    *)
(* long the stream and however the heartbeat falls between its writes.     *)
THEOREM RealtimeLinesAreWhole == RealtimeSpec => []LinesAreWhole
<1>1. RealtimeInv => LinesAreWhole
  <2> SUFFICES ASSUME RealtimeInv PROVE LinesAreWhole
    OBVIOUS
  <2>1. Whole(wire) /\ Rising(wire) /\ Headed(wire) /\ wire \in Seq(Sent)
    BY DEF RealtimeInv, RecordsInv, RealtimeTypes, Sent
  <2>2. ASSUME NEW k \in 1..Len(wire), wire[k] > 0 PROVE Contains(SubSeq(wire, 1, k), Meta)
    <3>1. PICK n \in 1..k : wire[n] = Meta
      BY <2>1, <2>2 DEF Headed
    <3>2. Len(SubSeq(wire, 1, k)) = k /\ \A m \in 1..k : SubSeq(wire, 1, k)[m] = wire[m]
      <4>1. Len(wire) \in Nat
        BY <2>1, LenProperties
      <4> QED
        BY <2>1, <4>1, SubSeqProperties
    <3> QED
      BY <3>1, <3>2 DEF Contains
  <2> QED
    BY <2>1, <2>2 DEF LinesAreWhole, Whole, Rising
<1> QED
  BY <1>1, RealtimeInvariant, PTL

(* What a failed write of the heartbeat, or of a newline, keeps to itself  *)
(* is found by the next record.                                            *)
THEOREM DepartureIsFound == RealtimeSpec => []DepartureCostsOneRecord
<1>1. RealtimeInv => DepartureCostsOneRecord
  BY DEF RealtimeInv, UnheardInv, DepartureCostsOneRecord
<1> QED
  BY <1>1, RealtimeInvariant, PTL

(* Both streams keep to the values of their C++ types and to their limits, *)
(* for any library, request, number of records and number of heartbeats.   *)
THEOREM StreamTypesHold == Spec /\ RealtimeSpec => []Types
<1>1. StreamInv /\ RealtimeInv => Types
  BY DEF StreamInv, RealtimeInv, Types
<1> QED
  BY <1>1, StreamInvariant, RealtimeInvariant, PTL
=============================================================================
