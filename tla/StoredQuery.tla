---------------------------- MODULE StoredQuery ----------------------------
(***************************************************************************)
(* Client.query_stored_raw of the Python client: one query over one or     *)
(* more dataspecs, from the validated arguments to the end of the result.  *)
(* Each dataspec wanted is a POST of its own to the server, sent when the  *)
(* rows before it are read; the limit is global, the metadata shared.      *)
(*                                                                         *)
(* The generators (record_generator, filtered, iterate_rows, combined_rows *)
(* or counted_rows, wire_record_envelopes) are one chain: a step runs from *)
(* one await of the network or one yield to the consumer to the next.  A   *)
(* response still open when its generators are dropped is "loose": only    *)
(* the finalizer of the event loop will close it.                          *)
(***************************************************************************)
EXTENDS Integers, Sequences, FiniteSets, SequencesExt

CONSTANTS
  MaxSpecs,   (* dataspecs in a query                                      *)
  MaxRows,    (* rows the server has of one                                *)
  MaxLimit,   (* the largest max_records                                   *)
  BusyMax     (* busy_max_retries                                          *)

ASSUME QueryAssumption ==
  MaxSpecs \in Nat /\ MaxRows \in Nat /\ MaxLimit \in Nat /\ BusyMax \in Nat

VARIABLES
  query,      (* the arguments, and the rows the server has                *)
  spec,       (* the dataspec it is at, 0 when none is wanted              *)
  pc,         (* asking, header, idle, pulling, done                       *)
  attempt,    (* busy retries of this POST                                 *)
  response,   (* of each wanted dataspec: none, open, loose, closed        *)
  asked,      (* the max_records each was asked with                       *)
  at, last,   (* the next row of the open response and its last            *)
  remaining,  (* remaining_records, -1: None                               *)
  started,    (* whether the consumer has pulled                           *)
  received,   (* the rows the consumer has, <<dataspec, row>>              *)
  meta,       (* per_dataspec: pending, skipped, merged                    *)
  completed,
  short       (* a response ended early and looked whole                   *)

position == <<at, last, remaining>>
result == <<received, completed, started>>
vars == <<query, spec, pc, attempt, response, asked, position, result, meta, short>>

Kinds == {"kept", "deletion"}

(* Whether a row has a data_code matters to exclude_deletions only.        *)
QueriesOver(n, e) ==
  [rows : [1..n -> BoundedSeq(IF e THEN Kinds ELSE {"kept"}, MaxRows)],
   wanted : IF n = 1 THEN {{1}} ELSE SUBSET (1..n),
   limit : -1..MaxLimit,
   exclude : {e}]
Queries == UNION {QueriesOver(n, e) : n \in 1..MaxSpecs, e \in BOOLEAN}

fanout == Len(query.rows) > 1

(* The dataspecs that record_types leaves, in the order of their numbers.  *)
effective_specs == query.wanted
FirstOf(specs) == {s \in specs : \A t \in specs : s <= t}
IsLast(s) == \A t \in effective_specs : t <= s

Init ==
  /\ query \in Queries
  /\ spec \in (IF effective_specs = {} THEN {0} ELSE FirstOf(effective_specs))
  /\ attempt = 0
  /\ pc = IF query.wanted = {} THEN "idle" ELSE "asking"
  /\ response = [s \in effective_specs |-> "none"]
  /\ asked = [s \in effective_specs |-> 0]
  /\ at = 1 /\ last = 0 /\ remaining = query.limit
  /\ received = <<>> /\ started = FALSE
  /\ completed = (query.wanted = {})
  /\ meta = [s \in DOMAIN query.rows |-> IF s \in query.wanted THEN "pending" ELSE "skipped"]
  /\ short = FALSE

Reached == query.limit >= 0 /\ remaining <= 0

(* Slip: every dataspec is asked for the whole limit.                      *)
WholeLimit == query.limit
spec_max_records == IF query.limit < 0 THEN -1 ELSE remaining

(* JVLinkWrapper::queryStored: only a positive limit limits.               *)
Served(max) ==
  LET n == Len(query.rows[spec])
  IN IF max > 0 /\ max < n THEN max ELSE n

-----------------------------------------------------------------------------
(* One POST: _call_with_busy_retry around _fetch_and_parse_stream.         *)

(* The exception leaves through every finally; nothing was completed.      *)
Raise(r) ==
  /\ pc' = "done" /\ response' = [response EXCEPT ![spec] = r]
  /\ UNCHANGED <<query, spec, attempt, asked, position, result, meta, short>>

(* No connection, or the task of the consumer is cancelled.                *)
Refused == pc = "asking" /\ Raise(response[spec])

(* The response is entered; its status and metadata line come next.        *)
Enter ==
  /\ pc = "asking" /\ pc' = "header"
  /\ response' = [response EXCEPT ![spec] = "open"]
  /\ asked' = [asked EXCEPT ![spec] = spec_max_records]
  /\ UNCHANGED <<query, spec, attempt, position, result, meta, short>>

(* 503, or JV-Link's own busy code (-202): sleep, then ask again.          *)
Busy ==
  /\ pc = "header" /\ attempt < BusyMax
  /\ pc' = "asking" /\ attempt' = attempt + 1
  /\ response' = [response EXCEPT ![spec] = "closed"]
  /\ UNCHANGED <<query, spec, asked, position, result, meta, short>>

(* The metadata line: of a stream, or of no data (-1), whose response is   *)
(* closed at once.  The first hands the consumer its result.               *)
Header ==
  /\ pc = "header"
  /\ pc' = IF spec \in FirstOf(effective_specs) THEN "idle" ELSE "pulling"
  /\ meta' = [meta EXCEPT ![spec] = "merged"]
  /\ at' = 1
  /\ \/ last' = Served(asked[spec]) /\ UNCHANGED response
     \/ /\ Served(asked[spec]) = 0 /\ last' = 0
        /\ response' = [response EXCEPT ![spec] = "closed"]
  /\ UNCHANGED <<query, spec, attempt, asked, remaining, result, short>>

(* Busy once too often, another error, no metadata, no answer in time.     *)
HeaderFails == pc = "header" /\ Raise("closed")

(* CancelledError is no Exception: nothing here closes the response.       *)
HeaderCancelled == pc = "header" /\ Raise("loose")

-----------------------------------------------------------------------------
(* The rows.                                                               *)

(* What rows.aclose() makes of the response.  A generator that was never   *)
(* pulled runs no finally, and closing filtered() leaves the one inside.   *)
AfterAclose ==
  IF response[spec] = "closed" THEN "closed"
  ELSE IF started /\ ~query.exclude THEN "closed" ELSE "loose"

(* The consumer asks for a row; at the limit there is none.                *)
Pull ==
  /\ pc = "idle" /\ started' = TRUE
  /\ \/ /\ query.wanted = {}
        /\ pc' = "done" /\ UNCHANGED <<response, completed>>
     \/ /\ query.wanted # {} /\ Reached
        /\ pc' = "done" /\ completed' = TRUE
        /\ response' = [response EXCEPT ![spec] = AfterAclose]
     \/ /\ query.wanted # {} /\ ~Reached
        /\ pc' = "pulling" /\ UNCHANGED <<response, completed>>
  /\ UNCHANGED <<query, spec, attempt, asked, position, received, meta, short>>

Excluded(s, k) == query.exclude /\ query.rows[s][k] = "deletion"

Row ==
  /\ pc = "pulling" /\ at <= last /\ at' = at + 1
  /\ \/ Excluded(spec, at) /\ UNCHANGED <<pc, received, remaining>>
     \/ /\ ~Excluded(spec, at)
        /\ received' = Append(received, <<spec, at>>)
        /\ remaining' = IF query.limit < 0 THEN -1 ELSE remaining - 1
        /\ pc' = "idle"
  /\ UNCHANGED <<query, spec, attempt, response, asked, last, completed, started, meta, short>>

(* Slip: record_generator has no finally.                                  *)
StaysOpen == "open"
AfterLines == "closed"

(* Slip: the loop runs over all dataspecs, the first one included.         *)
FirstAgain == {spec}
NextPlace == FirstOf({s \in effective_specs : s > spec})

(* Slip: the generator of a response without data does not end.            *)
DrainedOpen == pc = "pulling" /\ response[spec] = "open"
Drained == pc = "pulling"

(* No line is left: the next dataspec, or the end.  The response may look  *)
(* whole and have lost its last rows.                                      *)
RowsEnd ==
  /\ Drained
  /\ short' = (short \/ at <= last)
  /\ response' = [response EXCEPT ![spec] = AfterLines]
  /\ IF IsLast(spec) \/ Reached
     THEN /\ pc' = "done" /\ completed' = TRUE
          /\ UNCHANGED <<spec, attempt>>
     ELSE /\ pc' = "asking" /\ spec' \in NextPlace /\ attempt' = 0
          /\ UNCHANGED completed
  /\ UNCHANGED <<query, asked, position, received, started, meta>>

(* An error line, broken JSON or connection, the read timeout, or the task *)
(* cancelled while it waits: the finally of record_generator runs.         *)
RowFails == pc = "pulling" /\ response[spec] = "open" /\ Raise("closed")

-----------------------------------------------------------------------------
(* The consumer leaves.                                                    *)

(* Slip: closing counts as having read everything.                         *)
LeftComplete == TRUE
(* Slip: the result of no dataspec has the finally of the others.          *)
Recomputed == Reached
CompletedOnClose == IF started THEN Reached ELSE completed

(* Slip: nobody closes the rows of a result that was left.                 *)
LeftOpen == "open"
(* GeneratorExit leaves combined_rows without closing iterate_rows.        *)
AfterClose == IF fanout /\ response[spec] # "closed" THEN "loose" ELSE AfterAclose

(* It closes or drops the result between two rows.                         *)
Close ==
  /\ pc = "idle" /\ pc' = "done"
  /\ completed' = CompletedOnClose
  /\ response' = IF query.wanted = {} THEN response
                 ELSE [response EXCEPT ![spec] = AfterClose]
  /\ UNCHANGED <<query, spec, attempt, asked, position, received, started, meta, short>>

(* The finalizer of the event loop, or httpx's own, closes the response.   *)
Finalize ==
  /\ \E s \in DOMAIN response :
       response[s] = "loose" /\ response' = [response EXCEPT ![s] = "closed"]
  /\ UNCHANGED <<query, spec, pc, attempt, asked, position, result, meta, short>>

Answer == Refused \/ Enter \/ Busy \/ Header \/ HeaderFails \/ HeaderCancelled
Line == Row \/ RowsEnd \/ RowFails
Next == Answer \/ Line \/ Pull \/ Close \/ Finalize

Spec == Init /\ [][Next]_vars

(* httpx bounds each wait by the connect and read timeouts and the retries *)
(* sleep a set time; the consumer owes nothing.                            *)
FairSpec == Spec /\ WF_vars(Answer) /\ WF_vars(Line) /\ WF_vars(Finalize)

-----------------------------------------------------------------------------
(* What the query is about.                                                *)
AllRows ==
  UNION { {s} \X {k \in DOMAIN query.rows[s] : ~Excluded(s, k)} : s \in effective_specs }
Before(p, q) == p[1] < q[1] \/ (p[1] = q[1] /\ p[2] < q[2])

(* A limit and exclude_deletions together lose rows, and so does a         *)
(* response cut short; both are stated as violations of their own.         *)
Faithful == ~short /\ (query.exclude => query.limit < 0)

(* Types; remaining_records never runs past the limit.                     *)
TypeOK ==
  /\ query \in Queries
  /\ spec \in (IF effective_specs = {} THEN {0} ELSE effective_specs) /\ attempt \in 0..BusyMax
  /\ pc \in {"asking", "header", "idle", "pulling", "done"}
  /\ response \in [effective_specs -> {"none", "open", "loose", "closed"}]
  /\ asked \in [effective_specs -> -1..MaxLimit]
  /\ at \in 1..(MaxRows + 1) /\ last \in 0..MaxRows
  /\ remaining \in (IF query.limit < 0 THEN {-1} ELSE 0..query.limit)
  /\ received \in Seq((1..MaxSpecs) \X (1..MaxRows))
  /\ meta \in [DOMAIN query.rows -> {"pending", "skipped", "merged"}]
  /\ started \in BOOLEAN /\ completed \in BOOLEAN /\ short \in BOOLEAN

(* The consumer has rows that were asked for, each once, in the order of   *)
(* the dataspecs and no more than the limit, and none was left out on the  *)
(* way, whatever busy answers and headers came between.                    *)
ReceivedInOrder ==
  /\ \A j, k \in DOMAIN received : j < k => Before(received[j], received[k])
  /\ ToSet(received) \subseteq AllRows
  /\ query.limit >= 0 => Len(received) <= query.limit
  /\ Faithful => \A row \in AllRows :
       (\E k \in DOMAIN received : Before(row, received[k])) => row \in ToSet(received)

(* completed is true only when every row asked for was handed over; a      *)
(* query without limit then has the metadata of every dataspec, and one    *)
(* still pending has handed over nothing.                                  *)
CompletedMeansAll ==
  /\ completed /\ Faithful =>
       (query.limit >= 0 /\ Len(received) = query.limit) \/ AllRows \subseteq ToSet(received)
  /\ completed /\ query.limit < 0 => \A s \in DOMAIN meta : meta[s] # "pending"
  /\ \A k \in DOMAIN received : meta[received[k][1]] = "merged"

(* The server serves one JV-Link session: a query never sends a POST while *)
(* a response of its own, also one of an earlier attempt, is unread, or it *)
(* would be busy with itself.                                              *)
NeverBusyWithItself ==
  pc \in {"asking", "header"} =>
    \A s \in effective_specs :
      s # spec \/ pc = "asking" => response[s] \in {"none", "closed"}

(* Every later dataspec is asked for exactly the rows the ones before it   *)
(* left of the limit, and never for 0, which the server takes for all.     *)
AskedForTheRest ==
  \A s \in effective_specs :
    s \notin FirstOf(effective_specs) /\ response[s] # "none" /\ query.limit >= 0 =>
      /\ asked[s] > 0
      /\ asked[s] = query.limit - Cardinality({k \in DOMAIN received : received[k][1] < s})

(* The client never hangs on the server: a POST, its retries and a wait    *)
(* for a row give the consumer a row or end the query, and however it ends *)
(* none of its responses stays open.                                       *)
Settled == \A s \in DOMAIN response : response[s] \in {"none", "closed"}
QueryEnds == pc # "idle" ~> pc = "idle" \/ (pc = "done" /\ Settled)

(* The metadata and the rows as the consumer sees them.                    *)
ResultState ==
  IF completed THEN "complete" ELSE IF pc = "done" THEN "partial" ELSE "open"
Result == INSTANCE StoredResult WITH wanted <- AllRows, full <- Reached,
                                     cut <- ~Faithful, state <- ResultState

(* Whatever the server answers and the consumer does, each step of the     *)
(* generators keeps the promise: the next row or none, and completed is    *)
(* never taken back and nothing follows it.                                *)
QueryKeepsPromise == Result!Spec

(* docs/src/api/python/responses.md: completed is true when everything was *)
(* read or max_records was reached.                                        *)
CompletedAsDocumented ==
  completed /\ ~short => AllRows \subseteq ToSet(received) \/ Len(received) = query.limit

=============================================================================
