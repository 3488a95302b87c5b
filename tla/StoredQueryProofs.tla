------------------------- MODULE StoredQueryProofs --------------------------
(***************************************************************************)
(* What the Python client hands over of one stored query, for any number   *)
(* of dataspecs and rows and any limit.  The rows are in order, none is    *)
(* missing, and the metadata is right about it, because every row before   *)
(* the place of the generators was passed (OrderInv), and because what the *)
(* open response was asked for is what is left of the limit (ServedInv).   *)
(***************************************************************************)
EXTENDS StoredQuery, FiniteSetTheorems, SequenceTheorems, TLAPS

(* The place of the next row; every row before it was passed.              *)
Here == <<spec, IF pc \in {"asking", "header"} THEN 1 ELSE at>>

ResponsesInv ==
  /\ \A s \in effective_specs :
       /\ s > spec => response[s] = "none"
       /\ s # spec /\ pc # "done" => response[s] \in {"none", "closed"}
  /\ pc = "asking" => response[spec] \in {"none", "closed"}
  /\ pc \notin {"asking", "done"} /\ effective_specs # {} => response[spec] # "none"
  /\ effective_specs = {} => pc \in {"idle", "done"}

LimitInv ==
  /\ query.limit >= 0 => remaining = query.limit - Len(received)
  /\ pc = "pulling" => ~Reached
  /\ pc \in {"asking", "header"} /\ spec \notin FirstOf(effective_specs) => ~Reached

OrderInv ==
  /\ ReceivedInOrder
  /\ pc # "done" => \A k \in DOMAIN received : Before(received[k], Here)
  /\ pc # "done" /\ Faithful =>
       \A row \in AllRows : Before(row, Here) => row \in ToSet(received)

(* How much of the limit the open response was asked for, and gives.       *)
ServedInv ==
  /\ pc = "header" => asked[spec] = spec_max_records
  /\ pc \in {"idle", "pulling"} /\ effective_specs # {} =>
       /\ last = Served(asked[spec]) /\ at <= last + 1
       /\ query.limit < 0 => asked[spec] = -1
       /\ query.limit > 0 /\ ~query.exclude => remaining = asked[spec] - (at - 1)

MetaInv ==
  \A s \in DOMAIN query.rows :
    /\ s \notin effective_specs => meta[s] = "skipped"
    /\ s \in effective_specs /\ (s < spec \/ (s = spec /\ pc \in {"idle", "pulling"})) => meta[s] = "merged"

CompletedInv ==
  /\ CompletedMeansAll
  /\ completed => pc = "done" \/ effective_specs = {}

QueryInv ==
  /\ TypeOK /\ ResponsesInv /\ LimitInv /\ OrderInv /\ ServedInv
  /\ MetaInv /\ CompletedInv /\ AskedForTheRest

-----------------------------------------------------------------------------
LEMMA QueryFacts ==
  ASSUME query \in Queries
  PROVE  /\ effective_specs \subseteq DOMAIN query.rows /\ DOMAIN query.rows \subseteq 1..MaxSpecs
         /\ query.limit \in -1..MaxLimit /\ query.exclude \in BOOLEAN
         /\ \A s \in DOMAIN query.rows :
              Len(query.rows[s]) \in 0..MaxRows /\ DOMAIN query.rows[s] = 1..Len(query.rows[s])
<1>1. PICK n \in 1..MaxSpecs, e \in BOOLEAN : query \in QueriesOver(n, e)
  BY DEF Queries
<1> DEFINE r == query.rows
<1>2. /\ r \in [1..n -> BoundedSeq(IF e THEN Kinds ELSE {"kept"}, MaxRows)]
      /\ query.wanted \in IF n = 1 THEN {{1}} ELSE SUBSET (1..n)
      /\ query.limit \in -1..MaxLimit /\ query.exclude = e
  BY <1>1 DEF QueriesOver
<1>4. DOMAIN query.rows = 1..n /\ query.wanted \subseteq 1..n
  BY <1>2
<1>5. 1..n \subseteq 1..MaxSpecs
  BY <1>1, QueryAssumption
<1>6. ASSUME NEW s \in 1..n
      PROVE  Len(r[s]) \in 0..MaxRows /\ DOMAIN r[s] = 1..Len(r[s])
  <2>1. r[s] \in BoundedSeq(IF e THEN Kinds ELSE {"kept"}, MaxRows)
    BY <1>2
  <2>2. PICK m \in 0..MaxRows : r[s] \in [1..m -> IF e THEN Kinds ELSE {"kept"}]
    BY <2>1 DEF BoundedSeq, SeqOf
  <2>3. DOMAIN r[s] = 1..m /\ m \in Nat
    BY <2>2, QueryAssumption
  <2>4. r[s] \in Seq(IF e THEN Kinds ELSE {"kept"})
    BY <2>2, <2>3
  <2>5. Len(r[s]) = m
    BY <2>3, <2>4, LenProperties
  <2> QED
    BY <2>3, <2>5
<1> QED
  BY <1>1, <1>2, <1>4, <1>5, <1>6 DEF effective_specs

LEMMA RowFacts ==
  ASSUME query \in Queries
  PROVE  \A row : row \in AllRows <=>
           /\ row \in Nat \X Nat /\ row[1] \in effective_specs
           /\ row[2] \in 1..Len(query.rows[row[1]]) /\ ~Excluded(row[1], row[2])
<1>1. /\ effective_specs \subseteq DOMAIN query.rows /\ DOMAIN query.rows \subseteq 1..MaxSpecs
      /\ \A s \in DOMAIN query.rows :
           Len(query.rows[s]) \in 0..MaxRows /\ DOMAIN query.rows[s] = 1..Len(query.rows[s])
  BY QueryFacts
<1>2. ASSUME NEW row \in AllRows
      PROVE  /\ row \in Nat \X Nat /\ row[1] \in effective_specs
             /\ row[2] \in 1..Len(query.rows[row[1]]) /\ ~Excluded(row[1], row[2])
  <2>1. PICK s \in effective_specs : row \in {s} \X {k \in DOMAIN query.rows[s] : ~Excluded(s, k)}
    BY DEF AllRows
  <2> QED
    BY <1>1, <2>1
<1>3. ASSUME NEW row \in Nat \X Nat, row[1] \in effective_specs,
             row[2] \in 1..Len(query.rows[row[1]]), ~Excluded(row[1], row[2])
      PROVE  row \in AllRows
  <2>1. row \in {row[1]} \X {k \in DOMAIN query.rows[row[1]] : ~Excluded(row[1], k)}
    BY <1>1, <1>3
  <2> QED
    BY <1>3, <2>1 DEF AllRows
<1> QED
  BY <1>2, <1>3

-----------------------------------------------------------------------------
LEMMA QueryInitEstablishesInv == Init => QueryInv
<1> SUFFICES ASSUME Init PROVE QueryInv
  OBVIOUS
<1>0. /\ query \in Queries /\ remaining = query.limit /\ query.limit \in -1..MaxLimit
      /\ spec \in (IF effective_specs = {} THEN {0} ELSE effective_specs)
      /\ received = <<>> /\ Len(received) = 0 /\ DOMAIN received = {} /\ ToSet(received) = {}
      /\ received \in Seq((1..MaxSpecs) \X (1..MaxRows))
      /\ effective_specs \subseteq Nat
  BY QueryFacts, EmptySeq DEF Init, FirstOf, ToSet
<1>1. TypeOK
  <2>1. response \in [effective_specs -> {"none", "open", "loose", "closed"}]
    BY DEF Init
  <2>2. asked \in [effective_specs -> -1..MaxLimit]
    BY QueryAssumption DEF Init
  <2>3. attempt \in 0..BusyMax /\ at \in 1..(MaxRows + 1) /\ last \in 0..MaxRows
    BY QueryAssumption DEF Init
  <2>4. remaining \in (IF query.limit < 0 THEN {-1} ELSE 0..query.limit)
    BY <1>0, QueryAssumption
  <2>5. meta \in [DOMAIN query.rows -> {"pending", "skipped", "merged"}]
    BY DEF Init
  <2>6. pc \in {"asking", "header", "idle", "pulling", "done"}
    BY DEF Init
  <2> QED
    BY <1>0, <2>1, <2>2, <2>3, <2>4, <2>5, <2>6 DEF Init, TypeOK
<1>2. ResponsesInv
  BY <1>0 DEF Init, ResponsesInv, effective_specs
<1>3. LimitInv
  BY <1>0, QueryAssumption DEF Init, LimitInv, effective_specs
<1>4. OrderInv
  <2>1. ReceivedInOrder
    BY <1>0 DEF ReceivedInOrder
  <2>2. pc # "done" => \A row \in AllRows : ~Before(row, Here)
    <3> SUFFICES ASSUME NEW row \in AllRows PROVE ~Before(row, Here)
      OBVIOUS
    <3>1. row[1] \in effective_specs /\ row[1] \in Nat /\ row[2] \in Nat /\ row[2] >= 1
      <4>1. row \in Nat \X Nat /\ row[1] \in effective_specs /\ row[2] \in 1..Len(query.rows[row[1]])
        BY <1>0, RowFacts
      <4> QED
        BY <4>1
    <3>2. spec \in FirstOf(effective_specs) /\ at = 1
      BY <3>1 DEF Init
    <3>3. spec \in Nat /\ spec <= row[1] /\ Here = <<spec, 1>>
      BY <1>0, <3>1, <3>2 DEF FirstOf, Here
    <3> QED
      BY <3>1, <3>3 DEF Before
  <2> QED
    BY <1>0, <2>1, <2>2 DEF OrderInv
<1>5. ServedInv
  BY DEF Init, ServedInv, effective_specs
<1>6. MetaInv
  <2>1. ASSUME NEW s \in effective_specs, s < spec PROVE FALSE
    BY <1>0, <2>1 DEF Init, FirstOf
  <2> QED
    BY <2>1 DEF Init, MetaInv, effective_specs
<1>7. CompletedInv
  <2>1. effective_specs = {} => AllRows = {}
    BY DEF AllRows
  <2> QED
    BY <1>0, <2>1 DEF Init, CompletedInv, CompletedMeansAll, effective_specs
<1>8. AskedForTheRest
  BY <1>0 DEF Init, AskedForTheRest
<1> QED
  BY <1>1, <1>2, <1>3, <1>4, <1>5, <1>6, <1>7, <1>8 DEF QueryInv

(* The query ends and nothing more is received.                            *)
LEMMA EndingKeepsInv ==
  ASSUME QueryInv, pc # "done" \/ pc' = pc, pc' = "done",
         UNCHANGED <<query, spec, attempt, asked, position, received, meta>>,
         started' \in BOOLEAN, completed' \in BOOLEAN, short' \in BOOLEAN, short => short',
         response' \in [effective_specs -> {"none", "open", "loose", "closed"}],
         \A s \in effective_specs :
           /\ s # spec => response'[s] = response[s]
           /\ response[s] = "none" => response'[s] = "none",
         CompletedMeansAll'
  PROVE  QueryInv'
<1>0. /\ TypeOK /\ ResponsesInv /\ LimitInv /\ OrderInv /\ ServedInv
      /\ MetaInv /\ CompletedInv /\ AskedForTheRest
      /\ effective_specs' = effective_specs /\ AllRows' = AllRows /\ (Faithful' => Faithful)
      /\ query' = query /\ spec' = spec /\ attempt' = attempt /\ asked' = asked /\ meta' = meta
      /\ at' = at /\ last' = last /\ remaining' = remaining /\ received' = received
      /\ effective_specs \subseteq Nat /\ spec \in Nat
  BY QueryFacts DEF QueryInv, TypeOK, effective_specs, AllRows, Excluded, Faithful, position
<1>1. TypeOK'
  BY <1>0 DEF TypeOK, position
<1>2. ResponsesInv'
  BY <1>0 DEF ResponsesInv
<1>3. LimitInv' /\ ServedInv' /\ CompletedInv'
  BY <1>0 DEF LimitInv, ServedInv, CompletedInv, position
<1>4. OrderInv'
  <2>1. ReceivedInOrder'
    BY <1>0 DEF OrderInv, ReceivedInOrder, Before, ToSet
  <2> QED
    BY <2>1 DEF OrderInv
<1>5. MetaInv'
  BY <1>0 DEF MetaInv
<1>6. AskedForTheRest'
  BY <1>0 DEF AskedForTheRest, FirstOf
<1> QED
  BY <1>1, <1>2, <1>3, <1>4, <1>5, <1>6 DEF QueryInv
-----------------------------------------------------------------------------
LEMMA QueryBasics ==
  ASSUME QueryInv
  PROVE  /\ TypeOK /\ ResponsesInv /\ LimitInv /\ OrderInv /\ ServedInv
         /\ MetaInv /\ CompletedInv /\ AskedForTheRest
         /\ effective_specs \subseteq Nat /\ effective_specs \subseteq DOMAIN query.rows
         /\ effective_specs \subseteq 1..MaxSpecs
         /\ spec \in Nat /\ (effective_specs # {} => spec \in effective_specs)
         /\ Len(received) \in Nat /\ DOMAIN received = 1..Len(received)
         /\ \A k \in DOMAIN received :
              received[k] \in Nat \X Nat /\ received[k][1] \in Nat
              /\ received[k][2] \in Nat /\ received[k][2] >= 1
         /\ at \in Nat /\ at >= 1 /\ last \in Nat /\ query.limit \in Int /\ remaining \in Int
         /\ query.exclude \in BOOLEAN
<1>1. TypeOK
  BY DEF QueryInv
<1>2. /\ effective_specs \subseteq DOMAIN query.rows /\ DOMAIN query.rows \subseteq 1..MaxSpecs
      /\ query.limit \in Int /\ query.exclude \in BOOLEAN
  BY <1>1, QueryFacts DEF TypeOK
<1>3. /\ Len(received) \in Nat /\ DOMAIN received = 1..Len(received)
      /\ \A k \in DOMAIN received : received[k] \in (1..MaxSpecs) \X (1..MaxRows)
  BY <1>1, LenProperties, ElementOfSeq DEF TypeOK
<1>4. \A k \in DOMAIN received :
        received[k] \in Nat \X Nat /\ received[k][1] \in Nat
        /\ received[k][2] \in Nat /\ received[k][2] >= 1
  BY <1>3
<1>5. at \in Nat /\ at >= 1 /\ last \in Nat /\ remaining \in Int
  BY <1>1, <1>2 DEF TypeOK
<1>6. effective_specs \subseteq Nat /\ effective_specs \subseteq 1..MaxSpecs
      /\ spec \in Nat /\ (effective_specs # {} => spec \in effective_specs)
  BY <1>1, <1>2 DEF TypeOK
<1> QED
  BY <1>1, <1>2, <1>3, <1>4, <1>5, <1>6 DEF QueryInv

LEMMA SameQuery ==
  ASSUME query' = query
  PROVE  /\ effective_specs' = effective_specs /\ AllRows' = AllRows
         /\ FirstOf(effective_specs)' = FirstOf(effective_specs)
         /\ \A s, k : Excluded(s, k)' <=> Excluded(s, k)
         /\ \A n : Served(n)' = Served(n) \/ spec' # spec
         /\ (short => short') => (Faithful' => Faithful)
BY DEF effective_specs, AllRows, Excluded, FirstOf, Faithful, Served

LEMMA CompletedStays ==
  ASSUME CompletedMeansAll, UNCHANGED <<query, received, completed, meta>>, short => short'
  PROVE  CompletedMeansAll'
BY SameQuery DEF CompletedMeansAll, ToSet

(* A step that hands over nothing keeps the order.                         *)
LEMMA ReceivedStays ==
  ASSUME ReceivedInOrder, UNCHANGED <<query, received>>, short => short'
  PROVE  ReceivedInOrder'
BY SameQuery DEF ReceivedInOrder, Before, ToSet

LEMMA RaisingKeepsInv ==
  ASSUME QueryInv, Refused \/ HeaderFails \/ HeaderCancelled \/ RowFails
  PROVE  QueryInv'
<1>0. TypeOK /\ ResponsesInv /\ CompletedInv /\ effective_specs \subseteq Nat /\ spec \in Nat
      /\ (effective_specs # {} => spec \in effective_specs)
  BY QueryBasics
<1>1. PICK r \in {"none", "open", "loose", "closed"} : Raise(r) /\ (response[spec] = "none" => r = "none")
  <2>1. pc \in {"asking", "header", "pulling"} /\ spec \in effective_specs
    BY <1>0 DEF Refused, HeaderFails, HeaderCancelled, RowFails, ResponsesInv
  <2>2. response[spec] \in {"none", "open", "loose", "closed"}
    BY <1>0, <2>1 DEF TypeOK
  <2>3. CASE Refused
    BY <2>2, <2>3 DEF Refused
  <2>4. CASE HeaderFails \/ HeaderCancelled \/ RowFails
    <3>1. response[spec] # "none"
      BY <1>0, <2>1, <2>4 DEF ResponsesInv, HeaderFails, HeaderCancelled, RowFails
    <3> QED
      BY <2>4, <3>1 DEF HeaderFails, HeaderCancelled, RowFails
  <2> QED
    BY <2>3, <2>4
<1>2. /\ pc # "done" /\ pc' = "done" /\ response' = [response EXCEPT ![spec] = r]
      /\ UNCHANGED <<query, spec, attempt, asked, position, received, completed, started, meta, short>>
  BY <1>1 DEF Raise, Refused, HeaderFails, HeaderCancelled, RowFails, result
<1>3. /\ response' \in [effective_specs -> {"none", "open", "loose", "closed"}]
      /\ \A s \in effective_specs :
           /\ s # spec => response'[s] = response[s]
           /\ response[s] = "none" => response'[s] = "none"
  BY <1>0, <1>1, <1>2 DEF TypeOK
<1>4. CompletedMeansAll'
  BY <1>0, <1>2, CompletedStays DEF CompletedInv
<1>5. started' \in BOOLEAN /\ completed' \in BOOLEAN /\ short' \in BOOLEAN /\ (short => short')
  BY <1>0, <1>2 DEF TypeOK
<1> QED
  BY <1>2, <1>3, <1>4, <1>5, EndingKeepsInv

(* Steps of a POST.                                                        *)
LEMMA AskingKeepsInv ==
  ASSUME QueryInv, Enter \/ Busy
  PROVE  QueryInv'
<1>0. /\ TypeOK /\ ResponsesInv /\ LimitInv /\ OrderInv /\ ServedInv
      /\ MetaInv /\ CompletedInv /\ AskedForTheRest
      /\ effective_specs \subseteq Nat /\ spec \in Nat
      /\ (effective_specs # {} => spec \in effective_specs)
  BY QueryBasics
<1>1. /\ pc \in {"asking", "header"} /\ pc' \in {"asking", "header"}
      /\ query' = query /\ spec' = spec /\ at' = at /\ last' = last /\ remaining' = remaining
      /\ received' = received /\ completed' = completed /\ started' = started /\ meta' = meta
      /\ short' = short /\ effective_specs' = effective_specs /\ AllRows' = AllRows
      /\ FirstOf(effective_specs)' = FirstOf(effective_specs) /\ (Faithful' => Faithful)
      /\ spec \in effective_specs
  BY <1>0, SameQuery DEF Enter, Busy, position, result, ResponsesInv
<1>2. spec_max_records \in -1..MaxLimit /\ spec_max_records' = spec_max_records
  <2>1. query.limit \in -1..MaxLimit
    BY <1>0, QueryFacts DEF TypeOK
  <2> QED
    BY <1>0, <1>1, <2>1, QueryAssumption DEF TypeOK, spec_max_records
<1>3. /\ response' = [response EXCEPT ![spec] = IF pc' = "header" THEN "open" ELSE "closed"]
      /\ asked' \in [effective_specs -> -1..MaxLimit]
      /\ pc' = "header" => asked'[spec] = spec_max_records
      /\ \A s \in effective_specs : s # spec => asked'[s] = asked[s]
      /\ pc' = "asking" => pc = "header" /\ asked' = asked
      /\ attempt' \in 0..BusyMax
  <2>1. CASE Enter
    BY <1>0, <1>1, <1>2, <2>1 DEF Enter, TypeOK
  <2>2. CASE Busy
    <3>1. attempt' \in 0..BusyMax
      BY <1>0, <2>2, QueryAssumption DEF Busy, TypeOK
    <3> QED
      BY <1>0, <1>1, <2>2, <3>1 DEF Busy, TypeOK
  <2> QED
    BY <2>1, <2>2
<1>4. TypeOK'
  BY <1>0, <1>1, <1>3 DEF TypeOK
<1>5. ResponsesInv'
  BY <1>0, <1>1, <1>3 DEF ResponsesInv, TypeOK
<1>6. LimitInv'
  BY <1>0, <1>1 DEF LimitInv, Reached
<1>7. OrderInv'
  <2>1. ReceivedInOrder'
    BY <1>0, <1>1, ReceivedStays DEF OrderInv
  <2>2. Here' = Here
    BY <1>1 DEF Here
  <2> QED
    BY <1>0, <1>1, <2>1, <2>2 DEF OrderInv, Before, ToSet
<1>8. ServedInv'
  BY <1>1, <1>2, <1>3 DEF ServedInv
<1>9. MetaInv'
  BY <1>0, <1>1 DEF MetaInv
<1>10. CompletedInv'
  BY <1>0, <1>1, CompletedStays DEF CompletedInv
<1>11. AskedForTheRest'
  <2> SUFFICES ASSUME NEW s \in effective_specs, s \notin FirstOf(effective_specs),
                      response'[s] # "none", query.limit >= 0
               PROVE  /\ asked'[s] > 0
                      /\ asked'[s] = query.limit
                           - Cardinality({k \in DOMAIN received : received[k][1] < s})
    BY <1>1 DEF AskedForTheRest
  <2>1. CASE s # spec \/ pc' = "asking"
    <3>1. response[s] # "none" /\ asked'[s] = asked[s]
      BY <1>0, <1>1, <1>3, <2>1 DEF ResponsesInv, TypeOK
    <3> QED
      BY <1>0, <3>1 DEF AskedForTheRest
  <2>2. CASE s = spec /\ pc' = "header"
    <3>1. asked'[s] = remaining /\ remaining > 0 /\ remaining = query.limit - Len(received)
      BY <1>0, <1>1, <1>3, <2>2, QueryBasics DEF spec_max_records, LimitInv, Reached
    <3>2. \A k \in DOMAIN received : received[k][1] < s
      <4> TAKE k \in DOMAIN received
      <4>1. Before(received[k], <<spec, 1>>)
        BY <1>0, <1>1 DEF OrderInv, Here
      <4>2. received[k][1] \in Nat /\ received[k][2] \in Nat /\ received[k][2] >= 1
        BY QueryBasics
      <4> QED
        BY <1>0, <2>2, <4>1, <4>2 DEF Before
    <3>3. Len(received) \in Nat /\ {k \in DOMAIN received : received[k][1] < s} = 1..Len(received)
      BY <3>2, QueryBasics
    <3>4. Cardinality(1..Len(received)) = Len(received)
      <4>1. 1 \in Int /\ Len(received) \in Int
        BY <3>3
      <4>2. Cardinality(1..Len(received)) =
              IF 1 > Len(received) THEN 0 ELSE Len(received) - 1 + 1
        BY <4>1, FS_Interval
      <4> QED
        BY <3>3, <4>2
    <3> QED
      BY <3>1, <3>3, <3>4
  <2> QED
    BY <1>1, <2>1, <2>2
<1> QED
  BY <1>4, <1>5, <1>6, <1>7, <1>8, <1>9, <1>10, <1>11 DEF QueryInv
LEMMA ServedBounds ==
  ASSUME QueryInv, spec \in effective_specs, NEW max \in Int
  PROVE  Served(max) \in 0..MaxRows /\ Served(max) <= Len(query.rows[spec])
<1>1. Len(query.rows[spec]) \in 0..MaxRows
  BY QueryFacts, QueryBasics DEF TypeOK
<1> QED
  BY <1>1, QueryAssumption DEF Served

LEMMA HeaderKeepsInv ==
  ASSUME QueryInv, Header
  PROVE  QueryInv'
<1>0. /\ TypeOK /\ ResponsesInv /\ LimitInv /\ OrderInv /\ ServedInv
      /\ MetaInv /\ CompletedInv /\ AskedForTheRest
      /\ effective_specs \subseteq Nat /\ spec \in Nat
      /\ effective_specs \subseteq DOMAIN query.rows
      /\ (effective_specs # {} => spec \in effective_specs)
      /\ query.limit \in Int /\ remaining \in Int
  BY QueryBasics
<1>1. /\ pc = "header" /\ pc' \in {"idle", "pulling"}
      /\ pc' = "pulling" => spec \notin FirstOf(effective_specs)
      /\ query' = query /\ spec' = spec /\ at' = 1 /\ remaining' = remaining /\ asked' = asked
      /\ received' = received /\ completed' = completed /\ started' = started
      /\ attempt' = attempt /\ meta' = [meta EXCEPT ![spec] = "merged"]
      /\ short' = short /\ effective_specs' = effective_specs /\ AllRows' = AllRows
      /\ FirstOf(effective_specs)' = FirstOf(effective_specs) /\ (Faithful' => Faithful)
      /\ spec \in effective_specs /\ effective_specs # {}
      /\ last' = Served(asked[spec])
      /\ response' = response \/ response' = [response EXCEPT ![spec] = "closed"]
  BY <1>0, SameQuery DEF Header, result, ResponsesInv
<1>2. asked[spec] \in Int /\ asked[spec] = spec_max_records
  BY <1>0, <1>1, QueryAssumption DEF TypeOK, ServedInv
<1>3. last' \in 0..MaxRows
  BY <1>1, <1>2, ServedBounds
<1>4. TypeOK'
  <2>1. meta' \in [DOMAIN query.rows -> {"pending", "skipped", "merged"}]
    BY <1>0, <1>1 DEF TypeOK
  <2>2. response' \in [effective_specs -> {"none", "open", "loose", "closed"}]
    BY <1>0, <1>1 DEF TypeOK
  <2>3. at' \in 1..(MaxRows + 1)
    BY <1>1, QueryAssumption
  <2> QED
    BY <1>0, <1>1, <1>3, <2>1, <2>2, <2>3 DEF TypeOK
<1>5. ResponsesInv'
  BY <1>0, <1>1 DEF ResponsesInv, TypeOK
<1>6. LimitInv'
  BY <1>0, <1>1 DEF LimitInv, Reached
<1>7. OrderInv'
  <2>1. ReceivedInOrder'
    BY <1>0, <1>1, ReceivedStays DEF OrderInv
  <2>2. Here' = Here
    BY <1>1 DEF Here
  <2> QED
    BY <1>0, <1>1, <2>1, <2>2 DEF OrderInv, Before, ToSet
<1>8. ServedInv'
  <2>1. last' \in Nat
    BY <1>3, QueryAssumption
  <2>2. Served(asked[spec])' = Served(asked[spec])
    BY <1>1 DEF Served
  <2> QED
    BY <1>0, <1>1, <1>2, <2>1, <2>2 DEF ServedInv, spec_max_records
<1>9. MetaInv'
  BY <1>0, <1>1 DEF MetaInv, TypeOK
<1>10. CompletedInv'
  <2>1. ~completed
    BY <1>0, <1>1 DEF CompletedInv
  <2>2. \A k \in DOMAIN received : meta'[received[k][1]] = "merged"
    <3> SUFFICES ASSUME NEW k \in DOMAIN received PROVE meta'[received[k][1]] = "merged"
      OBVIOUS
    <3>1. received[k] \in AllRows
      BY <1>0 DEF OrderInv, ReceivedInOrder, ToSet
    <3>2. received[k][1] \in DOMAIN query.rows
      BY <1>0, <3>1, RowFacts DEF TypeOK
    <3> QED
      BY <1>0, <1>1, <3>2 DEF CompletedInv, CompletedMeansAll, TypeOK
  <2> QED
    BY <1>1, <2>1, <2>2 DEF CompletedInv, CompletedMeansAll
<1>11. AskedForTheRest'
  <2>1. \A s \in effective_specs : response'[s] # "none" => response[s] # "none"
    BY <1>0, <1>1 DEF ResponsesInv, TypeOK
  <2> QED
    BY <1>0, <1>1, <2>1 DEF AskedForTheRest
<1> QED
  BY <1>4, <1>5, <1>6, <1>7, <1>8, <1>9, <1>10, <1>11 DEF QueryInv

(* What the consumer does between two rows.                                *)
LEMMA ConsumerKeepsInv ==
  ASSUME QueryInv, Pull \/ Close
  PROVE  QueryInv'
<1>0. /\ TypeOK /\ ResponsesInv /\ LimitInv /\ OrderInv /\ ServedInv
      /\ MetaInv /\ CompletedInv /\ AskedForTheRest
      /\ effective_specs \subseteq Nat /\ spec \in Nat
      /\ (effective_specs # {} => spec \in effective_specs)
      /\ query.limit \in Int /\ remaining \in Int /\ Len(received) \in Nat
  BY QueryBasics
<1>1. /\ pc = "idle" /\ started' \in BOOLEAN
      /\ UNCHANGED <<query, spec, attempt, asked, position, received, meta, short>>
  BY <1>0 DEF Pull, Close, TypeOK
<1>2. Reached => query.limit >= 0 /\ Len(received) = query.limit
  <2>1. query.limit >= 0 => remaining \in 0..query.limit
    BY <1>0 DEF TypeOK
  <2> QED
    BY <1>0, <2>1 DEF Reached, LimitInv
<1>3. CASE pc' = "done"
  <2>1. /\ response' \in [effective_specs -> {"none", "open", "loose", "closed"}]
        /\ \A s \in effective_specs :
             /\ s # spec => response'[s] = response[s]
             /\ response[s] = "none" => response'[s] = "none"
    <3>1. CASE effective_specs = {}
      <4>1. response' = response
        BY <1>3, <3>1 DEF Pull, Close, effective_specs
      <4> QED
        BY <1>0, <4>1 DEF TypeOK
    <3>2. CASE effective_specs # {}
      <4>1. PICK r \in {"open", "loose", "closed"} : response' = [response EXCEPT ![spec] = r]
        BY <1>3, <3>2 DEF Pull, Close, effective_specs, AfterAclose, AfterClose
      <4>2. response[spec] # "none" /\ spec \in effective_specs
        BY <1>0, <1>1, <3>2 DEF ResponsesInv
      <4> QED
        BY <1>0, <4>1, <4>2 DEF TypeOK
    <3> QED
      BY <3>1, <3>2
  <2>2. completed' \in BOOLEAN
    BY <1>0, <1>3 DEF Pull, Close, CompletedOnClose, Reached, TypeOK
  <2>3. CompletedMeansAll'
    <3>1. CASE effective_specs = {}
      <4>1. AllRows' = {} /\ query' = query
        BY <1>1, <3>1, SameQuery DEF AllRows
      <4>2. \A s \in DOMAIN meta : meta[s] = "skipped"
        BY <1>0, <3>1 DEF MetaInv, TypeOK
      <4>3. \A k \in DOMAIN received : meta[received[k][1]] = "merged"
        BY <1>0 DEF CompletedInv, CompletedMeansAll
      <4> QED
        BY <1>1, <4>1, <4>2, <4>3 DEF CompletedMeansAll
    <3>2. CASE effective_specs # {}
      <4>1. ~completed
        BY <1>0, <1>1, <3>2 DEF CompletedInv
      <4>2. completed' => Reached
        BY <1>3, <3>2, <4>1 DEF Pull, Close, CompletedOnClose, effective_specs
      <4>3. completed' => query.limit >= 0 /\ Len(received) = query.limit
        BY <1>2, <4>2
      <4>4. \A k \in DOMAIN received : meta[received[k][1]] = "merged"
        BY <1>0 DEF CompletedInv, CompletedMeansAll
      <4>5. completed' => ~(query.limit < 0)
        BY <1>0, <4>3
      <4> QED
        BY <1>1, <4>3, <4>4, <4>5 DEF CompletedMeansAll
    <3> QED
      BY <3>1, <3>2
  <2>4. short' \in BOOLEAN /\ (short => short')
    BY <1>0, <1>1 DEF TypeOK
  <2>5. pc # "done" /\ UNCHANGED <<query, spec, attempt, asked, position, received, meta>>
    BY <1>1
  <2> QED
    BY <1>1, <1>3, <2>1, <2>2, <2>3, <2>4, <2>5, EndingKeepsInv
<1>4. CASE pc' # "done"
  <2>1. /\ pc' = "pulling" /\ ~Reached /\ effective_specs # {}
        /\ response' = response /\ completed' = completed
    BY <1>4 DEF Pull, Close, effective_specs
  <2>2. /\ query' = query /\ spec' = spec /\ at' = at /\ last' = last /\ remaining' = remaining
        /\ asked' = asked /\ received' = received /\ attempt' = attempt /\ meta' = meta
        /\ short' = short /\ effective_specs' = effective_specs /\ AllRows' = AllRows
        /\ FirstOf(effective_specs)' = FirstOf(effective_specs) /\ (Faithful' => Faithful)
    BY <1>1, SameQuery DEF position
  <2>3. TypeOK'
    BY <1>0, <1>1, <2>1, <2>2 DEF TypeOK
  <2>4. ResponsesInv' /\ LimitInv' /\ MetaInv'
    BY <1>0, <1>1, <2>1, <2>2 DEF ResponsesInv, LimitInv, Reached, MetaInv
  <2>5. OrderInv'
    <3>1. ReceivedInOrder'
      BY <1>0, <2>2, ReceivedStays DEF OrderInv
    <3>2. Here' = Here
      BY <1>1, <2>1, <2>2 DEF Here
    <3> QED
      BY <1>0, <1>1, <2>2, <3>1, <3>2 DEF OrderInv, Before, ToSet
  <2>6. ServedInv'
    BY <1>0, <1>1, <2>1, <2>2 DEF ServedInv, Served
  <2>7. CompletedInv'
    BY <1>0, <1>1, <2>1, <2>2, CompletedStays DEF CompletedInv
  <2>8. AskedForTheRest'
    BY <1>0, <2>1, <2>2 DEF AskedForTheRest
  <2> QED
    BY <2>3, <2>4, <2>5, <2>6, <2>7, <2>8 DEF QueryInv
<1> QED
  BY <1>3, <1>4

LEMMA FinalizeKeepsInv ==
  ASSUME QueryInv, Finalize \/ UNCHANGED vars
  PROVE  QueryInv'
<1>0. /\ TypeOK /\ ResponsesInv /\ LimitInv /\ OrderInv /\ ServedInv
      /\ MetaInv /\ CompletedInv /\ AskedForTheRest
  BY QueryBasics
<1>1. /\ query' = query /\ spec' = spec /\ at' = at /\ last' = last /\ remaining' = remaining
      /\ asked' = asked /\ received' = received /\ attempt' = attempt /\ meta' = meta
      /\ short' = short /\ pc' = pc /\ completed' = completed /\ started' = started
  BY DEF Finalize, vars, position, result
<1>2. /\ effective_specs' = effective_specs /\ AllRows' = AllRows
      /\ FirstOf(effective_specs)' = FirstOf(effective_specs) /\ (Faithful' => Faithful)
  BY <1>1, SameQuery
<1>3. /\ response' \in [effective_specs -> {"none", "open", "loose", "closed"}]
      /\ \A s \in effective_specs :
           response'[s] = response[s] \/ (response[s] = "loose" /\ response'[s] = "closed")
  BY <1>0 DEF Finalize, TypeOK, vars
<1>4. TypeOK'
  BY <1>0, <1>1, <1>2, <1>3 DEF TypeOK
<1>5. ResponsesInv'
  <2>1. spec \in effective_specs \/ effective_specs = {}
    BY QueryBasics
  <2>2. ASSUME NEW s \in effective_specs
        PROVE  /\ response[s] = "none" <=> response'[s] = "none"
               /\ response[s] \in {"none", "closed"} => response'[s] \in {"none", "closed"}
    BY <1>3
  <2>3. pc' = "asking" => response'[spec] \in {"none", "closed"}
    BY <1>0, <1>1, <2>1, <2>2 DEF ResponsesInv
  <2> QED
    BY <1>0, <1>1, <1>2, <2>1, <2>2, <2>3 DEF ResponsesInv
<1>6. LimitInv' /\ MetaInv'
  BY <1>0, <1>1, <1>2 DEF LimitInv, Reached, MetaInv
<1>7. OrderInv'
  <2>1. ReceivedInOrder'
    BY <1>0, <1>1, ReceivedStays DEF OrderInv
  <2>2. Here' = Here
    BY <1>1 DEF Here
  <2> QED
    BY <1>0, <1>1, <1>2, <2>1, <2>2 DEF OrderInv, Before, ToSet
<1>8. ServedInv'
  BY <1>0, <1>1, <1>2 DEF ServedInv, Served, spec_max_records
<1>9. CompletedInv'
  BY <1>0, <1>1, <1>2, CompletedStays DEF CompletedInv
<1>10. AskedForTheRest'
  <2>1. \A s \in effective_specs : response'[s] # "none" => response[s] # "none"
    BY <1>3
  <2> QED
    BY <1>0, <1>1, <1>2, <2>1 DEF AskedForTheRest
<1> QED
  BY <1>4, <1>5, <1>6, <1>7, <1>8, <1>9, <1>10 DEF QueryInv
(* A row that a filter leaves out.                                         *)
LEMMA ExcludedRowKeepsInv ==
  ASSUME QueryInv, Row, Excluded(spec, at)
  PROVE  QueryInv'
<1>0. /\ TypeOK /\ ResponsesInv /\ LimitInv /\ OrderInv /\ ServedInv
      /\ MetaInv /\ CompletedInv /\ AskedForTheRest
      /\ effective_specs \subseteq Nat /\ spec \in Nat /\ at \in Nat /\ last \in Nat
      /\ query.exclude
  BY QueryBasics DEF Excluded
<1>1. /\ pc = "pulling" /\ pc' = "pulling" /\ at <= last /\ at' = at + 1
      /\ query' = query /\ spec' = spec /\ last' = last /\ remaining' = remaining
      /\ asked' = asked /\ received' = received /\ attempt' = attempt /\ meta' = meta
      /\ response' = response /\ short' = short /\ completed' = completed /\ started' = started
      /\ effective_specs' = effective_specs /\ AllRows' = AllRows
      /\ FirstOf(effective_specs)' = FirstOf(effective_specs) /\ (Faithful' => Faithful)
  BY SameQuery DEF Row
<1>2. TypeOK'
  <2>1. at' \in 1..(MaxRows + 1)
    BY <1>0, <1>1, QueryAssumption DEF TypeOK
  <2> QED
    BY <1>0, <1>1, <2>1 DEF TypeOK
<1>3. ResponsesInv' /\ LimitInv' /\ MetaInv'
  BY <1>0, <1>1 DEF ResponsesInv, LimitInv, Reached, MetaInv
<1>4. OrderInv'
  <2>1. ReceivedInOrder'
    BY <1>0, <1>1, ReceivedStays DEF OrderInv
  <2>2. Here = <<spec, at>> /\ Here' = <<spec, at + 1>>
    BY <1>1 DEF Here
  <2>3. \A k \in DOMAIN received : Before(received[k], <<spec, at + 1>>)
    <3> TAKE k \in DOMAIN received
    <3>1. Before(received[k], <<spec, at>>)
      BY <1>0, <1>1, <2>2 DEF OrderInv
    <3>2. received[k][2] \in Nat
      BY QueryBasics
    <3> QED
      BY <1>0, <3>1, <3>2 DEF Before
  <2>4. ASSUME NEW row \in AllRows, Before(row, <<spec, at + 1>>), Faithful
        PROVE  row \in ToSet(received)
    <3>1. row \in Nat \X Nat /\ ~Excluded(row[1], row[2])
      BY <1>0, RowFacts DEF TypeOK
    <3>2. row[1] # spec \/ row[2] # at
      BY <3>1
    <3>3. row[1] \in Nat /\ row[2] \in Nat
      BY <3>1
    <3>4. Before(row, Here)
      BY <1>0, <2>2, <2>4, <3>2, <3>3 DEF Before
    <3> QED
      BY <1>0, <1>1, <2>4, <3>4 DEF OrderInv
  <2>5. \A p : Before(p, Here)' <=> Before(p, <<spec, at + 1>>)
    BY <2>2 DEF Before
  <2>6. \A k \in DOMAIN received : Before(received[k], Here)'
    BY <1>1, <2>2, <2>3 DEF Before
  <2>7. ToSet(received)' = ToSet(received)
    BY <1>1 DEF ToSet
  <2> QED
    BY <1>1, <2>1, <2>4, <2>5, <2>6, <2>7 DEF OrderInv
<1>5. ServedInv'
  BY <1>0, <1>1 DEF ServedInv, Served
<1>6. CompletedInv'
  BY <1>0, <1>1, CompletedStays DEF CompletedInv
<1>7. AskedForTheRest'
  BY <1>0, <1>1 DEF AskedForTheRest
<1> QED
  BY <1>2, <1>3, <1>4, <1>5, <1>6, <1>7 DEF QueryInv

(* A row for the consumer.                                                 *)
LEMMA KeptRowKeepsInv ==
  ASSUME QueryInv, Row, ~Excluded(spec, at)
  PROVE  QueryInv'
<1>0. /\ TypeOK /\ ResponsesInv /\ LimitInv /\ OrderInv /\ ServedInv
      /\ MetaInv /\ CompletedInv /\ AskedForTheRest
      /\ effective_specs \subseteq Nat /\ spec \in Nat /\ at \in Nat /\ last \in Nat
      /\ Len(received) \in Nat /\ DOMAIN received = 1..Len(received)
      /\ query.limit \in Int /\ remaining \in Int
  BY QueryBasics
<1>1. /\ pc = "pulling" /\ pc' = "idle" /\ at <= last /\ at' = at + 1
      /\ received' = Append(received, <<spec, at>>)
      /\ remaining' = IF query.limit < 0 THEN -1 ELSE remaining - 1
      /\ query' = query /\ spec' = spec /\ last' = last
      /\ asked' = asked /\ attempt' = attempt /\ meta' = meta
      /\ response' = response /\ short' = short /\ completed' = completed /\ started' = started
      /\ effective_specs' = effective_specs /\ AllRows' = AllRows
      /\ FirstOf(effective_specs)' = FirstOf(effective_specs) /\ (Faithful' => Faithful)
  BY SameQuery DEF Row
<1>2. /\ spec \in effective_specs /\ effective_specs # {} /\ at >= 1
      /\ at <= Len(query.rows[spec]) /\ at \in 1..MaxRows /\ spec \in 1..MaxSpecs
  <2>1. spec \in effective_specs /\ effective_specs # {} /\ spec \in 1..MaxSpecs /\ at >= 1
    BY <1>0, <1>1, QueryBasics DEF ResponsesInv
  <2>2. asked[spec] \in Int
    BY <1>0, <2>1, QueryAssumption DEF TypeOK
  <2>3. last <= Len(query.rows[spec]) /\ last <= MaxRows
    <3>1. last = Served(asked[spec])
      BY <1>0, <1>1, <2>1 DEF ServedInv
    <3>2. Served(asked[spec]) \in 0..MaxRows /\ Served(asked[spec]) <= Len(query.rows[spec])
      BY <2>1, <2>2, ServedBounds
    <3> QED
      BY <3>1, <3>2, QueryAssumption
  <2>4. Len(query.rows[spec]) \in Nat
    BY <1>0, <2>1, QueryFacts, QueryAssumption DEF TypeOK
  <2> QED
    BY <1>0, <1>1, <2>1, <2>3, <2>4, QueryAssumption
<1>3. <<spec, at>> \in AllRows
  <2>1. <<spec, at>> \in Nat \X Nat /\ <<spec, at>>[1] = spec /\ <<spec, at>>[2] = at
    BY <1>0
  <2>2. at \in 1..Len(query.rows[spec])
    BY <1>0, <1>2, QueryFacts, QueryAssumption DEF TypeOK
  <2> QED
    BY <1>0, <1>2, <2>1, <2>2, RowFacts DEF TypeOK
<1> DEFINE n == Len(received)
<1>4. /\ received' \in Seq((1..MaxSpecs) \X (1..MaxRows)) /\ Len(received') = n + 1
      /\ received'[n + 1] = <<spec, at>> /\ \A k \in 1..n : received'[k] = received[k]
      /\ DOMAIN received' = 1..(n + 1)
  <2>1. <<spec, at>> \in (1..MaxSpecs) \X (1..MaxRows)
    BY <1>2
  <2>2. received \in Seq((1..MaxSpecs) \X (1..MaxRows))
    BY <1>0 DEF TypeOK
  <2>3. /\ received' \in Seq((1..MaxSpecs) \X (1..MaxRows)) /\ Len(received') = n + 1
        /\ received'[n + 1] = <<spec, at>> /\ \A k \in 1..n : received'[k] = received[k]
    BY <1>1, <2>1, <2>2, AppendProperties
  <2> QED
    BY <2>3, LenProperties
<1>5. \A k \in DOMAIN received' : k \in 1..n \/ k = n + 1
  BY <1>0, <1>4
<1>6. ToSet(received') = ToSet(received) \union {<<spec, at>>}
  <2>1. n + 1 \in 1..(n + 1) /\ \A k \in 1..n : k \in 1..(n + 1)
    BY <1>0
  <2> QED
    BY <1>0, <1>4, <1>5, <2>1 DEF ToSet
<1> HIDE DEF n
<1>7. ~Reached /\ (query.limit >= 0 => remaining > 0 /\ remaining = query.limit - n)
  BY <1>0, <1>1 DEF LimitInv, Reached, n
<1>8. TypeOK'
  <2>1. at' \in 1..(MaxRows + 1)
    BY <1>0, <1>1, <1>2, QueryAssumption
  <2>2. remaining' \in (IF query.limit < 0 THEN {-1} ELSE 0..query.limit)
    BY <1>0, <1>1, <1>7 DEF TypeOK
  <2> QED
    BY <1>0, <1>1, <1>4, <2>1, <2>2 DEF TypeOK
<1>9. ResponsesInv' /\ MetaInv'
  BY <1>0, <1>1 DEF ResponsesInv, MetaInv
<1>10. LimitInv'
  BY <1>0, <1>1, <1>4, <1>7 DEF LimitInv
<1>11. \A k \in 1..n : Before(received[k], <<spec, at>>)
  BY <1>0, <1>1 DEF OrderInv, Here, n
<1>12. OrderInv'
  <2>1. \A j, k \in DOMAIN received' : j < k => Before(received'[j], received'[k])
    <3> SUFFICES ASSUME NEW j \in DOMAIN received', NEW k \in DOMAIN received', j < k
                 PROVE  Before(received'[j], received'[k])
      OBVIOUS
    <3>1. n \in Nat /\ j \in 1..n
      BY <1>0, <1>4, <1>5 DEF n
    <3>2. CASE k \in 1..n
      BY <1>0, <1>4, <3>1, <3>2 DEF OrderInv, ReceivedInOrder, n
    <3>3. CASE k = n + 1
      BY <1>4, <1>11, <3>1, <3>3
    <3> QED
      BY <1>5, <3>2, <3>3
  <2>2. ToSet(received') \subseteq AllRows
    BY <1>0, <1>3, <1>6 DEF OrderInv, ReceivedInOrder
  <2>3. query.limit >= 0 => Len(received') <= query.limit
    BY <1>0, <1>4, <1>7 DEF n
  <2>4. ASSUME Faithful, NEW row \in AllRows, NEW k \in DOMAIN received', Before(row, received'[k])
        PROVE  row \in ToSet(received')
    <3>1. CASE k \in 1..n
      BY <1>0, <1>4, <1>6, <2>4, <3>1 DEF OrderInv, ReceivedInOrder, n
    <3>2. CASE k = n + 1
      BY <1>0, <1>1, <1>4, <1>6, <2>4, <3>2 DEF OrderInv, Here
    <3> QED
      BY <1>5, <3>1, <3>2
  <2>5. ReceivedInOrder'
    <3>1. /\ (\A j, k \in DOMAIN received : j < k => Before(received[j], received[k]))'
          /\ (ToSet(received) \subseteq AllRows)'
          /\ (query.limit >= 0 => Len(received) <= query.limit)'
      BY <1>1, <2>1, <2>2, <2>3 DEF Before, ToSet
    <3>2. (Faithful => \A row \in AllRows :
             (\E k \in DOMAIN received : Before(row, received[k])) => row \in ToSet(received))'
      BY <1>1, <2>4 DEF Before, ToSet
    <3> QED
      BY <3>1, <3>2 DEF ReceivedInOrder
  <2>6. ASSUME NEW k \in DOMAIN received' PROVE Before(received'[k], <<spec, at + 1>>)
    <3>1. CASE k \in 1..n
      <4>1. Before(received[k], <<spec, at>>) /\ received'[k] = received[k]
        BY <1>4, <1>11, <3>1
      <4>2. received[k][1] \in Nat /\ received[k][2] \in Nat
        BY <1>0, <3>1, QueryBasics DEF n
      <4> QED
        BY <1>0, <4>1, <4>2 DEF Before
    <3>2. CASE k = n + 1
      BY <1>0, <1>4, <3>2 DEF Before
    <3> QED
      BY <1>5, <3>1, <3>2
  <2>7. ASSUME Faithful, NEW row \in AllRows, Before(row, <<spec, at + 1>>)
        PROVE  row \in ToSet(received')
    <3>1. row \in Nat \X Nat
      BY <1>0, RowFacts DEF TypeOK
    <3>2. row = <<row[1], row[2]>> /\ row[1] \in Nat /\ row[2] \in Nat
      BY <3>1
    <3>3. row = <<spec, at>> \/ Before(row, <<spec, at>>)
      BY <1>0, <2>7, <3>2 DEF Before
    <3> QED
      BY <1>0, <1>1, <1>6, <2>7, <3>3 DEF OrderInv, Here
  <2>8. Here' = <<spec, at + 1>>
    BY <1>1 DEF Here
  <2>9. \A k \in DOMAIN received' : Before(received[k], Here)'
    BY <2>6, <2>8 DEF Before
  <2>10. (Faithful => \A row \in AllRows : Before(row, Here) => row \in ToSet(received))'
    BY <1>1, <2>7, <2>8 DEF Before, ToSet
  <2> QED
    BY <2>5, <2>9, <2>10 DEF OrderInv
<1>13. ServedInv'
  <2>1. Served(asked[spec])' = Served(asked[spec])
    BY <1>1 DEF Served
  <2>2. asked[spec] \in Int
    BY <1>0, <1>2, QueryAssumption DEF TypeOK
  <2>3. query.limit > 0 => remaining' = remaining - 1
    BY <1>0, <1>1
  <2> QED
    BY <1>0, <1>1, <1>2, <2>1, <2>2, <2>3 DEF ServedInv
<1>14. CompletedInv'
  <2>1. ~completed
    BY <1>0, <1>1, <1>2 DEF CompletedInv
  <2>2. meta[spec] = "merged"
    BY <1>0, <1>1, <1>2, QueryBasics DEF MetaInv
  <2>3. \A k \in DOMAIN received' : meta[received'[k][1]] = "merged"
    <3> TAKE k \in DOMAIN received'
    <3>1. CASE k \in 1..n
      BY <1>0, <1>4, <3>1 DEF CompletedInv, CompletedMeansAll, n
    <3>2. CASE k = n + 1
      BY <1>4, <2>2, <3>2
    <3> QED
      BY <1>5, <3>1, <3>2
  <2> QED
    BY <1>1, <2>1, <2>3 DEF CompletedInv, CompletedMeansAll
<1>15. AskedForTheRest'
  <2> SUFFICES ASSUME NEW s \in effective_specs, response[s] # "none"
               PROVE  {k \in DOMAIN received' : received'[k][1] < s} =
                        {k \in DOMAIN received : received[k][1] < s}
    BY <1>0, <1>1 DEF AskedForTheRest
  <2>1. s <= spec
    BY <1>0 DEF ResponsesInv
  <2>2. ~(received'[n + 1][1] < s)
    BY <1>0, <1>4, <2>1
  <2>3. DOMAIN received = 1..n /\ 1..n \subseteq DOMAIN received'
    BY <1>0, <1>4 DEF n
  <2> QED
    BY <1>4, <1>5, <2>2, <2>3
<1> QED
  BY <1>8, <1>9, <1>10, <1>12, <1>13, <1>14, <1>15 DEF QueryInv
(* With the last line every row up to this dataspec is handed over.        *)
LEMMA DrainedMeansAll ==
  ASSUME QueryInv, pc = "pulling", Faithful, ~(at <= last)
  PROVE  \A row \in AllRows : row[1] <= spec => row \in ToSet(received)
<1>0. /\ TypeOK /\ ResponsesInv /\ LimitInv /\ OrderInv /\ ServedInv
      /\ spec \in Nat /\ at \in Nat /\ last \in Nat /\ query.limit \in Int /\ remaining \in Int
      /\ query.exclude \in BOOLEAN
      /\ spec \in effective_specs /\ effective_specs # {}
  BY QueryBasics DEF ResponsesInv
<1>1. asked[spec] \in Int /\ Len(query.rows[spec]) \in Nat
  BY <1>0, QueryBasics, QueryFacts, QueryAssumption DEF TypeOK
<1>2. last = Served(asked[spec]) /\ at = last + 1
  BY <1>0 DEF ServedInv
<1>3. last = Len(query.rows[spec])
  <2>1. CASE query.limit < 0
    <3>1. asked[spec] = -1
      BY <1>0, <2>1 DEF ServedInv
    <3> QED
      BY <1>2, <3>1 DEF Served
  <2>2. CASE query.limit >= 0
    <3>1. remaining > 0 /\ remaining \in 0..query.limit /\ query.limit > 0
      BY <1>0, <2>2 DEF LimitInv, Reached, TypeOK
    <3>2. ~query.exclude
      BY <1>0, <2>2 DEF Faithful
    <3>3. remaining = asked[spec] - (at - 1)
      BY <1>0, <3>1, <3>2 DEF ServedInv
    <3>4. asked[spec] > last
      BY <1>0, <1>1, <1>2, <3>1, <3>3
    <3> QED
      BY <1>1, <1>2, <3>4 DEF Served
  <2> QED
    BY <1>0, <2>1, <2>2
<1> SUFFICES ASSUME NEW row \in AllRows, row[1] <= spec
             PROVE  row \in ToSet(received)
  OBVIOUS
<1>4. row \in Nat \X Nat /\ row[2] \in 1..Len(query.rows[row[1]])
  BY <1>0, RowFacts DEF TypeOK
<1>5. row[1] \in Nat /\ row[2] \in Nat
  BY <1>4
<1>6. row[1] = spec => row[2] < at
  BY <1>0, <1>1, <1>2, <1>3, <1>4
<1>7. Before(row, <<spec, at>>)
  BY <1>0, <1>5, <1>6 DEF Before
<1> QED
  BY <1>0, <1>7 DEF OrderInv, Here

LEMMA RowsEndKeepsInv ==
  ASSUME QueryInv, RowsEnd
  PROVE  QueryInv'
<1>0. /\ TypeOK /\ ResponsesInv /\ LimitInv /\ OrderInv /\ ServedInv
      /\ MetaInv /\ CompletedInv /\ AskedForTheRest
      /\ effective_specs \subseteq Nat /\ spec \in Nat /\ at \in Nat /\ last \in Nat
      /\ effective_specs \subseteq DOMAIN query.rows
      /\ spec \in effective_specs /\ effective_specs # {} /\ pc = "pulling"
      /\ query.limit \in Int /\ remaining \in Int
  BY QueryBasics DEF ResponsesInv, RowsEnd, Drained
<1>1. /\ query' = query /\ at' = at /\ last' = last /\ remaining' = remaining
      /\ asked' = asked /\ received' = received /\ meta' = meta /\ started' = started
      /\ response' = [response EXCEPT ![spec] = "closed"]
      /\ short' = (short \/ at <= last) /\ short' \in BOOLEAN /\ (short => short')
      /\ effective_specs' = effective_specs /\ AllRows' = AllRows
      /\ FirstOf(effective_specs)' = FirstOf(effective_specs) /\ (Faithful' => Faithful)
  <2>1. /\ query' = query /\ at' = at /\ last' = last /\ remaining' = remaining
        /\ asked' = asked /\ received' = received /\ meta' = meta /\ started' = started
        /\ response' = [response EXCEPT ![spec] = "closed"]
        /\ short' = (short \/ at <= last)
    BY DEF RowsEnd, position, AfterLines
  <2>2. short' \in BOOLEAN /\ (short => short')
    BY <1>0, <2>1 DEF TypeOK
  <2> QED
    BY <2>1, <2>2, SameQuery
<1>2. ~Reached
  BY <1>0 DEF LimitInv
<1>3. /\ response' \in [effective_specs -> {"none", "open", "loose", "closed"}]
      /\ response[spec] # "none" /\ response'[spec] = "closed"
      /\ \A s \in effective_specs : s # spec => response'[s] = response[s]
  BY <1>0, <1>1 DEF TypeOK, ResponsesInv
<1>4. Faithful' => \A row \in AllRows : row[1] <= spec => row \in ToSet(received)
  <2>1. Faithful' => Faithful /\ ~(at <= last)
    BY <1>1 DEF Faithful
  <2> QED
    BY <1>0, <2>1, DrainedMeansAll
<1>5. CASE pc' = "done"
  <2>1. IsLast(spec) /\ completed' = TRUE /\ spec' = spec /\ attempt' = attempt
    BY <1>2, <1>5 DEF RowsEnd
  <2>2. CompletedMeansAll'
    <3>1. Faithful' => AllRows \subseteq ToSet(received)
      <4>1. \A row \in AllRows : row[1] \in effective_specs
        BY <1>0, RowFacts DEF TypeOK
      <4> QED
        BY <1>4, <2>1, <4>1 DEF IsLast
    <3>2. \A s \in DOMAIN meta : meta[s] # "pending"
      <4> SUFFICES ASSUME NEW s \in DOMAIN query.rows PROVE meta[s] # "pending"
        BY <1>0 DEF TypeOK
      <4>1. ASSUME s \in effective_specs PROVE s < spec \/ s = spec
        <5>1. s \in Nat /\ s <= spec
          BY <1>0, <2>1, <4>1 DEF IsLast
        <5> QED
          BY <1>0, <5>1
      <4> QED
        BY <1>0, <4>1 DEF MetaInv
    <3>3. \A k \in DOMAIN received : meta[received[k][1]] = "merged"
      BY <1>0 DEF CompletedInv, CompletedMeansAll
    <3>4. (AllRows \subseteq ToSet(received))' <=> AllRows \subseteq ToSet(received)
      BY <1>1 DEF ToSet
    <3> QED
      BY <1>1, <3>1, <3>2, <3>3, <3>4 DEF CompletedMeansAll
  <2>3. \A s \in effective_specs :
          /\ s # spec => response'[s] = response[s]
          /\ response[s] = "none" => response'[s] = "none"
    BY <1>3
  <2>4. started' \in BOOLEAN /\ completed' \in BOOLEAN
    BY <1>0, <1>1, <2>1 DEF TypeOK
  <2>5. pc # "done" /\ UNCHANGED <<query, spec, attempt, asked, position, received, meta>>
    BY <1>0, <1>1, <2>1 DEF position
  <2> QED
    BY <1>1, <1>3, <1>5, <2>2, <2>3, <2>4, <2>5, EndingKeepsInv
<1>6. CASE pc' # "done"
  <2>1. /\ pc' = "asking" /\ attempt' = 0 /\ completed' = completed
        /\ spec' \in effective_specs /\ spec' > spec
        /\ \A s \in effective_specs : s > spec => spec' <= s
    BY <1>6 DEF RowsEnd, NextPlace, FirstOf
  <2>2. /\ spec' \in Nat /\ spec' \notin FirstOf(effective_specs)
        /\ \A s \in effective_specs : s < spec' => s <= spec
    <3>1. spec' \in Nat
      BY <1>0, <2>1
    <3>2. spec' \notin FirstOf(effective_specs)
      BY <1>0, <2>1, <3>1 DEF FirstOf
    <3>3. \A s \in effective_specs : s < spec' => s <= spec
      BY <1>0, <2>1, <3>1
    <3> QED
      BY <3>1, <3>2, <3>3
  <2>3. TypeOK'
    BY <1>0, <1>1, <1>3, <2>1, QueryAssumption DEF TypeOK
  <2>4. ResponsesInv'
    <3> SUFFICES /\ \A s \in effective_specs :
                      /\ s > spec' => response'[s] = "none"
                      /\ s # spec' => response'[s] \in {"none", "closed"}
                 /\ response'[spec'] \in {"none", "closed"}
      BY <1>0, <1>1, <2>1 DEF ResponsesInv
    <3>1. ASSUME NEW s \in effective_specs, s > spec PROVE response'[s] = "none"
      BY <1>0, <1>3, <3>1 DEF ResponsesInv
    <3>2. ASSUME NEW s \in effective_specs PROVE response'[s] \in {"none", "closed"}
      BY <1>0, <1>3 DEF ResponsesInv
    <3>3. ASSUME NEW s \in effective_specs, s > spec' PROVE s > spec
      <4>1. s \in Nat
        BY <1>0
      <4> QED
        BY <1>0, <2>1, <2>2, <3>3, <4>1
    <3>4. response'[spec'] \in {"none", "closed"}
      BY <2>1, <3>2
    <3> QED
      BY <3>1, <3>2, <3>3, <3>4
  <2>5. LimitInv'
    BY <1>0, <1>1, <1>2, <2>1 DEF LimitInv, Reached
  <2>6. OrderInv'
    <3>1. ReceivedInOrder'
      BY <1>0, <1>1, ReceivedStays DEF OrderInv
    <3>2. Here = <<spec, at>> /\ Here' = <<spec', 1>>
      BY <1>0, <2>1 DEF Here
    <3>3. \A k \in DOMAIN received : Before(received[k], <<spec', 1>>)
      <4> TAKE k \in DOMAIN received
      <4>1. Before(received[k], <<spec, at>>)
        BY <1>0, <3>2 DEF OrderInv
      <4>2. received[k][1] \in Nat
        BY QueryBasics
      <4> QED
        BY <1>0, <2>1, <2>2, <4>1, <4>2 DEF Before
    <3>4. ASSUME Faithful', NEW row \in AllRows, Before(row, <<spec', 1>>)
          PROVE  row \in ToSet(received)
      <4>1. /\ row \in Nat \X Nat /\ row[1] \in effective_specs
            /\ row[2] \in 1..Len(query.rows[row[1]])
        BY <1>0, RowFacts DEF TypeOK
      <4>2. row[1] \in Nat /\ row[2] \in Nat /\ row[2] >= 1
        BY <4>1
      <4>3. row[1] < spec'
        BY <2>2, <3>4, <4>2 DEF Before
      <4> QED
        BY <1>4, <2>2, <3>4, <4>1, <4>3
    <3>5. \A k \in DOMAIN received' : Before(received[k], Here)'
      BY <1>1, <3>2, <3>3 DEF Before
    <3>6. (Faithful => \A row \in AllRows : Before(row, Here) => row \in ToSet(received))'
      BY <1>1, <3>2, <3>4 DEF Before, ToSet
    <3> QED
      BY <3>1, <3>5, <3>6 DEF OrderInv
  <2>7. ServedInv'
    BY <2>1 DEF ServedInv
  <2>8. MetaInv'
    <3> SUFFICES ASSUME NEW s \in effective_specs, s < spec' PROVE meta[s] = "merged"
      BY <1>0, <1>1, <2>1 DEF MetaInv
    <3>1. s < spec \/ s = spec
      BY <1>0, <2>2
    <3> QED
      BY <1>0, <3>1 DEF MetaInv
  <2>9. CompletedInv'
    BY <1>0, <1>1, <2>1, CompletedStays DEF CompletedInv
  <2>10. AskedForTheRest'
    <3>1. \A s \in effective_specs : response'[s] # "none" => response[s] # "none"
      BY <1>3
    <3> QED
      BY <1>0, <1>1, <3>1 DEF AskedForTheRest
  <2> QED
    BY <2>3, <2>4, <2>5, <2>6, <2>7, <2>8, <2>9, <2>10 DEF QueryInv
<1> QED
  BY <1>5, <1>6

-----------------------------------------------------------------------------
(* The strengthened invariant of one query.                                *)
THEOREM QueryInvariant == Spec => []QueryInv
<1>1. QueryInv /\ [Next]_vars => QueryInv'
  <2> SUFFICES ASSUME QueryInv, [Next]_vars PROVE QueryInv'
    OBVIOUS
  <2>1. CASE Answer
    BY <2>1, RaisingKeepsInv, AskingKeepsInv, HeaderKeepsInv DEF Answer
  <2>2. CASE Line
    BY <2>2, ExcludedRowKeepsInv, KeptRowKeepsInv, RowsEndKeepsInv, RaisingKeepsInv DEF Line
  <2>3. CASE Pull \/ Close
    BY <2>3, ConsumerKeepsInv
  <2>4. CASE Finalize \/ UNCHANGED vars
    BY <2>4, FinalizeKeepsInv
  <2> QED
    BY <2>1, <2>2, <2>3, <2>4 DEF Next
<1> QED
  BY <1>1, QueryInitEstablishesInv, PTL DEF Spec

(* remaining_records never runs past the limit, nor a response past its    *)
(* rows, for any number of dataspecs and rows.                             *)
THEOREM QueryTypesHold == Spec => []TypeOK
<1>1. QueryInv => TypeOK
  BY DEF QueryInv
<1> QED
  BY <1>1, QueryInvariant, PTL

(* iterate_rows and combined_rows hand over what was asked for, in order.  *)
THEOREM RowsComeInOrder == Spec => []ReceivedInOrder
<1>1. QueryInv => ReceivedInOrder
  BY DEF QueryInv, OrderInv
<1> QED
  BY <1>1, QueryInvariant, PTL

(* completed is not set before the last row that was asked for.            *)
THEOREM CompletedIsTrue == Spec => []CompletedMeansAll
<1>1. QueryInv => CompletedMeansAll
  BY DEF QueryInv, CompletedInv
<1> QED
  BY <1>1, QueryInvariant, PTL

(* combined_rows and the busy retry send no POST over an unread response.  *)
THEOREM OneResponseAtATime == Spec => []NeverBusyWithItself
<1>1. QueryInv => NeverBusyWithItself
  BY DEF QueryInv, ResponsesInv, NeverBusyWithItself
<1> QED
  BY <1>1, QueryInvariant, PTL

(* spec_max_records is the rest of the limit, for any number of dataspecs. *)
THEOREM TheRestIsAskedFor == Spec => []AskedForTheRest
<1>1. QueryInv => AskedForTheRest
  BY DEF QueryInv
<1> QED
  BY <1>1, QueryInvariant, PTL
-----------------------------------------------------------------------------
(* A query without a dataspec is over when it is pulled.                   *)
StartInv == effective_specs = {} /\ started => pc = "done"

LEMMA QueryStartInv == Spec => []StartInv
<1>1. Init => StartInv
  BY DEF Init, StartInv
<1>2. QueryInv /\ StartInv /\ [Next]_vars => StartInv'
  <2> SUFFICES ASSUME QueryInv, StartInv, [Next]_vars, effective_specs' = {}, started'
               PROVE  pc' = "done"
    BY DEF StartInv
  <2>1. effective_specs = {} /\ pc \in {"idle", "done"}
    BY DEF QueryInv, ResponsesInv, effective_specs, vars, Next, Answer, Line, Refused, Enter,
           Busy, Header, HeaderFails, HeaderCancelled, Raise, Row, RowsEnd, RowFails, Pull,
           Close, Finalize
  <2>2. CASE Pull \/ Close
    BY <2>1, <2>2 DEF Pull, Close, effective_specs
  <2>3. CASE Finalize \/ UNCHANGED vars
    BY <2>1, <2>3 DEF StartInv, Finalize, vars, result
  <2>4. ~Answer /\ ~Line
    BY <2>1 DEF Answer, Line, Refused, Enter, Busy, Header, HeaderFails, HeaderCancelled,
                Row, RowsEnd, RowFails, Drained
  <2> QED
    BY <2>2, <2>3, <2>4 DEF Next
<1> QED
  BY <1>1, <1>2, QueryInvariant, PTL DEF Spec

(* A step that hands over nothing: the promise is kept as it was, or the   *)
(* result has come to its end.                                             *)
LEMMA QuietStep ==
  ASSUME QueryInv, QueryInv', UNCHANGED <<query, received, remaining>>, short => short',
         \/ ResultState = "open" /\ (ResultState' = "partial" => short' = short)
         \/ ResultState' = ResultState /\ short' = short
  PROVE  Result!Next \/ UNCHANGED Result!resultVars
<1>1. /\ AllRows' = AllRows /\ Reached' = Reached /\ (Faithful' => Faithful)
      /\ short' = short => (~Faithful)' = ~Faithful
  BY SameQuery DEF Reached, Faithful
<1>2. CASE ResultState' = ResultState /\ short' = short
  BY <1>1, <1>2 DEF Result!resultVars
<1>3. CASE ResultState = "open" /\ ResultState' = "open"
  BY <1>1, <1>3 DEF Result!Next, Result!Narrow, Result!Grows
<1>4. CASE ResultState = "open" /\ ResultState' = "partial" /\ short' = short
  BY <1>1, <1>4 DEF Result!Next, Result!GiveUp
<1>5. CASE ResultState = "open" /\ ResultState' = "complete"
  <2>1. completed' /\ CompletedMeansAll'
    BY <1>5 DEF ResultState, QueryInv, CompletedInv
  <2>2. Faithful' => (query.limit >= 0 /\ Len(received) = query.limit) \/ AllRows \subseteq ToSet(received)
    BY <1>1, <2>1 DEF CompletedMeansAll, ToSet
  <2>3. query.limit >= 0 /\ Len(received) = query.limit => Reached
    BY QueryBasics DEF LimitInv, Reached
  <2>4. ~Faithful' \/ Reached \/ AllRows \subseteq ToSet(received)
    BY <2>2, <2>3
  <2> QED
    BY <1>1, <1>5, <2>4
       DEF Result!Next, Result!Complete, Result!Grows, Result!Honest, ToSet, Result!ToSet
<1>6. ResultState' \in {"open", "partial", "complete"}
  BY DEF ResultState
<1> QED
  BY <1>2, <1>3, <1>4, <1>5, <1>6

(* A row that reaches the consumer is the next one.                        *)
LEMMA RowDelivers ==
  ASSUME QueryInv, QueryInv', Row, ~Excluded(spec, at)
  PROVE  Result!Deliver
<1>0. /\ LimitInv /\ OrderInv /\ CompletedInv /\ ResponsesInv /\ TypeOK /\ ReceivedInOrder'
      /\ pc = "pulling" /\ pc' = "idle" /\ Here = <<spec, at>>
      /\ received' = Append(received, <<spec, at>>)
      /\ query' = query /\ short' = short /\ completed' = completed
  BY DEF QueryInv, OrderInv, Row, Here
<1>1. ~completed
  BY <1>0 DEF CompletedInv, ResponsesInv
<1>2. ResultState = "open" /\ ResultState' = "open" /\ ~Reached
  BY <1>0, <1>1 DEF ResultState, LimitInv
<1>3. AllRows' = AllRows /\ (~Faithful)' = ~Faithful
  BY <1>0, SameQuery DEF Faithful
<1>4. <<spec, at>> \in AllRows
  <2>1. /\ received \in Seq((1..MaxSpecs) \X (1..MaxRows))
        /\ received' \in Seq((1..MaxSpecs) \X (1..MaxRows))
    BY <1>0 DEF QueryInv, TypeOK
  <2>2. Len(received') = Len(received) + 1 /\ received'[Len(received) + 1] = <<spec, at>>
    BY <1>0, <2>1
  <2>3. Len(received) + 1 \in DOMAIN received'
    BY <2>1, <2>2, LenProperties
  <2>4. <<spec, at>> \in ToSet(received')
    BY <2>2, <2>3 DEF ToSet
  <2> QED
    BY <1>0, <1>3, <2>4 DEF ReceivedInOrder, ToSet
<1>5. \A k \in DOMAIN received : Result!Before(received[k], <<spec, at>>)
  BY <1>0 DEF OrderInv, Before, Result!Before
<1>6. Faithful => \A row \in AllRows : Result!Before(row, <<spec, at>>) => row \in ToSet(received)
  BY <1>0 DEF OrderInv, Before, Result!Before
<1> QED
  BY <1>0, <1>2, <1>3, <1>4, <1>5, <1>6
     DEF Result!Deliver, Result!Grows, ToSet, Result!ToSet

LEMMA QueryStepKeepsPromise ==
  ASSUME QueryInv, QueryInv', StartInv, [Next]_vars
  PROVE  Result!Next \/ UNCHANGED Result!resultVars
<1>0. CompletedInv /\ ResponsesInv
  BY DEF QueryInv
<1>1. CASE Answer \/ RowFails
  <2>1. /\ UNCHANGED <<query, received, remaining, short, completed>>
        /\ pc \in {"asking", "header", "pulling"}
    BY <1>1 DEF Answer, Refused, Enter, Busy, Header, HeaderFails, HeaderCancelled, RowFails,
                Raise, position, result
  <2>2. ~completed
    BY <1>0, <2>1 DEF CompletedInv, ResponsesInv
  <2> QED
    BY <2>1, <2>2, QuietStep DEF ResultState
<1>2. CASE Row
  <2>1. CASE Excluded(spec, at)
    <3>1. UNCHANGED <<query, received, remaining, short, completed, pc>>
      BY <1>2, <2>1 DEF Row
    <3> QED
      BY <3>1, QuietStep DEF ResultState
  <2> QED
    BY <1>2, <2>1, RowDelivers DEF Result!Next
<1>3. CASE RowsEnd
  <2>1. /\ UNCHANGED <<query, received, remaining>> /\ (short => short')
        /\ pc = "pulling" /\ (pc' = "done" => completed') /\ (pc' # "done" => completed' = completed)
    BY <1>3 DEF RowsEnd, Drained, position
  <2>2. ~completed
    BY <1>0, <2>1 DEF CompletedInv, ResponsesInv
  <2> QED
    BY <2>1, <2>2, QuietStep DEF ResultState
<1>4. CASE Pull \/ Close
  <2>1. UNCHANGED <<query, received, remaining, short>> /\ pc = "idle"
    BY <1>4 DEF Pull, Close, position
  <2>2. CASE effective_specs # {}
    <3>1. ~completed
      BY <1>0, <2>1, <2>2 DEF CompletedInv
    <3> QED
      BY <2>1, <3>1, QuietStep DEF ResultState
  <2>3. CASE effective_specs = {}
    <3>1. ~started
      BY <2>1, <2>3 DEF StartInv
    <3>2. completed' = completed /\ pc' = "done"
      BY <1>4, <2>3, <3>1 DEF Pull, Close, CompletedOnClose, effective_specs
    <3> QED
      BY <2>1, <3>2, QuietStep DEF ResultState
  <2> QED
    BY <2>2, <2>3
<1>5. CASE Finalize \/ UNCHANGED vars
  <2>1. UNCHANGED <<query, received, remaining, short, completed, pc>>
    BY <1>5 DEF Finalize, vars, position, result
  <2> QED
    BY <2>1, QuietStep DEF ResultState
<1> QED
  BY <1>1, <1>2, <1>3, <1>4, <1>5 DEF Next, Line

LEMMA QueryInitKeepsPromise == Init => Result!Init
<1> SUFFICES ASSUME Init PROVE Result!Init
  OBVIOUS
<1>1. received = <<>>
  BY DEF Init
<1>2. CASE effective_specs = {}
  <2>1. AllRows \subseteq ToSet(received)
    BY <1>2 DEF AllRows
  <2> QED
    BY <1>1, <1>2, <2>1
       DEF Init, Result!Init, Result!Honest, ResultState, effective_specs, ToSet, Result!ToSet
<1>3. CASE effective_specs # {}
  BY <1>1, <1>3 DEF Init, Result!Init, ResultState, effective_specs
<1> QED
  BY <1>2, <1>3

(* What query_stored_raw promises of a result holds step by step: rows are *)
(* handed over in order and without a gap, and completed is kept.          *)
THEOREM QueryImplementsResult == Spec => QueryKeepsPromise
<1>1. QueryInv /\ QueryInv' /\ StartInv /\ [Next]_vars => [Result!Next]_Result!resultVars
  BY QueryStepKeepsPromise
<1> QED
  BY <1>1, QueryInitKeepsPromise, QueryInvariant, QueryStartInv, PTL
     DEF Spec, QueryKeepsPromise, Result!Spec
-----------------------------------------------------------------------------
(* A dataspec, one of its attempts, a stage of it, a row: what a step uses *)
(* up, the most lasting first.                                             *)
Stage(p) == IF p = "asking" THEN 1 ELSE IF p = "header" THEN 2 ELSE 3
Later ==
  /\ pc # "done"
  /\ \/ pc' = "done"
     \/ spec < spec'
     \/ /\ spec' = spec
        /\ \/ attempt < attempt'
           \/ /\ attempt' = attempt
              /\ \/ Stage(pc) < Stage(pc')
                 \/ /\ Stage(pc') = Stage(pc)
                    /\ \/ at < at'
                       \/ at' = at /\ pc = "idle" /\ pc' = "pulling"

(* However often the server is busy and however the consumer pulls, a step *)
(* of the generators is one nearer to the end; what the finalizer closes   *)
(* stays closed.  With the bounds in TypeOK no query goes on for ever.     *)
THEOREM QueryAlwaysMovesOn == Spec => [][Finalize \/ Later]_vars
<1>1. ASSUME QueryInv, Next PROVE Finalize \/ Later
  <2>0. spec \in Nat /\ attempt \in Nat /\ at \in Nat /\ effective_specs \subseteq Nat
    <3>1. TypeOK /\ spec \in Nat /\ at \in Nat /\ effective_specs \subseteq Nat
      BY <1>1, QueryBasics
    <3>2. attempt \in Nat
      BY <3>1, QueryAssumption DEF TypeOK
    <3> QED
      BY <3>1, <3>2
  <2>1. CASE Refused \/ HeaderFails \/ HeaderCancelled \/ RowFails
    BY <2>1 DEF Refused, HeaderFails, HeaderCancelled, RowFails, Raise, Later
  <2>2. CASE Enter \/ Busy \/ Header
    BY <2>0, <2>2 DEF Enter, Busy, Header, Later, Stage, position
  <2>3. CASE Pull \/ Close
    BY <2>0, <2>3 DEF Pull, Close, Later, Stage, position
  <2>4. CASE Row
    BY <2>0, <2>4 DEF Row, Later, Stage
  <2>5. CASE RowsEnd
    BY <2>0, <2>5 DEF RowsEnd, Drained, NextPlace, FirstOf, Later
  <2> QED
    BY <1>1, <2>1, <2>2, <2>3, <2>4, <2>5 DEF Next, Answer, Line
<1> QED
  BY <1>1, QueryInvariant, PTL DEF Spec
=============================================================================
