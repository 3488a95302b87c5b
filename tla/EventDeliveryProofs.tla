------------------------ MODULE EventDeliveryProofs ------------------------
(***************************************************************************)
(* Proofs about EventDelivery for any number of clients, any limit of the  *)
(* queue and any number of events: its types, that a client gets events in *)
(* the order in which they were raised and no event goes to two clients,   *)
(* and that no event vanishes.                                             *)
(***************************************************************************)
EXTENDS EventDelivery, SequenceTheorems, TLAPS

(* Who is between drain and the end of a write has event_queue_mutex_, and *)
(* an event in its hands only while it writes it (or when that failed).    *)
MutexInv ==
  \A c \in Clients :
    /\ owner = c <=> pc[c] \in {"drain", "send", "ping"}
    /\ pc[c] = "send" => event[c] # 0
    /\ event[c] # 0 => pc[c] \in {"send", "ended"}

(* The newest event that was ever queued.                                  *)
Newest == IF com = 0 THEN raised ELSE raised - 1

(* The queue is in order, and who is n places before its end is at least n *)
(* events behind the newest one.                                           *)
QueueInv ==
  /\ \A i, j \in 1..Len(queue) : i < j => queue[i] < queue[j]
  /\ \A i \in 1..Len(queue) : queue[i] + Len(queue) - i <= Newest

(* What was taken is older than what is queued, what was received is older *)
(* than what is being written.                                             *)
TakenInv ==
  /\ \A c \in Clients :
       pc[c] = "send" =>
         /\ event[c] <= Newest
         /\ \A j \in 1..Len(queue) : event[c] < queue[j]
         /\ \A d \in Clients : \A i \in 1..Len(received[d]) : received[d][i] < event[c]
  /\ \A c \in Clients : \A i \in 1..Len(received[c]) :
       /\ received[c][i] <= Newest
       /\ \A j \in 1..Len(queue) : received[c][i] < queue[j]

(* The two parts of DeliveredOnceInOrder, place by place.                  *)
ReceivedInv ==
  \A c, d \in Clients : \A i \in 1..Len(received[c]), j \in 1..Len(received[d]) :
    /\ c = d /\ i < j => received[c][i] < received[d][j]
    /\ c # d => received[c][i] # received[d][j]

(* An event that is nowhere was pushed out.                                *)
Queued(e) == \E i \in 1..Len(queue) : e = queue[i]
AtClient(e) == \E c \in Clients : e = event[c] \/ \E i \in 1..Len(received[c]) : e = received[c][i]
KeptInv == \A e \in 1..raised : e = com \/ Queued(e) \/ AtClient(e) \/ e + QueueLimit <= raised

DeliveryInv == TypeOK /\ MutexInv /\ QueueInv /\ TakenInv /\ ReceivedInv /\ KeptInv

LEMMA InitDeliveryInv == Init => DeliveryInv
<1> SUFFICES ASSUME Init PROVE DeliveryInv
  OBVIOUS
<1> USE EventAssumption DEF Init
<1>1. TypeOK
  BY DEF TypeOK, LoopStates
<1>2. MutexInv /\ QueueInv /\ TakenInv /\ ReceivedInv /\ KeptInv
  BY DEF MutexInv, QueueInv, TakenInv, ReceivedInv, KeptInv
<1> QED
  BY <1>1, <1>2 DEF DeliveryInv

-----------------------------------------------------------------------------
(* The COM thread.                                                         *)
LEMMA RaiseStep ==
  ASSUME DeliveryInv, RaiseEvent
  PROVE  DeliveryInv'
<1> USE EventAssumption DEF DeliveryInv, RaiseEvent, loops
<1>1. raised \in Nat /\ raised' = raised + 1 /\ com' = raised' /\ Newest' = Newest
  BY DEF TypeOK, Newest
<1>2. TypeOK'
  <2>1. queue \in Seq(1..raised') /\ \A c \in Clients : received[c] \in Seq(1..raised')
    BY <1>1, SeqMonotonic DEF TypeOK
  <2> QED
    BY <1>1, <2>1 DEF TypeOK
<1>3. UNCHANGED <<queue, owner, pc, event, received>>
  OBVIOUS
<1>4. KeptInv'
  BY <1>1, <1>3 DEF KeptInv, Queued, AtClient, TypeOK
<1>5. MutexInv'
  BY <1>3 DEF MutexInv
<1>6. QueueInv'
  BY <1>1, <1>3 DEF QueueInv
<1>7. TakenInv'
  BY <1>1, <1>3 DEF TakenInv
<1>8. ReceivedInv'
  BY <1>3 DEF ReceivedInv
<1> QED
  BY <1>2, <1>4, <1>5, <1>6, <1>7, <1>8

(* What a push leaves in the queue: the old entries, perhaps without the   *)
(* first, and the new event.                                               *)
LEMMA PushEffect ==
  ASSUME DeliveryInv, PushEvent
  PROVE  \E drop \in {0, 1} :
           /\ queue' \in Seq(1..raised) /\ Len(queue') <= QueueLimit
           /\ Len(queue') = Len(queue) + 1 - drop
           /\ \A i \in 1..Len(queue') :
                queue'[i] = IF i + drop <= Len(queue) THEN queue[i + drop] ELSE com
           /\ drop = 1 => Len(queue) = QueueLimit
<1> USE EventAssumption
<1> DEFINE q == Append(queue, com)
<1>1. queue \in Seq(1..raised) /\ com \in 1..raised /\ Len(queue) \in Nat /\ Len(queue) <= QueueLimit
  BY DEF DeliveryInv, TypeOK, PushEvent
<1>2. /\ q \in Seq(1..raised) /\ q # <<>> /\ Len(q) = Len(queue) + 1
      /\ \A i \in 1..Len(queue) : q[i] = queue[i]
      /\ q[Len(queue) + 1] = com
  BY <1>1, AppendProperties
<1>3. /\ Tail(q) \in Seq(1..raised) /\ Len(Tail(q)) = Len(q) - 1
      /\ \A i \in 1..Len(Tail(q)) : Tail(q)[i] = q[i + 1]
  BY <1>2, HeadTailProperties
<1>4. queue' = IF Len(q) > QueueLimit THEN Tail(q) ELSE q
  BY DEF PushEvent, Trim
<1> HIDE DEF q
<1>5. CASE Len(q) > QueueLimit
  <2> WITNESS 1 \in {0, 1}
  <2>1. queue' = Tail(q) /\ Len(queue') = Len(queue)
    BY <1>1, <1>2, <1>3, <1>4, <1>5
  <2>2. ASSUME NEW i \in 1..Len(queue')
        PROVE  queue'[i] = IF i + 1 <= Len(queue) THEN queue[i + 1] ELSE com
    BY <1>1, <1>2, <1>3, <2>1
  <2> QED
    BY <1>1, <1>2, <1>3, <1>5, <2>1, <2>2
<1>6. CASE ~(Len(q) > QueueLimit)
  <2> WITNESS 0 \in {0, 1}
  <2>1. queue' = q
    BY <1>4, <1>6
  <2>2. ASSUME NEW i \in 1..Len(queue')
        PROVE  queue'[i] = IF i + 0 <= Len(queue) THEN queue[i + 0] ELSE com
    BY <1>1, <1>2, <2>1
  <2> QED
    BY <1>1, <1>2, <1>6, <2>1, <2>2
<1> QED
  BY <1>5, <1>6

LEMMA PushStep ==
  ASSUME DeliveryInv, PushEvent
  PROVE  DeliveryInv'
<1>1. PICK drop \in {0, 1} :
        /\ queue' \in Seq(1..raised) /\ Len(queue') <= QueueLimit
        /\ Len(queue') = Len(queue) + 1 - drop
        /\ \A i \in 1..Len(queue') :
             queue'[i] = IF i + drop <= Len(queue) THEN queue[i + drop] ELSE com
        /\ drop = 1 => Len(queue) = QueueLimit
  BY PushEffect
<1>2. /\ com = raised /\ com' = 0 /\ owner = "none" /\ raised \in Nat
      /\ UNCHANGED <<raised, owner, pc, event, received, peer, running, call>>
      /\ Newest = raised - 1 /\ Newest' = raised
  BY DEF DeliveryInv, TypeOK, PushEvent, loops, Newest
<1>3. /\ queue \in Seq(1..raised) /\ Len(queue) \in Nat
      /\ \A i \in 1..Len(queue) : queue[i] \in 1..raised
  BY ElementOfSeq DEF DeliveryInv, TypeOK
<1>4. \A c \in Clients : /\ event[c] \in 0..raised /\ received[c] \in Seq(1..raised)
                         /\ \A i \in 1..Len(received[c]) : received[c][i] \in 1..raised
  BY ElementOfSeq DEF DeliveryInv, TypeOK
<1>5. \A i \in 1..Len(queue) : queue[i] + Len(queue) - i <= raised - 1
  BY <1>2 DEF DeliveryInv, QueueInv
<1>11. drop \in Int /\ Len(queue') \in Nat /\ QueueLimit \in Nat \ {0}
  BY <1>1, EventAssumption
<1>6. TypeOK'
  BY <1>1, <1>2 DEF DeliveryInv, TypeOK
<1>7. MutexInv' /\ ReceivedInv'
  BY <1>2 DEF DeliveryInv, MutexInv, ReceivedInv
<1>8. QueueInv'
  <2>1. ASSUME NEW i \in 1..Len(queue'), NEW j \in 1..Len(queue'), i < j
        PROVE  queue'[i] < queue'[j]
    <3>1. i + drop \in 1..Len(queue) /\ queue'[i] = queue[i + drop]
      BY <1>1, <1>3, <2>1
    <3>2. CASE j + drop <= Len(queue)
      <4>1. j + drop \in 1..Len(queue) /\ queue'[j] = queue[j + drop] /\ i + drop < j + drop
        BY <1>1, <1>3, <2>1, <3>2
      <4> QED
        BY <3>1, <4>1 DEF DeliveryInv, QueueInv
    <3>3. CASE ~(j + drop <= Len(queue))
      <4>1. queue'[j] = raised
        BY <1>1, <1>2, <1>3, <3>3
      <4>2. queue[i + drop] + Len(queue) - (i + drop) <= raised - 1
        BY <1>5, <3>1
      <4> QED
        BY <1>2, <1>3, <3>1, <4>1, <4>2
    <3> QED
      BY <3>2, <3>3
  <2>2. ASSUME NEW i \in 1..Len(queue')
        PROVE  queue'[i] + Len(queue') - i <= Newest'
    <3>1. CASE i + drop <= Len(queue)
      <4>1. i + drop \in 1..Len(queue) /\ queue'[i] = queue[i + drop]
        BY <1>1, <1>3, <3>1
      <4>2. queue[i + drop] \in Int /\ queue[i + drop] + Len(queue) - (i + drop) <= raised - 1
        BY <1>3, <1>5, <4>1
      <4>3. Len(queue') = Len(queue) + 1 - drop
        BY <1>1
      <4> QED
        BY <1>2, <1>3, <1>11, <4>1, <4>2, <4>3
    <3>2. CASE ~(i + drop <= Len(queue))
      BY <1>1, <1>2, <1>3, <3>2
    <3> QED
      BY <3>1, <3>2
  <2> QED
    BY <2>1, <2>2 DEF QueueInv
<1>9. TakenInv'
  <2>1. ASSUME NEW n \in Nat, n <= raised - 1, \A j \in 1..Len(queue) : n < queue[j]
        PROVE  n <= raised /\ \A j \in 1..Len(queue') : n < queue'[j]
    <3>1. ASSUME NEW j \in 1..Len(queue') PROVE n < queue'[j]
      <4>1. CASE j + drop <= Len(queue)
        <5>1. j + drop \in 1..Len(queue) /\ queue'[j] = queue[j + drop]
          BY <1>1, <1>3, <1>11, <4>1
        <5> QED
          BY <2>1, <5>1
      <4>2. CASE ~(j + drop <= Len(queue))
        BY <1>1, <1>2, <2>1, <4>2
      <4> QED
        BY <4>1, <4>2
    <3> QED
      BY <1>2, <2>1, <3>1
  <2>2. ASSUME NEW c \in Clients, NEW i \in 1..Len(received[c])
        PROVE  received[c][i] <= raised /\ \A j \in 1..Len(queue') : received[c][i] < queue'[j]
    <3>1. received[c][i] \in Nat
      BY <1>4
    <3>2. received[c][i] <= raised - 1 /\ \A j \in 1..Len(queue) : received[c][i] < queue[j]
      BY <1>2 DEF DeliveryInv, TakenInv
    <3> QED
      BY <2>1, <3>1, <3>2
  <2>3. ASSUME NEW c \in Clients, pc[c] = "send" PROVE FALSE
    BY <1>2, <2>3, EventAssumption DEF DeliveryInv, MutexInv
  <2> QED
    BY <1>2, <2>2, <2>3 DEF TakenInv
<1>10. KeptInv'
  <2> SUFFICES ASSUME NEW e \in 1..raised
               PROVE  e = com' \/ Queued(e)' \/ AtClient(e)' \/ e + QueueLimit <= raised
    BY <1>2 DEF KeptInv
  <2>1. CASE AtClient(e) \/ e + QueueLimit <= raised
    BY <1>2, <2>1 DEF AtClient
  <2>2. CASE e = com
    <3>1. Len(queue') \in 1..Len(queue') /\ queue'[Len(queue')] = com
      BY <1>1, <1>3, EventAssumption
    <3> QED
      BY <2>2, <3>1 DEF Queued
  <2>3. CASE Queued(e)
    <3>1. PICK i \in 1..Len(queue) : e = queue[i]
      BY <2>3 DEF Queued
    <3>2. CASE i - drop >= 1
      <4>1. i - drop \in 1..Len(queue') /\ queue'[i - drop] = e
        BY <1>1, <1>3, <3>1, <3>2
      <4> QED
        BY <4>1 DEF Queued
    <3>3. CASE ~(i - drop >= 1)
      <4>1. i = 1 /\ Len(queue) = QueueLimit
        BY <1>1, <1>3, <3>3
      <4>2. queue[1] \in Int /\ queue[1] + Len(queue) - 1 <= raised - 1
        BY <1>3, <1>5, <4>1
      <4> QED
        BY <1>2, <1>11, <3>1, <4>1, <4>2
    <3> QED
      BY <3>2, <3>3
  <2> QED
    BY <2>1, <2>2, <2>3 DEF DeliveryInv, KeptInv
<1> QED
  BY <1>6, <1>7, <1>8, <1>9, <1>10 DEF DeliveryInv

(* A control call and a stop touch nothing of the delivery.                *)
LEMMA BystanderStep ==
  ASSUME DeliveryInv,
         \/ CallControl \/ CallReturns \/ CallTimesOut \/ Stop
         \/ \E c \in Clients : PeerChanges(c)
         \/ UNCHANGED vars
  PROVE  DeliveryInv'
<1>1. UNCHANGED <<raised, com, queue, owner, pc, event, received>>
  BY DEF CallControl, CallReturns, CallTimesOut, Stop, PeerChanges, vars, loops
<1>2. /\ peer' \in [Clients -> {"reads", "stalled", "left"}] /\ running' \in BOOLEAN
      /\ call' \in {"none", "queued", "answered", "timedout"}
  BY DEF DeliveryInv, TypeOK, CallControl, CallReturns, CallTimesOut, Stop, PeerChanges, vars
<1>3. TypeOK'
  BY <1>1, <1>2 DEF DeliveryInv, TypeOK
<1>4. MutexInv' /\ QueueInv' /\ TakenInv' /\ ReceivedInv' /\ KeptInv'
  <2>1. MutexInv' /\ ReceivedInv'
    BY <1>1 DEF DeliveryInv, MutexInv, ReceivedInv
  <2>2. QueueInv' /\ Newest' = Newest
    BY <1>1 DEF DeliveryInv, QueueInv, Newest
  <2>3. TakenInv'
    BY <1>1, <2>2 DEF DeliveryInv, TakenInv
  <2>4. KeptInv'
    BY <1>1 DEF DeliveryInv, KeptInv, Queued, AtClient
  <2> QED
    BY <2>1, <2>2, <2>3, <2>4
<1> QED
  BY <1>3, <1>4 DEF DeliveryInv

-----------------------------------------------------------------------------
(* The loop of a client.  These steps move it and its mutex only.          *)
LEMMA MoveStep ==
  ASSUME DeliveryInv, NEW c \in Clients,
         \/ Connect(c) \/ Greet(c) \/ Enter(c) \/ Wake(c)
         \/ NextRound(c) \/ WritePing(c) \/ WriteFails(c)
  PROVE  DeliveryInv'
<1>1. /\ UNCHANGED <<raised, com, queue, event, received, peer, running, call>>
      /\ \E to \in LoopStates \ {"off", "send"} : pc' = [pc EXCEPT ![c] = to]
      /\ owner' \in {owner, c, "none"}
  BY DEF Connect, Greet, Enter, Wake, NextRound, WritePing, WriteFails, Goto, Release, LoopStates
<1>2. pc \in [Clients -> LoopStates] /\ MutexInv
  BY DEF DeliveryInv, TypeOK
<1>3. pc' \in [Clients -> LoopStates] /\ \A d \in Clients : pc'[d] = "send" => pc[d] = "send"
  BY <1>1, <1>2
<1>4. TypeOK'
  BY <1>1, <1>3 DEF DeliveryInv, TypeOK
<1>5. MutexInv'
  <2> USE EventAssumption DEF Goto, Release
  <2>1. CASE Connect(c)
    BY <1>2, <2>1 DEF Connect, MutexInv
  <2>2. CASE Greet(c)
    BY <1>2, <2>2 DEF Greet, MutexInv
  <2>3. CASE Enter(c)
    BY <1>2, <2>3 DEF Enter, MutexInv
  <2>4. CASE Wake(c)
    BY <1>2, <2>4 DEF Wake, MutexInv
  <2>5. CASE NextRound(c)
    BY <1>2, <2>5 DEF NextRound, MutexInv
  <2>6. CASE WritePing(c)
    BY <1>2, <2>6 DEF WritePing, MutexInv
  <2>7. CASE WriteFails(c)
    BY <1>2, <2>7 DEF WriteFails, MutexInv
  <2> QED
    BY <2>1, <2>2, <2>3, <2>4, <2>5, <2>6, <2>7
<1>6. QueueInv' /\ ReceivedInv' /\ Newest' = Newest
  BY <1>1 DEF DeliveryInv, QueueInv, ReceivedInv, Newest
<1>7. TakenInv'
  BY <1>1, <1>3, <1>6 DEF DeliveryInv, TakenInv
<1>8. KeptInv'
  BY <1>1 DEF DeliveryInv, KeptInv, Queued, AtClient
<1> QED
  BY <1>4, <1>5, <1>6, <1>7, <1>8 DEF DeliveryInv

LEMMA TakeStep ==
  ASSUME DeliveryInv, NEW c \in Clients, TakeEvent(c)
  PROVE  DeliveryInv'
<1>1. /\ queue \in Seq(1..raised) /\ Len(queue) \in Nat /\ Len(queue) <= QueueLimit
      /\ queue # <<>> /\ queue' = Tail(queue)
      /\ \A i \in 1..Len(queue) : queue[i] \in 1..raised
      /\ raised \in Nat /\ Newest' = Newest
  BY ElementOfSeq DEF DeliveryInv, TypeOK, TakeEvent, Newest
<1>2. /\ queue' \in Seq(1..raised) /\ Len(queue') = Len(queue) - 1
      /\ \A i \in 1..Len(queue') : queue'[i] = queue[i + 1]
      /\ Len(queue) >= 1 /\ Head(queue) = queue[1] /\ queue[1] \in 1..raised
  BY <1>1, HeadTailProperties, EmptySeq
<1>3. /\ UNCHANGED <<raised, com, owner, received, peer, running, call>>
      /\ pc[c] = "drain" /\ pc' = [pc EXCEPT ![c] = "send"]
      /\ event' = [event EXCEPT ![c] = queue[1]]
  BY <1>2 DEF TakeEvent, Goto
<1>4. pc \in [Clients -> LoopStates] /\ event \in [Clients -> 0..raised] /\ event[c] = 0
  BY <1>3 DEF DeliveryInv, TypeOK, MutexInv
<1>5. TypeOK'
  <2>1. pc' \in [Clients -> LoopStates] /\ event' \in [Clients -> 0..raised']
    BY <1>2, <1>3, <1>4 DEF LoopStates
  <2>2. QueueLimit \in Nat /\ queue' \in Seq(1..raised') /\ Len(queue') <= QueueLimit
    BY <1>1, <1>2, <1>3, EventAssumption
  <2> QED
    BY <1>3, <2>1, <2>2 DEF DeliveryInv, TypeOK
<1>6. MutexInv'
  BY <1>2, <1>3, <1>4 DEF DeliveryInv, MutexInv
<1>7. \A j \in 1..Len(queue') : j + 1 \in 1..Len(queue) /\ queue'[j] = queue[j + 1]
  BY <1>1, <1>2
<1>8. QueueInv'
  <2>1. \A i, j \in 1..Len(queue') : i < j => queue'[i] < queue'[j]
    BY <1>7 DEF DeliveryInv, QueueInv
  <2>2. ASSUME NEW i \in 1..Len(queue')
        PROVE  queue'[i] + Len(queue') - i <= Newest'
    <3>1. queue[i + 1] + Len(queue) - (i + 1) <= Newest
      BY <1>7 DEF DeliveryInv, QueueInv
    <3>2. queue[i + 1] \in Int /\ queue'[i] = queue[i + 1]
      BY <1>1, <1>7
    <3> QED
      BY <1>1, <1>2, <3>1, <3>2
  <2> QED
    BY <2>1, <2>2 DEF QueueInv
<1>9. TakenInv'
  <2>1. ASSUME NEW d \in Clients, pc'[d] = "send"
        PROVE  d = c
    BY <1>3, <1>4, <2>1, EventAssumption DEF DeliveryInv, MutexInv
  <2>2. event'[c] = queue[1] /\ 1 \in 1..Len(queue)
    BY <1>1, <1>2, <1>3, <1>4
  <2>3. \A j \in 1..Len(queue') : queue[1] < queue'[j]
    BY <1>7, <2>2 DEF DeliveryInv, QueueInv
  <2>4. queue[1] <= Newest
    <3>1. queue[1] + Len(queue) - 1 <= Newest /\ Newest \in Int
      BY <1>1, <2>2 DEF DeliveryInv, QueueInv, Newest
    <3> QED
      BY <1>1, <1>2, <3>1
  <2>5. \A d \in Clients : \A i \in 1..Len(received'[d]) :
          /\ received'[d][i] < queue[1] /\ received'[d][i] <= Newest
          /\ \A j \in 1..Len(queue') : received'[d][i] < queue'[j]
    BY <1>3, <1>7, <2>2 DEF DeliveryInv, TakenInv
  <2> QED
    BY <1>1, <1>3, <2>1, <2>2, <2>3, <2>4, <2>5 DEF TakenInv
<1>10. ReceivedInv'
  BY <1>3 DEF DeliveryInv, ReceivedInv
<1>11. KeptInv'
  <2> SUFFICES ASSUME NEW e \in 1..raised
               PROVE  e = com \/ Queued(e)' \/ AtClient(e)' \/ e + QueueLimit <= raised
    BY <1>3 DEF KeptInv
  <2>1. CASE AtClient(e)
    <3>1. ASSUME NEW d \in Clients, e = event[d] PROVE e = event'[d]
      BY <1>3, <1>4, <3>1
    <3> QED
      BY <1>3, <2>1, <3>1 DEF AtClient
  <2>2. CASE Queued(e)
    <3>1. PICK i \in 1..Len(queue) : e = queue[i]
      BY <2>2 DEF Queued
    <3>2. CASE i = 1
      BY <1>3, <1>4, <3>1, <3>2 DEF AtClient
    <3>3. CASE i # 1
      <4>1. i - 1 \in 1..Len(queue') /\ queue'[i - 1] = e
        BY <1>1, <1>2, <1>7, <3>1, <3>3
      <4> QED
        BY <4>1 DEF Queued
    <3> QED
      BY <3>2, <3>3
  <2> QED
    BY <2>1, <2>2 DEF DeliveryInv, KeptInv
<1> QED
  BY <1>5, <1>6, <1>8, <1>9, <1>10, <1>11 DEF DeliveryInv

LEMMA WriteStep ==
  ASSUME DeliveryInv, NEW c \in Clients, WriteEvent(c)
  PROVE  DeliveryInv'
<1>1. /\ UNCHANGED <<raised, com, queue, owner, peer, running, call>>
      /\ pc[c] = "send" /\ pc' = [pc EXCEPT ![c] = "drain"]
      /\ received' = [received EXCEPT ![c] = Append(received[c], event[c])]
      /\ event' = [event EXCEPT ![c] = 0]
      /\ Newest' = Newest
  BY DEF WriteEvent, Goto, Newest
<1>2. /\ pc \in [Clients -> LoopStates] /\ event \in [Clients -> 0..raised]
      /\ received \in [Clients -> Seq(1..raised)] /\ raised \in Nat
      /\ event[c] \in 1..raised
  BY <1>1 DEF DeliveryInv, TypeOK, MutexInv
<1>3. /\ received'[c] = Append(received[c], event[c]) /\ received'[c] \in Seq(1..raised)
      /\ Len(received'[c]) = Len(received[c]) + 1 /\ Len(received[c]) \in Nat
      /\ \A i \in 1..Len(received[c]) : received'[c][i] = received[c][i]
      /\ received'[c][Len(received[c]) + 1] = event[c]
  BY <1>1, <1>2, AppendProperties
<1>4. \A d \in Clients : d # c => received'[d] = received[d]
  BY <1>1, <1>2
<1>5. \A d \in Clients : \A i \in 1..Len(received'[d]) :
        \/ i \in 1..Len(received[d]) /\ received'[d][i] = received[d][i]
        \/ d = c /\ i = Len(received[c]) + 1 /\ received'[d][i] = event[c]
  BY <1>3, <1>4
<1>6. /\ event[c] <= Newest
      /\ \A j \in 1..Len(queue) : event[c] < queue[j]
      /\ \A d \in Clients : \A i \in 1..Len(received[d]) : received[d][i] < event[c]
  BY <1>1 DEF DeliveryInv, TakenInv
<1>7. \A d \in Clients : pc'[d] # "send"
  BY <1>1, <1>2, EventAssumption DEF DeliveryInv, MutexInv
<1>8. TypeOK'
  <2>1. pc' \in [Clients -> LoopStates] /\ event' \in [Clients -> 0..raised]
    BY <1>1, <1>2 DEF LoopStates
  <2>2. received' \in [Clients -> Seq(1..raised)]
    BY <1>1, <1>2, <1>3
  <2> QED
    BY <1>1, <2>1, <2>2 DEF DeliveryInv, TypeOK
<1>9. MutexInv'
  BY <1>1, <1>2 DEF DeliveryInv, MutexInv
<1>10. QueueInv'
  BY <1>1 DEF DeliveryInv, QueueInv
<1>11. TakenInv'
  <2>1. ASSUME NEW d \in Clients, NEW i \in 1..Len(received'[d])
        PROVE  received'[d][i] <= Newest /\ \A j \in 1..Len(queue) : received'[d][i] < queue[j]
    BY <1>5, <1>6 DEF DeliveryInv, TakenInv
  <2> QED
    BY <1>1, <1>7, <2>1 DEF TakenInv
<1>12. ReceivedInv'
  <2> SUFFICES ASSUME NEW d \in Clients, NEW k \in Clients,
                      NEW i \in 1..Len(received'[d]), NEW j \in 1..Len(received'[k])
               PROVE  /\ d = k /\ i < j => received'[d][i] < received'[k][j]
                      /\ d # k => received'[d][i] # received'[k][j]
    BY DEF ReceivedInv
  <2>1. CASE i \in 1..Len(received[d]) /\ received'[d][i] = received[d][i]
    <3>1. CASE j \in 1..Len(received[k]) /\ received'[k][j] = received[k][j]
      BY <2>1, <3>1 DEF DeliveryInv, ReceivedInv
    <3>2. CASE k = c /\ j = Len(received[c]) + 1 /\ received'[k][j] = event[c]
      <4>1. received[d][i] < event[c] /\ received[d][i] \in Int /\ event[c] \in Int
        BY <1>2, <1>6, <2>1, ElementOfSeq
      <4> QED
        BY <2>1, <3>2, <4>1
    <3> QED
      BY <1>5, <3>1, <3>2
  <2>2. CASE d = c /\ i = Len(received[c]) + 1 /\ received'[d][i] = event[c]
    <3>1. CASE j \in 1..Len(received[k]) /\ received'[k][j] = received[k][j]
      <4>1. received[k][j] < event[c] /\ received[k][j] \in Int /\ event[c] \in Int
        BY <1>2, <1>6, <3>1, ElementOfSeq
      <4>2. d = k => ~(i < j)
        BY <1>3, <2>2, <3>1
      <4> QED
        BY <2>2, <3>1, <4>1, <4>2
    <3>2. CASE k = c /\ j = Len(received[c]) + 1
      BY <1>3, <2>2, <3>2
    <3> QED
      BY <1>5, <3>1, <3>2
  <2> QED
    BY <1>5, <2>1, <2>2
<1>13. KeptInv'
  <2> SUFFICES ASSUME NEW e \in 1..raised
               PROVE  e = com \/ Queued(e) \/ AtClient(e)' \/ e + QueueLimit <= raised
    BY <1>1 DEF KeptInv, Queued
  <2>1. CASE AtClient(e)
    <3>1. PICK d \in Clients : e = event[d] \/ \E i \in 1..Len(received[d]) : e = received[d][i]
      BY <2>1 DEF AtClient
    <3>2. CASE \E i \in 1..Len(received[d]) : e = received[d][i]
      <4>1. PICK i \in 1..Len(received[d]) : e = received[d][i]
        BY <3>2
      <4>2. i \in 1..Len(received'[d]) /\ e = received'[d][i]
        BY <1>3, <1>4, <4>1
      <4> QED
        BY <4>2 DEF AtClient
    <3>3. CASE e = event[d] /\ d # c
      BY <1>1, <1>2, <3>3 DEF AtClient
    <3>4. CASE e = event[d] /\ d = c
      <4>1. Len(received[c]) + 1 \in 1..Len(received'[c]) /\ e = received'[c][Len(received[c]) + 1]
        BY <1>3, <3>4
      <4> QED
        BY <4>1 DEF AtClient
    <3> QED
      BY <3>1, <3>2, <3>3, <3>4
  <2> QED
    BY <2>1 DEF DeliveryInv, KeptInv
<1> QED
  BY <1>8, <1>9, <1>10, <1>11, <1>12, <1>13 DEF DeliveryInv

LEMMA DeliveryStep == DeliveryInv /\ [Next]_vars => DeliveryInv'
<1> SUFFICES ASSUME DeliveryInv, [Next]_vars PROVE DeliveryInv'
  OBVIOUS
<1>1. CASE RaiseEvent
  BY <1>1, RaiseStep
<1>2. CASE PushEvent
  BY <1>2, PushStep
<1>3. CASE \/ CallControl \/ CallReturns \/ CallTimesOut \/ Stop
           \/ \E c \in Clients : PeerChanges(c)
           \/ UNCHANGED vars
  BY <1>3, BystanderStep
<1>4. ASSUME NEW c \in Clients, Loop(c) PROVE DeliveryInv'
  BY <1>4, MoveStep, TakeStep, WriteStep DEF Loop, Write
<1> QED
  BY <1>1, <1>2, <1>3, <1>4 DEF Next

-----------------------------------------------------------------------------
(* The inductive invariant of EventDelivery (handleJvLinkEvent and the     *)
(* loops of handleEventStream).                                            *)
THEOREM DeliveryInvariant == Spec => []DeliveryInv
BY InitDeliveryInv, DeliveryStep, PTL DEF Spec

(* The variables of EventDelivery keep their types, and the queue of       *)
(* handleJvLinkEvent its limit.                                            *)
THEOREM DeliveryTypes == Spec => []TypeOK
<1>1. DeliveryInv => TypeOK
  BY DEF DeliveryInv
<1> QED
  BY <1>1, DeliveryInvariant, PTL

(* A client of handleEventStream gets events in the order JV-Link raised   *)
(* them, and no event reaches two clients.                                 *)
THEOREM EventsDeliveredOnceInOrder == Spec => []DeliveredOnceInOrder
<1>1. DeliveryInv => DeliveredOnceInOrder
  <2> SUFFICES ASSUME DeliveryInv PROVE DeliveredOnceInOrder
    OBVIOUS
  <2>1. \A c \in Clients : DOMAIN received[c] = 1..Len(received[c])
    BY LenProperties DEF DeliveryInv, TypeOK
  <2>2. ASSUME NEW c \in Clients PROVE Increasing(received[c])
    BY <2>1 DEF DeliveryInv, ReceivedInv, Increasing
  <2>3. ASSUME NEW c \in Clients, NEW d \in Clients, c # d
        PROVE  ToSet(received[c]) \intersect ToSet(received[d]) = {}
    BY <2>1, <2>3 DEF DeliveryInv, ReceivedInv, ToSet
  <2> QED
    BY <2>2, <2>3 DEF DeliveredOnceInOrder
<1> QED
  BY <1>1, DeliveryInvariant, PTL

(* An event that handleJvLinkEvent got is queued, at a client, in the      *)
(* hands of a loop, or QueueLimit newer ones have pushed it out.           *)
THEOREM EventsDoNotVanish == Spec => []NoEventVanishes
<1>1. DeliveryInv => NoEventVanishes
  <2> SUFFICES ASSUME DeliveryInv PROVE NoEventVanishes
    OBVIOUS
  <2>1. DOMAIN queue = 1..Len(queue) /\ \A c \in Clients : DOMAIN received[c] = 1..Len(received[c])
    BY LenProperties DEF DeliveryInv, TypeOK
  <2> QED
    BY <2>1 DEF DeliveryInv, KeptInv, Queued, AtClient, NoEventVanishes, ToSet
<1> QED
  BY <1>1, DeliveryInvariant, PTL
=============================================================================
