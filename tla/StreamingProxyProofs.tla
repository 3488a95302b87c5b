------------------------ MODULE StreamingProxyProofs ------------------------
(***************************************************************************)
(* Proofs about the streaming proxy and the server's threads.              *)
(*                                                                         *)
(* StreamingProxy: the two threads of the proxy lose nothing between them, *)
(* and the worker is restarted for cause, for a response of any length.    *)
(*                                                                         *)
(* RequestPool: every accepted connection has been through when listen()   *)
(* returns, for any number of connections and threads.                     *)
(***************************************************************************)
EXTENDS StreamingProxy, RequestPool, FiniteSetTheorems, SequenceTheorems, TLAPS

Ending == {"release", "join", "decide", "done"}

(* The queue's chunks go through the provider's hands, one at a time; what *)
(* a failed write leaves in its hand stays there.                          *)
HandInv ==
  /\ handler = "write" => chunk # 0
  /\ chunk # 0 => handler = "write" \/ body = "aborted"

(* finished is how the thread ends, and its failure how it may have ended. *)
ThreadInv ==
  /\ finished <=> thread = "ended"
  /\ thread # "ended" => ~transport_failed
  /\ thread = "connecting" => status = "none"
  /\ finished => arrived = Chunks \/ transport_failed \/ downstream_canceled

(* The body gets its end before the release callback runs; only then, or   *)
(* after a failed write, does the receiver hear of a cancellation.         *)
BodyInv ==
  /\ handler \in {"await", "provide", "write"} => body = "none" /\ ~downstream_canceled
  /\ body = "terminated" =>
       /\ chunks = <<>> /\ chunk = 0 /\ finished
       /\ transport_failed \/ arrived = Chunks

CauseInv == should_restart => status = "unavailable" \/ transport_failed

PipeInv == (written \o InHand) \o chunks = UpTo(arrived)

ControlInv == TypeOK /\ HandInv /\ ThreadInv /\ BodyInv /\ CauseInv /\ RestartsForCause

ProxyInv == ControlInv /\ PipeInv

-----------------------------------------------------------------------------
(* The whole response, a chunk longer.                                     *)
LEMMA UpToGrows ==
  ASSUME NEW n \in Nat
  PROVE  /\ UpTo(n) \in Seq(1..n)
         /\ Append(UpTo(n), n + 1) = UpTo(n + 1)
<1>1. UpTo(n) \in Seq(1..n) BY DEF UpTo
<1>2. Append(UpTo(n), n + 1) = UpTo(n + 1) BY DEF UpTo
<1> QED BY <1>1, <1>2

(* Sequences of at most one element.                                       *)
LEMMA Singletons ==
  ASSUME NEW S, NEW e \in S
  PROVE  <<e>> \in Seq(S) /\ <<>> \in Seq(S)
<1>1. <<>> \in Seq(S) BY EmptySeq
<1>2. Append(<<>>, e) \in Seq(S) BY <1>1, AppendProperties
<1>3. Append(<<>>, e) = <<e>> OBVIOUS
<1> QED BY <1>1, <1>2, <1>3

(* Types and control of both threads, whatever is in the queue.            *)
LEMMA ControlIsKept ==
  ASSUME ControlInv, Next
  PROVE  ControlInv'
<1> USE ProxyAssumption DEF Goto, End, state, response, headers_ready
<1>0. TypeOK /\ HandInv /\ ThreadInv /\ BodyInv /\ CauseInv /\ RestartsForCause BY DEF ControlInv
<1>1. TypeOK'
  <2> USE <1>0 DEF TypeOK
  <2>1. CASE ReceiveHeaders BY <2>1 DEF ReceiveHeaders
  <2>2. CASE ReceiveChunk
    <3>1. arrived' \in 0..Chunks /\ arrived + 1 \in 1..Chunks BY <2>2 DEF ReceiveChunk
    <3>2. chunks' \in Seq(1..Chunks) BY <2>2, <3>1, AppendProperties DEF ReceiveChunk
    <3> QED BY <2>2, <3>1, <3>2 DEF ReceiveChunk
  <2>3. CASE UpstreamCompletes BY <2>3 DEF UpstreamCompletes
  <2>4. CASE ReceiverCancels BY <2>4 DEF ReceiverCancels
  <2>5. CASE UpstreamBreaks BY <2>5 DEF UpstreamBreaks
  <2>6. CASE AwaitHeaders BY <2>6 DEF AwaitHeaders
  <2>7. CASE TakeChunk
    <3>1. chunk' \in 1..Chunks /\ chunks' \in Seq(1..Chunks)
      BY <2>7, HeadTailProperties DEF TakeChunk
    <3> QED BY <2>7, <3>1 DEF TakeChunk
  <2>8. CASE Terminate BY <2>8 DEF Terminate
  <2>9. CASE WriteChunk
    <3>1. chunk \in 1..Chunks BY <2>9 DEF WriteChunk, HandInv
    <3>2. written' \in Seq(1..Chunks) BY <2>9, <3>1, AppendProperties DEF WriteChunk
    <3> QED BY <2>9, <3>2 DEF WriteChunk
  <2>10. CASE WriteFails BY <2>10 DEF WriteFails
  <2>11. CASE Release BY <2>11 DEF Release
  <2>12. CASE Join BY <2>12 DEF Join
  <2>13. CASE LookAfterWorker BY <2>13 DEF LookAfterWorker
  <2>14. CASE ClientLeaves BY <2>14 DEF ClientLeaves
  <2> QED BY <2>1, <2>2, <2>3, <2>4, <2>5, <2>6, <2>7, <2>8, <2>9, <2>10, <2>11, <2>12, <2>13,
             <2>14 DEF Next, Receive, Handle
<1>2. HandInv'
  <2>1. CASE TakeChunk
    <3>1. chunk' \in 1..Chunks BY <1>0, <2>1, HeadTailProperties DEF TakeChunk, TypeOK
    <3> QED BY <2>1, <3>1 DEF TakeChunk, HandInv
  <2>2. CASE Receive \/ ClientLeaves
    BY <1>0, <2>2 DEF HandInv, Receive, ReceiveHeaders, ReceiveChunk, UpstreamCompletes,
                      ReceiverCancels, UpstreamBreaks, ClientLeaves
  <2>3. CASE AwaitHeaders \/ Terminate \/ WriteChunk \/ WriteFails \/ Release \/ Join
             \/ LookAfterWorker
    BY <1>0, <2>3 DEF HandInv, BodyInv, AwaitHeaders, Terminate, WriteChunk, WriteFails, Release,
                      Join, LookAfterWorker
  <2> QED BY <2>1, <2>2, <2>3 DEF Next, Handle
<1>3. ThreadInv'
  <2> USE <1>0 DEF ThreadInv, TypeOK
  <2>1. CASE Receive
    BY <2>1 DEF Receive, ReceiveHeaders, ReceiveChunk, UpstreamCompletes, ReceiverCancels,
                UpstreamBreaks
  <2>2. CASE Handle \/ ClientLeaves
    BY <2>2 DEF Handle, AwaitHeaders, TakeChunk, Terminate, WriteChunk, WriteFails, Release, Join,
                LookAfterWorker, ClientLeaves
  <2> QED BY <2>1, <2>2 DEF Next
<1>4. BodyInv'
  <2> USE <1>0 DEF BodyInv, ThreadInv
  <2>1. CASE Receive
    BY <2>1 DEF Receive, ReceiveHeaders, ReceiveChunk, UpstreamCompletes, ReceiverCancels,
                UpstreamBreaks
  <2>2. CASE AwaitHeaders BY <2>2 DEF AwaitHeaders
  <2>3. CASE Terminate
    <3>1. chunk = 0 BY <2>3 DEF Terminate, HandInv
    <3> QED BY <2>3, <3>1 DEF Terminate
  <2>4. CASE TakeChunk \/ WriteChunk \/ WriteFails
    BY <2>4 DEF TakeChunk, WriteChunk, WriteFails
  <2>5. CASE Release \/ Join \/ LookAfterWorker \/ ClientLeaves
    BY <2>5 DEF Release, Join, LookAfterWorker, ClientLeaves
  <2> QED BY <2>1, <2>2, <2>3, <2>4, <2>5 DEF Next, Handle
<1>5. CauseInv' /\ RestartsForCause'
  <2> USE <1>0 DEF CauseInv, RestartsForCause, ThreadInv, TypeOK
  <2>1. CASE ReceiveHeaders
    <3>1. status = "none" /\ ~transport_failed /\ worker # "restarted"
      BY <2>1 DEF ReceiveHeaders
    <3> QED BY <2>1, <3>1 DEF ReceiveHeaders
  <2>2. CASE ReceiveChunk \/ UpstreamCompletes \/ ReceiverCancels \/ UpstreamBreaks
    BY <2>2 DEF ReceiveChunk, UpstreamCompletes, ReceiverCancels, UpstreamBreaks
  <2>3. CASE Handle \/ ClientLeaves
    BY <2>3 DEF Handle, AwaitHeaders, TakeChunk, Terminate, WriteChunk, WriteFails, Release, Join,
                LookAfterWorker, ClientLeaves
  <2> QED BY <2>1, <2>2, <2>3 DEF Next, Receive
<1> QED BY <1>1, <1>2, <1>3, <1>4, <1>5 DEF ControlInv

(* Each chunk goes from the queue to the hand to the client, in turn.      *)
LEMMA PipeIsKept ==
  ASSUME ProxyInv, Next
  PROVE  PipeInv'
<1> USE ProxyAssumption DEF Goto, End, state, response
<1> DEFINE Elem == 1..Chunks
<1>0. /\ written \in Seq(Elem) /\ chunks \in Seq(Elem) /\ chunk \in 0..Chunks /\ arrived \in 0..Chunks
      /\ HandInv /\ BodyInv /\ PipeInv
  BY DEF ProxyInv, ControlInv, TypeOK
<1>s. <<>> \in Seq(Elem) /\ \A e \in Elem : <<e>> \in Seq(Elem)
  BY EmptySeq, Singletons
<1>1. InHand \in Seq(Elem) /\ written \o InHand \in Seq(Elem)
  <2>1. CASE chunk = 0
    <3>1. InHand \in Seq(Elem) BY <1>s, <2>1 DEF InHand
    <3> QED BY <1>0, <3>1, ConcatProperties
  <2>2. CASE chunk \in Elem
    <3>1. InHand \in Seq(Elem) BY <1>s, <2>2 DEF InHand
    <3> QED BY <1>0, <3>1, ConcatProperties
  <2> QED BY <1>0, <2>1, <2>2
<1>2. CASE ReceiveChunk
  <2>1. arrived + 1 \in Elem /\ <<arrived + 1>> \in Seq(Elem)
    <3>1. arrived + 1 \in Elem BY <1>0, <1>2 DEF ReceiveChunk
    <3> QED BY <1>s, <3>1
  <2>2. chunks' = chunks \o <<arrived + 1>>
    BY <1>0, <1>2, <2>1, AppendIsConcat DEF ReceiveChunk
  <2>3. written' \o InHand' = written \o InHand BY <1>2 DEF ReceiveChunk, InHand
  <2>4. (written' \o InHand') \o chunks' = UpTo(arrived) \o <<arrived + 1>>
    <3>1. ((written \o InHand) \o chunks) \o <<arrived + 1>>
            = (written \o InHand) \o (chunks \o <<arrived + 1>>)
      <4> HIDE DEF Elem, InHand
      <4> DEFINE front == written \o InHand  last == <<arrived + 1>>
      <4>1. front \in Seq(Elem) /\ chunks \in Seq(Elem) /\ last \in Seq(Elem)
        BY <1>0, <1>1, <2>1
      <4> HIDE DEF front, last
      <4>2. (front \o chunks) \o last = front \o (chunks \o last) BY <4>1, ConcatAssociative
      <4> QED BY <4>2 DEF front, last
    <3> QED BY <1>0, <2>2, <2>3, <3>1 DEF PipeInv
  <2>5. UpTo(arrived) \o <<arrived + 1>> = UpTo(arrived + 1)
    <3>1. arrived \in Nat /\ arrived + 1 \in Nat BY <1>0
    <3>2. UpTo(arrived) \in Seq(Nat) BY <3>1 DEF UpTo
    <3>3. Append(UpTo(arrived), arrived + 1) = UpTo(arrived) \o <<arrived + 1>>
      BY <3>1, <3>2, AppendIsConcat
    <3> QED BY <3>1, <3>3, UpToGrows
  <2> QED BY <1>2, <2>4, <2>5 DEF ReceiveChunk, PipeInv
<1>3. CASE TakeChunk
  <2>1. chunk = 0 /\ InHand = <<>> BY <1>0, <1>3 DEF TakeChunk, HandInv, BodyInv, InHand
  <2>2. /\ Head(chunks) \in Elem /\ Tail(chunks) \in Seq(Elem)
        /\ chunks = <<Head(chunks)>> \o Tail(chunks)
    <3>1. Head(chunks) \in Elem /\ Tail(chunks) \in Seq(Elem)
      BY <1>0, <1>3, HeadTailProperties DEF TakeChunk
    <3>2. chunks = <<Head(chunks)>> \o Tail(chunks)
      BY <1>0, <1>3 DEF TakeChunk
    <3> QED BY <3>1, <3>2
  <2>3. InHand' = <<Head(chunks)>> /\ InHand' \in Seq(Elem)
    <3>1. chunk' = Head(chunks) /\ chunk' # 0 BY <1>3, <2>2 DEF TakeChunk
    <3>2. InHand' = <<Head(chunks)>> BY <3>1 DEF InHand
    <3> QED BY <1>s, <2>2, <3>2
  <2>4. written \o InHand = written BY <1>0, <2>1, ConcatEmptySeq
  <2>5. (written \o InHand') \o Tail(chunks) = written \o chunks
    BY <1>0, <2>2, <2>3, ConcatAssociative
  <2> QED BY <1>0, <1>3, <2>4, <2>5 DEF TakeChunk, PipeInv
<1>4. CASE WriteChunk
  <2>1. chunk \in Elem /\ InHand = <<chunk>> BY <1>0, <1>4 DEF WriteChunk, HandInv, InHand
  <2>2. written' = written \o InHand BY <1>0, <1>4, <2>1, AppendIsConcat DEF WriteChunk
  <2>3. written' \o InHand' = written'
    BY <1>1, <1>4, <2>2, ConcatEmptySeq DEF WriteChunk, InHand
  <2> QED BY <1>0, <1>4, <2>2, <2>3 DEF WriteChunk, PipeInv
<1>5. CASE UNCHANGED <<written, chunk, chunks, arrived>>
  BY <1>0, <1>5 DEF PipeInv, InHand
<1> QED
  BY <1>2, <1>3, <1>4, <1>5
     DEF Next, Receive, Handle, ReceiveHeaders, UpstreamCompletes, ReceiverCancels, UpstreamBreaks,
         AwaitHeaders, Terminate, WriteFails, Release, Join, LookAfterWorker, ClientLeaves

-----------------------------------------------------------------------------
(* The strengthened invariant of proxyStreamingRequest's two threads.      *)
THEOREM ProxyInvariant == Spec => []ProxyInv
<1>1. Init => ProxyInv
  <2> SUFFICES ASSUME Init PROVE ProxyInv OBVIOUS
  <2>1. ControlInv
    <3>1. chunks \in Seq(1..Chunks) /\ written \in Seq(1..Chunks) BY EmptySeq DEF Init
    <3>2. arrived \in 0..Chunks /\ chunk \in 0..Chunks BY ProxyAssumption DEF Init
    <3>3. TypeOK BY <3>1, <3>2 DEF Init, TypeOK
    <3>4. HandInv /\ ThreadInv /\ BodyInv BY DEF Init, HandInv, ThreadInv, BodyInv
    <3>5. CauseInv /\ RestartsForCause BY DEF Init, CauseInv, RestartsForCause
    <3> QED BY <3>3, <3>4, <3>5 DEF ControlInv
  <2>2. PipeInv BY DEF Init, PipeInv, InHand, UpTo
  <2> QED BY <2>1, <2>2 DEF ProxyInv
<1>2. ProxyInv /\ [Next]_vars => ProxyInv'
  <2>1. CASE Next BY <2>1, ControlIsKept, PipeIsKept DEF ProxyInv
  <2>2. CASE UNCHANGED vars
    BY <2>2 DEF vars, state, response, ProxyInv, ControlInv, TypeOK, HandInv, ThreadInv, BodyInv,
                CauseInv, RestartsForCause, PipeInv, InHand
  <2> QED BY <2>1, <2>2
<1> QED BY <1>1, <1>2, PTL DEF Spec

(* The types of StreamingProxyState and of the handler's own variables.    *)
THEOREM ProxyTypes == Spec => []TypeOK
<1>1. ProxyInv => TypeOK BY DEF ProxyInv, ControlInv
<1> QED BY <1>1, ProxyInvariant, PTL

(* The queue of proxyStreamingRequest loses and repeats no chunk, and a    *)
(* body ended with sink.done() has all that came.                          *)
THEOREM ProxyLosesNothing == Spec => []NothingLostBetween
<1>1. ProxyInv => NothingLostBetween
  <2> SUFFICES ASSUME ProxyInv PROVE NothingLostBetween OBVIOUS
  <2>1. (written \o InHand) \o chunks = UpTo(arrived) BY DEF ProxyInv, PipeInv
  <2>2. ASSUME body = "terminated"
        PROVE  written = UpTo(arrived) /\ (~transport_failed => arrived = Chunks)
    <3>1. chunks = <<>> /\ InHand = <<>> /\ (transport_failed \/ arrived = Chunks)
      BY <2>2 DEF ProxyInv, ControlInv, BodyInv, InHand
    <3>2. (written \o <<>>) \o <<>> = written
      BY ConcatEmptySeq DEF ProxyInv, ControlInv, TypeOK
    <3> QED BY <2>1, <3>1, <3>2
  <2> QED BY <2>1, <2>2 DEF NothingLostBetween
<1> QED BY <1>1, ProxyInvariant, PTL

(* The restart that the release callback, or a response without headers,   *)
(* causes is for a broken transport or an unavailable worker.              *)
THEOREM ProxyRestartsForCause == Spec => []RestartsForCause
<1>1. ProxyInv => RestartsForCause BY DEF ProxyInv, ControlInv
<1> QED BY <1>1, ProxyInvariant, PTL

-----------------------------------------------------------------------------
Queued == {c \in Connections : conn[c] = "queued"}

JobsInv == ToSet(jobs) = Queued /\ IsInjective(jobs)

ThreadsInv == IsFiniteSet(Held) /\ Cardinality(Held) <= Threads

ReturnedInv == acceptor = "returned" => \A c \in Connections : conn[c] \in {"new", "closed"}

(* A connection is closed with its last request.                           *)
CountInv == \A c \in Connections : conn[c] # "closed" => count[c] >= 1

PoolInv == PoolTypes /\ JobsInv /\ ThreadsInv /\ ReturnedInv /\ CountInv

(* Before the first connection.                                            *)
LEMMA PoolInitEstablishesInv ==
  ASSUME PoolInit
  PROVE  PoolInv
<1>1. PoolTypes
  <2>1. jobs \in Seq(Connections) BY EmptySeq DEF PoolInit
  <2>2. count \in [Connections -> 0..KeepAliveMax] BY PoolAssumption DEF PoolInit
  <2> QED BY <2>1, <2>2 DEF PoolInit, PoolTypes
<1>2. JobsInv BY DEF PoolInit, JobsInv, Queued, ToSet, IsInjective
<1>3. ThreadsInv
  <2>1. Held = {} BY DEF PoolInit, Held
  <2> QED BY <2>1, FS_EmptySet, PoolAssumption DEF ThreadsInv
<1>4. ReturnedInv BY DEF PoolInit, ReturnedInv
<1>5. CountInv BY PoolAssumption DEF PoolInit, CountInv
<1> QED BY <1>1, <1>2, <1>3, <1>4, <1>5 DEF PoolInv

(* A connection that has a thread keeps it or gives it back.               *)
LEMMA TurnKeepsThreads ==
  ASSUME PoolInv, NEW c \in Connections,
         NEW from \in {"reading", "handling"}, NEW to \in {"reading", "handling", "closed"},
         Turn(c, from, to), UNCHANGED <<jobs, acceptor>>
  PROVE  JobsInv' /\ ThreadsInv' /\ ReturnedInv'
<1>1. /\ conn \in [Connections -> {"new", "queued", "reading", "handling", "closed"}]
      /\ conn[c] = from /\ conn' = [conn EXCEPT ![c] = to]
  BY DEF PoolInv, PoolTypes, Turn
<1>2. Queued' = Queued BY <1>1 DEF Queued
<1>3. JobsInv' BY <1>2 DEF PoolInv, JobsInv
<1>4. ThreadsInv'
  <2>1. Held' \subseteq Held BY <1>1 DEF Held
  <2>2. IsFiniteSet(Held) /\ Cardinality(Held) \in Nat /\ Cardinality(Held) <= Threads
    BY FS_CardinalityType DEF PoolInv, ThreadsInv
  <2>3. IsFiniteSet(Held') /\ Cardinality(Held') <= Cardinality(Held) /\ Cardinality(Held') \in Nat
    BY <2>1, <2>2, FS_Subset, FS_CardinalityType
  <2> QED BY <2>2, <2>3, PoolAssumption DEF ThreadsInv
<1>5. ReturnedInv' BY <1>1 DEF PoolInv, ReturnedInv
<1> QED BY <1>3, <1>4, <1>5

(* A step that leaves the connections, the queue and the acceptor alone.   *)
LEMMA StillKeepsPool ==
  ASSUME PoolInv, UNCHANGED <<conn, jobs, count, acceptor>>, PoolTypes'
  PROVE  PoolInv'
BY DEF PoolInv, JobsInv, Queued, ThreadsInv, Held, ReturnedInv, CountInv

(* The listen loop: a connection joins the queue, or the loop ends.        *)
LEMMA AcceptKeepsInv ==
  ASSUME PoolInv, NEW c \in Connections, Accept(c)
  PROVE  PoolInv'
<1>1. /\ acceptor = "accepting" /\ conn[c] = "new" /\ conn' = [conn EXCEPT ![c] = "queued"]
      /\ jobs' = Append(jobs, c) /\ UNCHANGED <<count, hungUp, acceptor, stopping>>
  BY DEF Accept, Turn
<1>2. /\ conn \in [Connections -> {"new", "queued", "reading", "handling", "closed"}]
      /\ jobs \in Seq(Connections) /\ Len(jobs) \in Nat
  BY DEF PoolInv, PoolTypes
<1>3. /\ jobs' \in Seq(Connections) /\ Len(jobs') = Len(jobs) + 1
      /\ \A i \in 1..Len(jobs) : jobs'[i] = jobs[i]
      /\ jobs'[Len(jobs) + 1] = c
  BY <1>1, <1>2, AppendProperties
<1>4. DOMAIN jobs = 1..Len(jobs) /\ DOMAIN jobs' = 1..Len(jobs') BY <1>2, <1>3
<1>5. PoolTypes' BY <1>1, <1>2, <1>3 DEF PoolInv, PoolTypes
<1>6. Queued' = Queued \union {c} /\ c \notin Queued BY <1>1, <1>2 DEF Queued
<1>7. ToSet(jobs') = ToSet(jobs) \union {c}
  <2>1. \A i \in 1..Len(jobs') : jobs'[i] = c \/ jobs'[i] \in ToSet(jobs)
    BY <1>2, <1>3, <1>4 DEF ToSet
  <2>2. \A i \in 1..Len(jobs) : i \in 1..Len(jobs') /\ jobs'[i] = jobs[i] BY <1>2, <1>3
  <2>3. Len(jobs) + 1 \in 1..Len(jobs') BY <1>2, <1>3
  <2> QED BY <1>3, <1>4, <2>1, <2>2, <2>3 DEF ToSet
<1>8. IsInjective(jobs')
  <2>1. \A i \in 1..Len(jobs) : jobs[i] # c
    BY <1>4, <1>6 DEF PoolInv, JobsInv, ToSet
  <2>2. \A i, j \in 1..Len(jobs) : jobs[i] = jobs[j] => i = j
    BY <1>4 DEF PoolInv, JobsInv, IsInjective
  <2>3. \A i, j \in 1..Len(jobs') : jobs'[i] = jobs'[j] => i = j
    BY <1>2, <1>3, <2>1, <2>2
  <2> QED BY <1>4, <2>3 DEF IsInjective
<1>9. JobsInv' BY <1>6, <1>7, <1>8 DEF PoolInv, JobsInv
<1>10. ThreadsInv'
  <2>1. Held' = Held BY <1>1, <1>2 DEF Held
  <2> QED BY <2>1 DEF PoolInv, ThreadsInv
<1>11. ReturnedInv' /\ CountInv'
  BY <1>1, <1>2 DEF PoolInv, ReturnedInv, CountInv
<1> QED BY <1>5, <1>9, <1>10, <1>11 DEF PoolInv

LEMMA ListeningKeepsInv ==
  ASSUME PoolInv, Listening
  PROVE  PoolInv'
<1>1. CASE Drain
  BY <1>1 DEF Drain, PoolInv, PoolTypes, JobsInv, Queued, ThreadsInv, Held, ReturnedInv, CountInv
<1>2. CASE PoolJoined
  <2>1. \A c \in Connections : conn[c] \in {"new", "closed"}
    <3>1. Queued = {} BY <1>2 DEF PoolJoined, PoolInv, JobsInv, ToSet
    <3> QED BY <1>2, <3>1 DEF PoolJoined, PoolInv, PoolTypes, Queued, Held
  <2> QED
    BY <1>2, <2>1 DEF PoolJoined, PoolInv, PoolTypes, JobsInv, Queued, ThreadsInv, Held, ReturnedInv,
                      CountInv
<1> QED BY <1>1, <1>2 DEF Listening

(* A thread takes the first job.                                           *)
LEMMA TakeJobKeepsInv ==
  ASSUME PoolInv, TakeJob
  PROVE  PoolInv'
<1> DEFINE c == Head(jobs)
<1>1. /\ acceptor # "returned" /\ FreeThread /\ jobs # <<>> /\ jobs' = Tail(jobs)
      /\ conn[c] = "queued" /\ conn' = [conn EXCEPT ![c] = "reading"]
      /\ UNCHANGED <<count, hungUp, acceptor, stopping>>
  BY DEF TakeJob, Turn
<1>2. /\ conn \in [Connections -> {"new", "queued", "reading", "handling", "closed"}]
      /\ jobs \in Seq(Connections)
  BY DEF PoolInv, PoolTypes
<1>3. /\ c \in Connections /\ c = jobs[1] /\ Len(jobs) \in Nat /\ Len(jobs) >= 1
      /\ jobs' \in Seq(Connections) /\ Len(jobs') = Len(jobs) - 1
      /\ \A i \in 1..Len(jobs') : jobs'[i] = jobs[i + 1]
  BY <1>1, <1>2, HeadTailProperties, EmptySeq
<1> HIDE DEF c
<1>4. DOMAIN jobs = 1..Len(jobs) /\ DOMAIN jobs' = 1..Len(jobs') BY <1>2, <1>3
<1>5. PoolTypes' BY <1>1, <1>2, <1>3 DEF PoolInv, PoolTypes
<1>6. \A i, j \in 1..Len(jobs) : jobs[i] = jobs[j] => i = j
  BY <1>4 DEF PoolInv, JobsInv, IsInjective
<1>7. Queued' = Queued \ {c} BY <1>1, <1>2 DEF Queued
<1>8. ToSet(jobs') = ToSet(jobs) \ {c}
  <2>1. \A i \in 1..Len(jobs') : jobs'[i] # c /\ jobs'[i] \in ToSet(jobs)
    <3> SUFFICES ASSUME NEW i \in 1..Len(jobs') PROVE jobs'[i] # c /\ jobs'[i] \in ToSet(jobs)
      OBVIOUS
    <3>1. i + 1 \in 1..Len(jobs) /\ i + 1 # 1 /\ jobs'[i] = jobs[i + 1] /\ 1 \in 1..Len(jobs)
      BY <1>3
    <3>2. jobs[i + 1] # jobs[1] BY <1>6, <3>1
    <3> QED BY <1>3, <1>4, <3>1, <3>2 DEF ToSet
  <2>2. \A i \in 1..Len(jobs) : jobs[i] = c \/ jobs[i] \in ToSet(jobs')
    <3> SUFFICES ASSUME NEW i \in 1..Len(jobs), i # 1 PROVE jobs[i] \in ToSet(jobs')
      BY <1>3
    <3>1. i - 1 \in 1..Len(jobs') /\ jobs'[i - 1] = jobs[i] BY <1>3
    <3> QED BY <1>4, <3>1 DEF ToSet
  <2> QED BY <1>4, <2>1, <2>2 DEF ToSet
<1>9. IsInjective(jobs')
  <2>1. ASSUME NEW i \in 1..Len(jobs'), NEW j \in 1..Len(jobs'), jobs'[i] = jobs'[j]
        PROVE  i = j
    <3>1. i + 1 \in 1..Len(jobs) /\ j + 1 \in 1..Len(jobs) /\ jobs[i + 1] = jobs[j + 1]
      BY <1>3, <2>1
    <3>2. i + 1 = j + 1 BY <1>6, <3>1
    <3> QED BY <1>3, <3>2
  <2> QED BY <1>4, <2>1 DEF IsInjective
<1>10. JobsInv' BY <1>7, <1>8, <1>9 DEF PoolInv, JobsInv
<1>11. ThreadsInv'
  <2>1. Held' = Held \union {c} BY <1>1, <1>2, <1>3 DEF Held
  <2>2. IsFiniteSet(Held) /\ Cardinality(Held) \in Nat /\ Cardinality(Held) < Threads
    BY <1>1, FS_CardinalityType DEF PoolInv, ThreadsInv, FreeThread
  <2>3. IsFiniteSet(Held \union {c}) /\ Cardinality(Held \union {c}) <= Cardinality(Held) + 1
    BY <2>2, FS_AddElement
  <2>4. Cardinality(Held \union {c}) \in Nat BY <2>3, FS_CardinalityType
  <2> QED BY <2>1, <2>2, <2>3, <2>4, PoolAssumption DEF ThreadsInv
<1>12. ReturnedInv' /\ CountInv' BY <1>1, <1>2 DEF PoolInv, ReturnedInv, CountInv
<1> QED BY <1>5, <1>10, <1>11, <1>12 DEF PoolInv

(* A thread and its connection.                                            *)
LEMMA ThreadKeepsInv ==
  ASSUME PoolInv, NEW c \in Connections, Thread(c)
  PROVE  PoolInv'
<1>0. /\ conn \in [Connections -> {"new", "queued", "reading", "handling", "closed"}]
      /\ count \in [Connections -> 0..KeepAliveMax] /\ KeepAliveMax \in Nat
      /\ PoolTypes /\ CountInv
  BY PoolAssumption DEF PoolInv, PoolTypes
<1>1. JobsInv' /\ ThreadsInv' /\ ReturnedInv'
  <2>1. UNCHANGED <<jobs, acceptor>>
    BY DEF Thread, ReadRequest, KeepAliveEnds, Respond, AskToStop, EndWatch
  <2>2. \E from \in {"reading", "handling"}, to \in {"reading", "handling", "closed"} :
           Turn(c, from, to)
    BY DEF Thread, ReadRequest, KeepAliveEnds, Respond, AskToStop, EndWatch
  <2> QED BY <2>1, <2>2, TurnKeepsThreads
<1>2. PoolTypes' /\ CountInv'
  <2> USE <1>0 DEF PoolTypes, CountInv, Turn
  <2>1. CASE ReadRequest(c) BY <2>1 DEF ReadRequest
  <2>2. CASE KeepAliveEnds(c) BY <2>2 DEF KeepAliveEnds
  <2>3. CASE Respond(c)
    <3>1. count[c] \in 1..KeepAliveMax /\ count' = [count EXCEPT ![c] = count[c] - 1]
      BY <2>3 DEF Respond
    <3> QED BY <2>3, <3>1 DEF Respond
  <2>4. CASE AskToStop(c) BY <2>4 DEF AskToStop
  <2>5. CASE EndWatch(c) BY <2>5 DEF EndWatch
  <2> QED BY <2>1, <2>2, <2>3, <2>4, <2>5 DEF Thread
<1> QED BY <1>1, <1>2 DEF PoolInv

-----------------------------------------------------------------------------
(* The strengthened invariant of listen loop, queue and threads.           *)
THEOREM PoolInvariant == PoolSpec => []PoolInv
<1>1. PoolInit => PoolInv BY PoolInitEstablishesInv
<1>2. PoolInv /\ [PoolNext]_poolVars => PoolInv'
  <2> SUFFICES ASSUME PoolInv, [PoolNext]_poolVars PROVE PoolInv' OBVIOUS
  <2>1. CASE Listening BY <2>1, ListeningKeepsInv
  <2>2. CASE TakeJob BY <2>2, TakeJobKeepsInv
  <2>3. CASE Stopping \/ SignalStops
    <3>1. PoolTypes'
      BY <2>3 DEF Stopping, SignalStops, CloseSocket, StopIsOver, PoolInv, PoolTypes
    <3> QED BY <2>3, <3>1, StillKeepsPool DEF Stopping, SignalStops, CloseSocket, StopIsOver
  <2>4. ASSUME NEW c \in Connections, Accept(c) PROVE PoolInv' BY <2>4, AcceptKeepsInv
  <2>5. ASSUME NEW c \in Connections, Thread(c) PROVE PoolInv' BY <2>5, ThreadKeepsInv
  <2>6. ASSUME NEW c \in Connections, HangUp(c) PROVE PoolInv'
    <3>1. PoolTypes' BY <2>6 DEF HangUp, PoolInv, PoolTypes
    <3> QED BY <2>6, <3>1, StillKeepsPool DEF HangUp
  <2>7. CASE UNCHANGED poolVars
    <3>1. PoolTypes' BY <2>7 DEF poolVars, PoolInv, PoolTypes
    <3> QED BY <2>7, <3>1, StillKeepsPool DEF poolVars
  <2> QED BY <2>1, <2>2, <2>3, <2>4, <2>5, <2>6, <2>7 DEF PoolNext
<1> QED BY <1>1, <1>2, PTL DEF PoolSpec

(* httplib's queue, the requests a connection has left, stop().            *)
THEOREM PoolTypesHold == PoolSpec => []PoolTypes
<1>1. PoolInv => PoolTypes BY DEF PoolInv
<1> QED BY <1>1, PoolInvariant, PTL

(* ThreadPool::shutdown: listen() returns with every accepted connection   *)
(* closed; no more connections are served at once than there are threads.  *)
THEOREM PoolSettlesAll == PoolSpec => []AcceptedAreSettled
<1>1. PoolInv => AcceptedAreSettled
  BY DEF PoolInv, AcceptedAreSettled, JobsInv, Queued, ThreadsInv, ReturnedInv
<1> QED BY <1>1, PoolInvariant, PTL
=============================================================================
