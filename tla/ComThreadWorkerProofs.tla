------------------------ MODULE ComThreadWorkerProofs ------------------------
(***************************************************************************)
(* Proofs about ComThreadWorker for any set of callers, any split of them  *)
(* into timed and untimed ones, and any number of calls: its types, that   *)
(* stop() strands no accepted task, that it implements TaskExecutor, and   *)
(* that a body without its caller runs under a recorded fault only.        *)
(***************************************************************************)
EXTENDS ComThreadWorker, SequenceTheorems, TLAPS

(* Who may be inside postTask's critical section.                          *)
MutexInv == \A c \in Callers : pc[c] = "push" <=> mutex = c

(* Before start() has returned nobody calls and nothing is queued.         *)
StartInv ==
  /\ ownerPc = "new" => comPc = "none" /\ ~quitPosted
  /\ comPc = "none" => ownerPc = "new"
  /\ comPc = "starting" => ownerPc = "starting"
  /\ ownerPc \in {"new", "starting"} =>
       queue = <<>> /\ \A c \in Callers : pc[c] = "idle"

(* The gate is shut before WM_QUIT is posted and stays shut.               *)
QuitInv ==
  /\ ownerPc = "stopping" => ~accepting
  /\ quitPosted => ~accepting
  /\ comPc \in {"quit", "drain", "leaving"} => quitPosted
  /\ comPc = "exited" => ~accepting

(* From the second swap on the queue is empty and nobody can fill it.      *)
DrainInv ==
  /\ comPc \in {"drain", "leaving", "exited"} =>
       queue = <<>> /\ \A c \in Callers : pc[c] # "push"
  /\ comPc \notin {"run", "drain"} => batch = <<>> /\ current = NoTask

WorkerInv == TypeOK /\ MutexInv /\ StartInv /\ QuitInv /\ DrainInv

-----------------------------------------------------------------------------
LEMMA TaskOfType ==
  ASSUME TypeOK, NEW c \in Callers, calls[c] > 0
  PROVE  TaskOf(c) \in Task
BY WorkerAssumption DEF TypeOK, TaskOf, Task

(* A caller past BeginInvoke has begun a call.                             *)
CallsInv == \A c \in Callers : pc[c] # "idle" => calls[c] > 0

LEMMA InitWorkerInv == Init => WorkerInv /\ CallsInv
<1> SUFFICES ASSUME Init PROVE WorkerInv /\ CallsInv
  OBVIOUS
<1>1. TypeOK
  <2>1. queue \in Seq(Task) /\ batch \in Seq(Task)
    BY EmptySeq DEF Init
  <2>2. calls \in [Callers -> 0..MaxCalls]
    BY WorkerAssumption DEF Init
  <2> QED
    BY <2>1, <2>2 DEF Init, TypeOK, NoOne, ComPcs, OwnerPcs, CallerPcs
<1>2. MutexInv /\ StartInv /\ QuitInv /\ DrainInv /\ CallsInv
  BY WorkerAssumption
     DEF Init, MutexInv, StartInv, QuitInv, DrainInv, CallsInv, NoOne
<1> QED
  BY <1>1, <1>2 DEF WorkerInv

LEMMA OwnerStep == WorkerInv /\ CallsInv /\ Owner => WorkerInv' /\ CallsInv'
<1> SUFFICES ASSUME WorkerInv, CallsInv, Owner PROVE WorkerInv' /\ CallsInv'
  OBVIOUS
<1> USE DEF WorkerInv, CallsInv, flags, queues, TypeOK, MutexInv, StartInv, QuitInv, DrainInv,
            ComPcs, OwnerPcs
<1>1. CASE StartThread   BY <1>1 DEF StartThread
<1>2. CASE StartReturns
  <2>1. CASE comPc = "exited"
    BY <1>2, <2>1 DEF StartReturns
  <2>2. CASE comPc # "exited"
    BY <1>2, <2>2 DEF StartReturns
  <2> QED
    BY <2>1, <2>2
<1>3. CASE StopBegins    BY <1>3 DEF StopBegins
<1>4. CASE StopPostsQuit BY <1>4 DEF StopPostsQuit
<1>5. CASE StopJoins     BY <1>5 DEF StopJoins
<1>6. CASE StopReturns   BY <1>6 DEF StopReturns
<1> QED
  BY <1>1, <1>2, <1>3, <1>4, <1>5, <1>6 DEF Owner

LEMMA CallerStep ==
  ASSUME WorkerInv, CallsInv, NEW c \in Callers, Caller(c)
  PROVE  WorkerInv' /\ CallsInv'
<1> USE WorkerAssumption
    DEF WorkerInv, CallsInv, flags, queues, TypeOK, MutexInv, StartInv, QuitInv, DrainInv,
        CallerPcs, NoOne, Goto, Gate
<1>1. CASE BeginInvoke(c)      BY <1>1 DEF BeginInvoke
<1>2. CASE PostUnlockedTest(c) BY <1>2 DEF PostUnlockedTest
<1>3. CASE PostLockedTest(c)   BY <1>3 DEF PostLockedTest
<1>4. CASE PostPush(c)
  <2>1. TaskOf(c) \in Task
    BY <1>4, TaskOfType DEF PostPush
  <2>2. queue' \in Seq(Task)
    BY <1>4, <2>1 DEF PostPush
  <2> QED
    BY <1>4, <2>2 DEF PostPush
<1>5. CASE GetResult(c)        BY <1>5 DEF GetResult
<1>6. CASE WaitTimesOut(c)     BY <1>6 DEF WaitTimesOut
<1>7. CASE FaultClosesGate(c)  BY <1>7 DEF FaultClosesGate
<1> QED
  BY <1>1, <1>2, <1>3, <1>4, <1>5, <1>6, <1>7 DEF Caller

LEMMA ComStep ==
  WorkerInv /\ CallsInv /\ (ComControl \/ FinishTask) => WorkerInv' /\ CallsInv'
<1> SUFFICES ASSUME WorkerInv, CallsInv, ComControl \/ FinishTask
             PROVE  WorkerInv' /\ CallsInv'
  OBVIOUS
<1> USE WorkerAssumption
    DEF WorkerInv, CallsInv, flags, queues, TypeOK, MutexInv, StartInv, QuitInv, DrainInv,
        ComPcs, NoOne, ComMoves
<1>1. CASE ThreadInit
  <2>1. CASE comPc' = "loop"
    BY <1>1, <2>1 DEF ThreadInit
  <2>2. CASE comPc' = "exited"
    BY <1>1, <2>2 DEF ThreadInit
  <2> QED
    BY <1>1, <2>1, <2>2 DEF ThreadInit
<1>2. CASE LoopSwap     BY <1>2 DEF LoopSwap, SwapQueue
<1>3. CASE DrainSwap    BY <1>3 DEF DrainSwap, SwapQueue
<1>4. CASE StartTask
  <2>1. Head(batch) \in Task /\ Tail(batch) \in Seq(Task)
    BY <1>4, HeadTailProperties DEF StartTask
  <2> QED
    BY <1>4, <2>1 DEF StartTask
<1>5. CASE FinishTask   BY <1>5 DEF FinishTask
<1>6. CASE BatchDone    BY <1>6 DEF BatchDone
<1>7. CASE PumpMessages BY <1>7 DEF PumpMessages
<1>8. CASE WaitEnds     BY <1>8 DEF WaitEnds
<1>9. CASE DrainDone    BY <1>9 DEF DrainDone
<1>10. CASE ThreadExits BY <1>10 DEF ThreadExits
<1> QED
  BY <1>1, <1>2, <1>3, <1>4, <1>5, <1>6, <1>7, <1>8, <1>9, <1>10 DEF ComControl

LEMMA WorkerStep ==
  WorkerInv /\ CallsInv /\ [Next]_vars => WorkerInv' /\ CallsInv'
<1> SUFFICES ASSUME WorkerInv, CallsInv, [Next]_vars PROVE WorkerInv' /\ CallsInv'
  OBVIOUS
<1>1. CASE Owner                       BY <1>1, OwnerStep
<1>2. CASE \E c \in Callers : Caller(c) BY <1>2, CallerStep
<1>3. CASE ComControl \/ FinishTask    BY <1>3, ComStep
<1>4. CASE UNCHANGED vars
  BY <1>4 DEF vars, flags, queues, WorkerInv, CallsInv, TypeOK, MutexInv, StartInv,
              QuitInv, DrainInv
<1> QED
  BY <1>1, <1>2, <1>3, <1>4 DEF Next

(* The strengthened invariant: the gate is shut before WM_QUIT is posted,  *)
(* so whoever is past the locked test when it shuts still holds the mutex, *)
(* and the last swap waits for the push.                                   *)
THEOREM WorkerInvariant == Spec => [](WorkerInv /\ CallsInv)
<1>1. Init => WorkerInv /\ CallsInv
  BY InitWorkerInv
<1>2. WorkerInv /\ CallsInv /\ [Next]_vars => WorkerInv' /\ CallsInv'
  BY WorkerStep
<1> QED
  BY <1>1, <1>2, PTL DEF Spec

(* The variables keep their types, for any number of callers and calls.    *)
THEOREM WorkerTypes == Spec => []TypeOK
<1>1. WorkerInv => TypeOK
  BY DEF WorkerInv
<1> QED
  BY <1>1, WorkerInvariant, PTL

(* stop() strands no task that postTask accepted.                          *)
THEOREM WorkerStrandsNothing == Spec => []NothingStranded
<1>1. WorkerInv => NothingStranded
  BY DEF WorkerInv, DrainInv, NothingStranded
<1> QED
  BY <1>1, WorkerInvariant, PTL

-----------------------------------------------------------------------------
(* Two facts about sequences for the refinement.                           *)

LEMMA ConcatAppend ==
  ASSUME NEW S, NEW s \in Seq(S), NEW t \in Seq(S), NEW e \in S
  PROVE  s \o Append(t, e) = Append(s \o t, e)
<1>1. <<e>> \in Seq(S)
  OBVIOUS
<1>2. Append(t, e) = t \o <<e>> /\ Append(s \o t, e) = (s \o t) \o <<e>>
  BY ConcatProperties, AppendIsConcat
<1> QED
  BY <1>1, <1>2, ConcatAssociative

LEMMA HeadTailOfConcat ==
  ASSUME NEW S, NEW s \in Seq(S), NEW t \in Seq(S), s # <<>>
  PROVE  /\ s \o t # <<>>
         /\ Head(s \o t) = Head(s)
         /\ Tail(s \o t) = Tail(s) \o t
<1>1. /\ Head(s) \in S /\ Tail(s) \in Seq(S)
      /\ Len(Tail(s)) = Len(s) - 1
      /\ \A i \in 1..Len(Tail(s)) : Tail(s)[i] = s[i+1]
  BY HeadTailProperties
<1>2. Len(s) \in Nat \ {0} /\ Len(t) \in Nat
  BY EmptySeq, LenProperties
<1>3. /\ s \o t \in Seq(S) /\ Len(s \o t) = Len(s) + Len(t)
      /\ \A i \in 1..Len(s) + Len(t) : (s \o t)[i] = IF i <= Len(s) THEN s[i] ELSE t[i - Len(s)]
  BY ConcatProperties
<1>4. s \o t # <<>>
  BY <1>2, <1>3, EmptySeq
<1>5. Head(s \o t) = Head(s)
  BY <1>2, <1>3, <1>4
<1>6. /\ Tail(s \o t) \in Seq(S) /\ Len(Tail(s \o t)) = Len(s) + Len(t) - 1
      /\ \A i \in 1..Len(Tail(s \o t)) : Tail(s \o t)[i] = (s \o t)[i+1]
  BY <1>3, <1>4, HeadTailProperties
<1>7. /\ Tail(s) \o t \in Seq(S) /\ Len(Tail(s) \o t) = Len(s) - 1 + Len(t)
      /\ \A i \in 1..Len(s) - 1 + Len(t) :
           (Tail(s) \o t)[i] = IF i <= Len(s) - 1 THEN Tail(s)[i] ELSE t[i - (Len(s) - 1)]
  BY <1>1, ConcatProperties
<1>8. ASSUME NEW i \in 1..Len(s) - 1 + Len(t)
      PROVE  Tail(s \o t)[i] = (Tail(s) \o t)[i]
  <2>1. Tail(s \o t)[i] = (s \o t)[i+1] /\ i + 1 \in 1..Len(s) + Len(t)
    BY <1>2, <1>6
  <2>2. CASE i <= Len(s) - 1
    BY <1>1, <1>2, <1>3, <1>7, <2>1, <2>2
  <2>3. CASE i > Len(s) - 1
    BY <1>2, <1>3, <1>7, <2>1, <2>3
  <2> QED
    BY <1>2, <2>2, <2>3
<1>9. Tail(s \o t) = Tail(s) \o t
  BY <1>2, <1>6, <1>7, <1>8, SeqEqual
<1> QED
  BY <1>4, <1>5, <1>9

-----------------------------------------------------------------------------
LEMMA InitRefines == Init => Executor!Init
<1> SUFFICES ASSUME Init PROVE Executor!Init
  OBVIOUS
<1>1. batch \o queue = <<>>
  BY ConcatEmptySeq, EmptySeq DEF Init
<1> QED
  BY <1>1 DEF Init, Executor!Init

(* An accepted task is one Accept, the start and the end of a body are     *)
(* StartOldest and Finish, the end of the thread is Close; every other     *)
(* step changes nothing the executor shows.                                *)
LEMMA StepRefines ==
  WorkerInv /\ CallsInv /\ [Next]_vars => [Executor!Next]_<<batch \o queue, current, done, comPc = "exited">>
<1> DEFINE pending == batch \o queue
           closed == comPc = "exited"
           shown == <<pending, current, done, closed>>
<1> SUFFICES ASSUME WorkerInv, CallsInv, [Next]_vars PROVE Executor!Next \/ UNCHANGED shown
  OBVIOUS
<1>0. queue \in Seq(Task) /\ batch \in Seq(Task)
  BY DEF WorkerInv, TypeOK
<1>1. CASE Owner
  <2>1. UNCHANGED <<queue, batch, current, done>>
    BY <1>1 DEF Owner, StartThread, StartReturns, StopBegins, StopPostsQuit, StopJoins,
                StopReturns, queues
  <2>2. UNCHANGED closed
    BY <1>1 DEF Owner, StartThread, StartReturns, StopBegins, StopPostsQuit, StopJoins,
                StopReturns, WorkerInv, StartInv
  <2> QED
    BY <2>1, <2>2
<1>2. ASSUME NEW c \in Callers, Caller(c)
      PROVE  Executor!Next \/ UNCHANGED shown
  <2>1. CASE PostPush(c)
    <3>1. TaskOf(c) \in Task
      BY <2>1, TaskOfType DEF PostPush, Goto, WorkerInv, CallsInv
    <3>2. pending' = Append(pending, TaskOf(c))
      BY <1>0, <2>1, <3>1, ConcatAppend DEF PostPush
    <3>3. ~closed
      BY <2>1 DEF PostPush, Goto, WorkerInv, DrainInv
    <3>4. UNCHANGED <<current, done, comPc>>
      BY <2>1 DEF PostPush
    <3> QED
      BY <3>1, <3>2, <3>3, <3>4 DEF Executor!Next, Executor!Accept
  <2>2. CASE ~PostPush(c)
    <3>1. UNCHANGED <<queue, batch, current, done, comPc>>
      BY <1>2, <2>2 DEF Caller, BeginInvoke, PostUnlockedTest, PostLockedTest, GetResult,
                        WaitTimesOut, FaultClosesGate, queues
    <3> QED
      BY <3>1
  <2> QED
    BY <2>1, <2>2
<1>3. CASE StartTask
  <2>1. /\ pending # <<>>
        /\ Head(pending) = Head(batch)
        /\ Tail(pending) = Tail(batch) \o queue
    BY <1>0, <1>3, HeadTailOfConcat DEF StartTask
  <2> QED
    BY <1>3, <2>1 DEF StartTask, Executor!Next, Executor!StartOldest
<1>4. CASE FinishTask
  BY <1>4 DEF FinishTask, Executor!Next, Executor!Finish
<1>5. CASE LoopSwap \/ DrainSwap
  <2>1. batch = <<>>
    BY <1>5 DEF LoopSwap, DrainSwap, SwapQueue, ComMoves, WorkerInv, DrainInv
  <2>2. batch' = queue /\ queue' = <<>>
    BY <1>5 DEF LoopSwap, DrainSwap, SwapQueue
  <2>3. pending' = pending
    BY <1>0, <2>1, <2>2, ConcatEmptySeq
  <2>4. UNCHANGED <<current, done, closed>>
    BY <1>5 DEF LoopSwap, DrainSwap, SwapQueue, ComMoves
  <2> QED
    BY <2>3, <2>4
<1>6. CASE ThreadExits \/ (ThreadInit /\ comPc' = "exited")
  <2>1. UNCHANGED <<queue, batch, current, done>> /\ queue = <<>> /\ batch = <<>> /\ current = NoTask
    BY <1>6 DEF ThreadExits, ThreadInit, ComMoves, queues, WorkerInv, DrainInv, StartInv
  <2>2. pending = <<>> /\ pending' = <<>>
    BY <2>1, EmptySeq, ConcatEmptySeq
  <2>3. closed'
    BY <1>6 DEF ThreadExits, ThreadInit, ComMoves
  <2> QED
    BY <2>1, <2>2, <2>3 DEF Executor!Next, Executor!Close
<1>7. CASE BatchDone \/ PumpMessages \/ WaitEnds \/ DrainDone \/ (ThreadInit /\ comPc' = "loop")
  <2>1. UNCHANGED <<queue, batch, current, done, closed>>
    BY <1>7 DEF BatchDone, PumpMessages, WaitEnds, DrainDone, ThreadInit, ComMoves, queues
  <2> QED
    BY <2>1
<1>8. CASE UNCHANGED vars
  BY <1>8 DEF vars, queues
<1> QED
  BY <1>1, <1>2, <1>3, <1>4, <1>5, <1>6, <1>7, <1>8 DEF Next, ComControl, ThreadInit

(* The worker is the serial first-in first-out executor that closes only   *)
(* after running everything it accepted.                                   *)
THEOREM WorkerImplementsExecutor == Spec => ImplementsExecutor
<1>1. Init => Executor!Init
  BY InitRefines
<1>2. WorkerInv /\ CallsInv /\ [Next]_vars
        => [Executor!Next]_<<batch \o queue, current, done, comPc = "exited">>
  BY StepRefines
<1> QED
  BY <1>1, <1>2, WorkerInvariant, PTL DEF Spec, ImplementsExecutor, Executor!Spec, Executor!execVars

-----------------------------------------------------------------------------
(* A body and its caller.  Each call posts at most one task, and a task is *)
(* in one place.                                                           *)
Elements(s) == {s[i] : i \in 1..Len(s)}
Distinct(s) == \A i, j \in 1..Len(s) : s[i] = s[j] => i = j

Open == Elements(queue) \union Elements(batch) \union {current}

OnceInv ==
  /\ Distinct(queue) /\ Distinct(batch)
  /\ Elements(queue) \intersect Elements(batch) = {}
  /\ current \notin Elements(queue) \union Elements(batch)
  /\ \A t \in Task : t \in Open => t \notin done

(* What was posted belongs to a call that was begun, and not to one that   *)
(* has yet to post.                                                        *)
PostedInv ==
  \A c \in Callers, k \in 1..MaxCalls :
    <<c, k>> \in Open \union done =>
      k <= calls[c] /\ (pc[c] \in {"enter", "lock", "push"} => k # calls[c])

(* Whose task is not through waits for it, unless a fault is recorded.     *)
WaitingInv ==
  \A c \in Callers, k \in 1..MaxCalls :
    <<c, k>> \in Open => faulted \/ (pc[c] = "waiting" /\ calls[c] = k)

BodyInv == WorkerInv /\ CallsInv /\ OnceInv /\ PostedInv /\ WaitingInv

LEMMA AppendElements ==
  ASSUME NEW S, NEW s \in Seq(S), NEW e \in S
  PROVE  /\ Elements(Append(s, e)) = Elements(s) \union {e}
         /\ Distinct(s) /\ e \notin Elements(s) => Distinct(Append(s, e))
<1>1. /\ Len(s) \in Nat /\ Len(Append(s, e)) = Len(s) + 1
      /\ \A i \in 1..Len(s) : Append(s, e)[i] = s[i]
      /\ Append(s, e)[Len(s) + 1] = e
  BY AppendProperties, LenProperties
<1>2. \A i \in 1..Len(s) + 1 : i \in 1..Len(s) \/ i = Len(s) + 1
  BY <1>1
<1>3. \A i \in 1..Len(s) : i \in 1..Len(s) + 1
  BY <1>1
<1>4. Len(s) + 1 \in 1..Len(s) + 1
  BY <1>1
<1>5. Elements(Append(s, e)) = Elements(s) \union {e}
  BY <1>1, <1>2, <1>3, <1>4 DEF Elements
<1>6. ASSUME Distinct(s), e \notin Elements(s) PROVE Distinct(Append(s, e))
  BY <1>1, <1>2, <1>6 DEF Elements, Distinct
<1> QED
  BY <1>5, <1>6

LEMMA TailElements ==
  ASSUME NEW S, NEW s \in Seq(S), s # <<>>, Distinct(s)
  PROVE  /\ Head(s) \in Elements(s)
         /\ Elements(Tail(s)) = Elements(s) \ {Head(s)}
         /\ Distinct(Tail(s))
<1>1. /\ Tail(s) \in Seq(S) /\ Len(Tail(s)) = Len(s) - 1 /\ Head(s) = s[1]
      /\ \A i \in 1..Len(Tail(s)) : Tail(s)[i] = s[i + 1]
  BY HeadTailProperties
<1>2. Len(s) \in Nat \ {0}
  BY EmptySeq, LenProperties
<1>3. \A i \in 1..Len(s) - 1 : i + 1 \in 1..Len(s) /\ i + 1 # 1
  BY <1>2
<1>4. \A j \in 1..Len(s) : j = 1 \/ (j - 1 \in 1..Len(s) - 1 /\ (j - 1) + 1 = j)
  BY <1>2
<1>5. 1 \in 1..Len(s)
  BY <1>2
<1>6. Elements(Tail(s)) \subseteq Elements(s) \ {Head(s)}
  BY <1>1, <1>3, <1>5 DEF Elements, Distinct
<1>7. ASSUME NEW j \in 1..Len(s), s[j] # Head(s) PROVE s[j] \in Elements(Tail(s))
  <2>1. j - 1 \in 1..Len(s) - 1 /\ (j - 1) + 1 = j
    BY <1>1, <1>4, <1>7
  <2>2. Tail(s)[j - 1] = s[j]
    BY <1>1, <2>1
  <2> QED
    BY <1>1, <2>1, <2>2 DEF Elements
<1>8. Distinct(Tail(s))
  <2> SUFFICES ASSUME NEW i \in 1..Len(Tail(s)), NEW j \in 1..Len(Tail(s)),
                      Tail(s)[i] = Tail(s)[j]
               PROVE  i = j
    BY DEF Distinct
  <2>1. s[i + 1] = s[j + 1] /\ i + 1 \in 1..Len(s) /\ j + 1 \in 1..Len(s)
    BY <1>1, <1>3
  <2>2. i + 1 = j + 1
    BY <2>1 DEF Distinct
  <2> QED
    BY <1>1, <1>2, <2>2
<1>9. Head(s) \in Elements(s)
  BY <1>1, <1>5 DEF Elements
<1> QED
  BY <1>6, <1>7, <1>8, <1>9 DEF Elements

LEMMA EmptyElements == Elements(<<>>) = {} /\ Distinct(<<>>)
BY DEF Elements, Distinct

(* A step that leaves the queues alone keeps each task where it is.        *)
LEMMA StillOnce ==
  ASSUME OnceInv, UNCHANGED <<queue, batch, current, done>>
  PROVE  OnceInv' /\ Open' = Open
BY DEF OnceInv, Open, Elements, Distinct

LEMMA CallerKeepsBody ==
  ASSUME BodyInv, NEW c \in Callers, Caller(c)
  PROVE  OnceInv' /\ PostedInv' /\ WaitingInv'
<1>0. TypeOK /\ OnceInv /\ PostedInv /\ WaitingInv /\ CallsInv
  BY DEF BodyInv, WorkerInv
<1>1. CASE PostPush(c)
  <2>1. /\ pc[c] = "push" /\ pc' = [pc EXCEPT ![c] = "waiting"]
        /\ queue' = Append(queue, TaskOf(c))
        /\ UNCHANGED <<faulted, batch, current, done, calls>>
    BY <1>1 DEF PostPush, Goto, flags
  <2>2. calls[c] \in 1..MaxCalls /\ TaskOf(c) = <<c, calls[c]>> /\ TaskOf(c) \in Task
    <3>1. calls[c] \in 0..MaxCalls /\ calls[c] > 0
      BY <1>0, <2>1 DEF TypeOK, CallsInv
    <3>2. calls[c] \in 1..MaxCalls
      BY <3>1, WorkerAssumption
    <3> QED
      BY <3>2 DEF TaskOf, Task
  <2>3. TaskOf(c) \notin Open \union done
    BY <1>0, <2>1, <2>2 DEF PostedInv
  <2>4. Elements(queue') = Elements(queue) \union {TaskOf(c)} /\ Distinct(queue')
    <3>1. Distinct(queue) /\ TaskOf(c) \notin Elements(queue) /\ queue \in Seq(Task)
      BY <1>0, <2>3 DEF OnceInv, Open, TypeOK
    <3> QED
      BY <2>1, <2>2, <3>1, AppendElements
  <2>5. Open' = Open \union {TaskOf(c)} /\ Elements(batch') = Elements(batch)
    BY <2>1, <2>4 DEF Open
  <2>6. OnceInv'
    <3>1. Distinct(batch') /\ Distinct(queue')
      BY <1>0, <2>1, <2>4 DEF OnceInv
    <3>2. /\ Elements(queue') \intersect Elements(batch') = {}
          /\ current' \notin Elements(queue') \union Elements(batch')
      BY <1>0, <2>1, <2>3, <2>4, <2>5 DEF OnceInv, Open
    <3>3. \A t \in Task : t \in Open' => t \notin done'
      BY <1>0, <2>1, <2>3, <2>5 DEF OnceInv
    <3> QED
      BY <3>1, <3>2, <3>3 DEF OnceInv
  <2>7. PostedInv'
    BY <1>0, <2>1, <2>2, <2>5 DEF PostedInv, TypeOK
  <2>8. WaitingInv'
    BY <1>0, <2>1, <2>2, <2>5 DEF WaitingInv, TypeOK
  <2> QED
    BY <2>6, <2>7, <2>8
<1>2. CASE ~PostPush(c)
  <2>1. UNCHANGED <<queue, batch, current, done>>
    BY <1>2, Caller(c) DEF Caller, BeginInvoke, PostUnlockedTest, PostLockedTest, GetResult,
                           WaitTimesOut, FaultClosesGate, queues
  <2>2. OnceInv' /\ Open' = Open /\ done' = done
    BY <1>0, <2>1, StillOnce
  <2>3. CASE BeginInvoke(c)
    <3>1. /\ pc[c] = "idle" /\ pc' = [pc EXCEPT ![c] = IF running /\ ~faulted THEN "enter" ELSE "idle"]
          /\ calls' = [calls EXCEPT ![c] = calls[c] + 1] /\ faulted' = faulted
      BY <2>3 DEF BeginInvoke, Goto, flags
    <3>2. calls[c] \in Nat /\ calls'[c] = calls[c] + 1
      BY <1>0, <3>1 DEF TypeOK
    <3>3. PostedInv'
      BY <1>0, <2>2, <3>1, <3>2 DEF PostedInv, TypeOK
    <3>4. WaitingInv'
      BY <1>0, <2>2, <3>1 DEF WaitingInv, TypeOK
    <3> QED
      BY <2>2, <3>3, <3>4
  <2>4. CASE GetResult(c)
    <3>1. /\ pc[c] = "waiting" /\ pc' = [pc EXCEPT ![c] = "idle"] /\ TaskOf(c) \in done
          /\ calls' = calls /\ faulted' = faulted
      BY <2>4 DEF GetResult, Goto, flags
    <3>2. <<c, calls[c]>> \in Task
      BY <1>0, <3>1, TaskOfType DEF CallsInv, TaskOf
    <3>3. <<c, calls[c]>> \notin Open
      BY <1>0, <3>1, <3>2 DEF OnceInv, TaskOf
    <3>4. PostedInv'
      BY <1>0, <2>2, <3>1 DEF PostedInv, TypeOK
    <3>5. WaitingInv'
      BY <1>0, <2>2, <3>1, <3>3 DEF WaitingInv, TypeOK
    <3> QED
      BY <2>2, <3>4, <3>5
  <2>5. CASE PostUnlockedTest(c) \/ PostLockedTest(c)
    <3>1. /\ calls' = calls /\ faulted' = faulted /\ pc[c] \in {"enter", "lock"}
          /\ \E to \in {"idle", "lock", "push"} : pc' = [pc EXCEPT ![c] = to]
      BY <2>5 DEF PostUnlockedTest, PostLockedTest, Goto, flags
    <3>2. PostedInv'
      BY <1>0, <2>2, <3>1 DEF PostedInv, TypeOK
    <3>3. WaitingInv'
      BY <1>0, <2>2, <3>1 DEF WaitingInv, TypeOK
    <3> QED
      BY <2>2, <3>2, <3>3
  <2>6. CASE WaitTimesOut(c)
    <3>1. calls' = calls /\ faulted' /\ pc' = [pc EXCEPT ![c] = "faulting"]
      BY <2>6 DEF WaitTimesOut, Goto
    <3> QED
      BY <1>0, <2>2, <3>1 DEF PostedInv, WaitingInv, TypeOK
  <2>7. CASE FaultClosesGate(c)
    <3>1. /\ calls' = calls /\ faulted' = faulted /\ pc[c] = "faulting"
          /\ pc' = [pc EXCEPT ![c] = "idle"]
      BY <2>7 DEF FaultClosesGate, Goto
    <3> QED
      BY <1>0, <2>2, <3>1 DEF PostedInv, WaitingInv, TypeOK
  <2> QED
    BY <1>2, <2>3, <2>4, <2>5, <2>6, <2>7, Caller(c) DEF Caller
<1> QED
  BY <1>1, <1>2

(* The STA thread moves tasks on and puts no new one anywhere.             *)
LEMMA ComKeepsBody ==
  ASSUME BodyInv, ComControl \/ FinishTask
  PROVE  OnceInv' /\ PostedInv' /\ WaitingInv'
<1>0. TypeOK /\ OnceInv /\ PostedInv /\ WaitingInv /\ DrainInv
  BY DEF BodyInv, WorkerInv
<1>1. UNCHANGED <<calls, pc>> /\ faulted' = faulted
  BY DEF ComControl, ThreadInit, LoopSwap, DrainSwap, SwapQueue, StartTask, BatchDone,
         PumpMessages, WaitEnds, DrainDone, ThreadExits, FinishTask, flags
<1>2. OnceInv' /\ Open' \ {NoTask} \subseteq Open /\ (Open' \union done') \ {NoTask} \subseteq Open \union done
  <2>1. CASE LoopSwap \/ DrainSwap
    <3>1. batch = <<>> /\ batch' = queue /\ queue' = <<>> /\ UNCHANGED <<current, done>>
      BY <1>0, <2>1 DEF LoopSwap, DrainSwap, SwapQueue, ComMoves, DrainInv
    <3>2. Elements(batch) = {} /\ Elements(queue') = {} /\ Distinct(queue')
      BY <3>1, EmptyElements
    <3>3. Elements(batch') = Elements(queue) /\ Distinct(batch')
      BY <1>0, <3>1 DEF OnceInv
    <3> QED
      BY <1>0, <3>1, <3>2, <3>3 DEF OnceInv, Open
  <2>2. CASE StartTask
    <3>1. /\ current = NoTask /\ batch # <<>> /\ current' = Head(batch) /\ batch' = Tail(batch)
          /\ UNCHANGED <<queue, done>>
      BY <2>2 DEF StartTask
    <3>2. /\ Head(batch) \in Elements(batch) /\ Distinct(batch')
          /\ Elements(batch') = Elements(batch) \ {Head(batch)}
      BY <1>0, <3>1, TailElements DEF OnceInv, TypeOK
    <3> QED
      BY <1>0, <3>1, <3>2 DEF OnceInv, Open
  <2>3. CASE FinishTask
    <3>1. /\ current # NoTask /\ current' = NoTask /\ done' = done \union {current}
          /\ UNCHANGED <<queue, batch>>
      BY <2>3 DEF FinishTask
    <3>2. NoTask \notin Task /\ current \in Task
      BY <1>0, <3>1, WorkerAssumption DEF TypeOK
    <3>3. Elements(queue) \subseteq Task /\ Elements(batch) \subseteq Task
      BY <1>0, ElementOfSeq DEF TypeOK, Elements
    <3> QED
      BY <1>0, <3>1, <3>2, <3>3 DEF OnceInv, Open
  <2>4. CASE ThreadInit \/ BatchDone \/ PumpMessages \/ WaitEnds \/ DrainDone \/ ThreadExits
    <3>1. UNCHANGED <<queue, batch, current, done>>
      BY <2>4 DEF ThreadInit, BatchDone, PumpMessages, WaitEnds, DrainDone, ThreadExits, queues
    <3> QED
      BY <1>0, <3>1, StillOnce
  <2> QED
    BY <2>1, <2>2, <2>3, <2>4 DEF ComControl
<1>3. \A c \in Callers, k \in 1..MaxCalls : <<c, k>> # NoTask
  BY WorkerAssumption DEF Task
<1>4. PostedInv'
  BY <1>0, <1>1, <1>2, <1>3 DEF PostedInv
<1>5. WaitingInv'
  BY <1>0, <1>1, <1>2, <1>3 DEF WaitingInv
<1> QED
  BY <1>2, <1>4, <1>5

THEOREM BodyInvariant == Spec => []BodyInv
<1>1. Init => BodyInv
  <2> SUFFICES ASSUME Init PROVE BodyInv
    OBVIOUS
  <2>1. Elements(queue) = {} /\ Elements(batch) = {} /\ Distinct(queue) /\ Distinct(batch)
    BY EmptyElements DEF Init
  <2>2. Open = {NoTask} /\ done = {} /\ current = NoTask
    BY <2>1 DEF Open, Init
  <2>3. \A c \in Callers, k \in 1..MaxCalls : <<c, k>> # NoTask
    BY WorkerAssumption DEF Task
  <2> QED
    BY <2>1, <2>2, <2>3, InitWorkerInv DEF BodyInv, OnceInv, PostedInv, WaitingInv
<1>2. BodyInv /\ [Next]_vars => BodyInv'
  <2> SUFFICES ASSUME BodyInv, [Next]_vars PROVE BodyInv'
    OBVIOUS
  <2>0. WorkerInv /\ CallsInv /\ OnceInv /\ PostedInv /\ WaitingInv
    BY DEF BodyInv
  <2>1. WorkerInv' /\ CallsInv'
    BY <2>0, WorkerStep
  <2>2. CASE Owner \/ UNCHANGED vars
    <3>1. UNCHANGED <<queue, batch, current, done, pc, calls, faulted>>
      BY <2>2 DEF Owner, StartThread, StartReturns, StopBegins, StopPostsQuit, StopJoins,
                  StopReturns, vars, flags, queues
    <3>2. OnceInv' /\ Open' = Open
      BY <2>0, <3>1, StillOnce
    <3> QED
      BY <2>0, <2>1, <3>1, <3>2 DEF BodyInv, PostedInv, WaitingInv
  <2>3. CASE \E c \in Callers : Caller(c)
    BY <2>1, <2>3, CallerKeepsBody DEF BodyInv
  <2>4. CASE ComControl \/ FinishTask
    BY <2>1, <2>4, ComKeepsBody DEF BodyInv
  <2> QED
    BY <2>2, <2>3, <2>4 DEF Next
<1> QED
  BY <1>1, <1>2, PTL DEF Spec

(* A COM body that runs after its caller has gone, with references to what *)
(* was on that caller's stack, does so under a recorded fault only.        *)
THEOREM WorkerBodyHasItsCaller == Spec => []BodyHasItsCaller
<1>1. BodyInv => BodyHasItsCaller
  BY DEF BodyInv, WaitingInv, Open, BodyHasItsCaller
<1> QED
  BY <1>1, BodyInvariant, PTL
=============================================================================
