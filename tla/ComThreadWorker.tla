--------------------------- MODULE ComThreadWorker ---------------------------
(***************************************************************************)
(* core/com_thread_worker: the one STA thread on which every JV-Link COM   *)
(* call runs.  HTTP threads submit tasks with invokeTask and wait for      *)
(* them; the owner (JVLinkWrapper) starts and stops the thread.            *)
(*                                                                         *)
(* Steps are cut where another thread can get in between: the unlocked     *)
(* test of postTask, the test under m_taskMutex, the push that releases    *)
(* the mutex, the two stores of recordFault, the stores and the join of    *)
(* stop, and each phase of the message loop.                               *)
(*                                                                         *)
(* The three flags a gate reads are monotone while callers exist (running  *)
(* and accepting only fall, faulted only rises), so three loads that all   *)
(* pass are as good as one at the moment of the first: a gate is one step. *)
(* m_wakeEvent only shortens a wait that ends after 100 ms by itself; it   *)
(* is left out, and so are the messages of the pump that are not WM_QUIT.  *)
(***************************************************************************)
EXTENDS Naturals, Sequences

CONSTANTS
  Callers,    (* threads that call invokeTask                              *)
  Timed,      (* those that pass a timeout > 0; ~JVLinkWrapper passes none *)
  MaxCalls,   (* bound: calls one thread makes                             *)
  NoTask

Task == Callers \X (1..MaxCalls)
NoOne == NoTask

ASSUME WorkerAssumption ==
  /\ Timed \subseteq Callers
  /\ MaxCalls \in Nat
  /\ NoTask \notin Task
  /\ NoTask \notin Callers

VARIABLES
  running, accepting, faulted,   (* the atomics of the class               *)
  mutex,      (* holder of m_taskMutex                                     *)
  queue,      (* m_taskQueue                                               *)
  batch,      (* the local queue executeQueuedTasks has swapped out        *)
  current,    (* the task whose body is running on the STA thread          *)
  done,       (* tasks whose promise is set                                *)
  quitPosted, (* WM_QUIT is in the thread's message queue                  *)
  comPc,      (* where the STA thread is                                   *)
  ownerPc,    (* where the owner is in start() and stop()                  *)
  pc,         (* where each caller is in invokeTask                        *)
  calls       (* calls each caller has begun                               *)

flags == <<running, accepting, faulted>>
queues == <<mutex, queue, batch, current, done>>
vars == <<flags, queues, quitPosted, comPc, ownerPc, pc, calls>>

TaskOf(c) == <<c, calls[c]>>

ComPcs == {"none", "starting", "loop", "run", "pump", "wait",
           "quit", "drain", "leaving", "exited"}
OwnerPcs == {"new", "starting", "up", "failed", "stopping", "joining", "joined", "stopped"}
CallerPcs == {"idle", "enter", "lock", "push", "waiting", "faulting"}

Init ==
  /\ running = FALSE /\ accepting = FALSE /\ faulted = FALSE
  /\ mutex = NoOne
  /\ queue = <<>> /\ batch = <<>> /\ current = NoTask /\ done = {}
  /\ quitPosted = FALSE
  /\ comPc = "none" /\ ownerPc = "new"
  /\ pc = [c \in Callers |-> "idle"]
  /\ calls = [c \in Callers |-> 0]

-----------------------------------------------------------------------------
(* The owner.  No caller exists before start() has returned: it runs in    *)
(* the constructor of JVLinkWrapper.                                       *)

StartThread ==
  /\ ownerPc = "new" /\ ~running
  /\ running' = TRUE /\ accepting' = TRUE
  /\ comPc' = "starting" /\ ownerPc' = "starting"
  /\ UNCHANGED <<faulted, queues, quitPosted, pc, calls>>

StartReturns ==
  /\ ownerPc = "starting"
  /\ \/ comPc \notin {"starting", "exited"} /\ ownerPc' = "up" /\ UNCHANGED flags
     \/ /\ comPc = "exited" /\ ownerPc' = "failed"
        /\ accepting' = FALSE /\ UNCHANGED <<running, faulted>>
  /\ UNCHANGED <<queues, quitPosted, comPc, pc, calls>>

StopBegins ==
  /\ ownerPc = "up"
  /\ accepting' = FALSE
  /\ ownerPc' = "stopping"
  /\ UNCHANGED <<running, faulted, queues, quitPosted, comPc, pc, calls>>

StopPostsQuit ==
  /\ ownerPc = "stopping"
  /\ quitPosted' = TRUE
  /\ ownerPc' = "joining"
  /\ UNCHANGED <<flags, queues, comPc, pc, calls>>

StopJoins ==
  /\ ownerPc = "joining" /\ comPc = "exited"
  /\ ownerPc' = "joined"
  /\ UNCHANGED <<flags, queues, quitPosted, comPc, pc, calls>>

StopReturns ==
  /\ ownerPc = "joined"
  /\ running' = FALSE
  /\ ownerPc' = "stopped"
  /\ UNCHANGED <<accepting, faulted, queues, quitPosted, comPc, pc, calls>>

Owner == StartThread \/ StartReturns \/ StopBegins \/ StopPostsQuit \/ StopJoins \/ StopReturns

-----------------------------------------------------------------------------
(* invokeTask on a thread that is not the STA thread.                      *)

Gate == running /\ accepting /\ ~faulted

Goto(c, from, to) == pc[c] = from /\ pc' = [pc EXCEPT ![c] = to]

(* A closed worker or a recorded fault makes invokeTask throw at once.     *)
BeginInvoke(c) ==
  /\ ownerPc \notin {"new", "starting"}
  /\ calls[c] < MaxCalls
  /\ calls' = [calls EXCEPT ![c] = @ + 1]
  /\ Goto(c, "idle", IF running /\ ~faulted THEN "enter" ELSE "idle")
  /\ UNCHANGED <<flags, queues, quitPosted, comPc, ownerPc>>

(* postTask before the lock.                                               *)
PostUnlockedTest(c) ==
  /\ Goto(c, "enter", IF Gate THEN "lock" ELSE "idle")
  /\ UNCHANGED <<flags, queues, quitPosted, comPc, ownerPc, calls>>

(* Slip: the flags are not read again under the mutex.                     *)
PostLockedBlindly(c) ==
  /\ mutex = NoOne
  /\ Goto(c, "lock", "push")
  /\ mutex' = c
  /\ UNCHANGED <<flags, queue, batch, current, done, quitPosted, comPc, ownerPc, calls>>

(* postTask takes m_taskMutex and reads the same three flags again.        *)
PostLockedTest(c) ==
  /\ mutex = NoOne
  /\ Goto(c, "lock", IF Gate THEN "push" ELSE "idle")
  /\ mutex' = IF Gate THEN c ELSE NoOne
  /\ UNCHANGED <<flags, queue, batch, current, done, quitPosted, comPc, ownerPc, calls>>

PostPush(c) ==
  /\ Goto(c, "push", "waiting")
  /\ queue' = Append(queue, TaskOf(c))
  /\ mutex' = NoOne
  /\ UNCHANGED <<flags, batch, current, done, quitPosted, comPc, ownerPc, calls>>

GetResult(c) ==
  /\ TaskOf(c) \in done
  /\ Goto(c, "waiting", "idle")
  /\ UNCHANGED <<flags, queues, quitPosted, comPc, ownerPc, calls>>

(* Slip: the watchdog covers the running body, not the time in the queue.  *)
RunningTimesOut(c) ==
  /\ c \in Timed
  /\ current = TaskOf(c)
  /\ Goto(c, "waiting", "faulting")
  /\ faulted' = TRUE
  /\ UNCHANGED <<running, accepting, queues, quitPosted, comPc, ownerPc, calls>>

(* Slip: the caller is told of the timeout before the fault is recorded.   *)
ThrowsFirst(c) ==
  /\ c \in Timed
  /\ TaskOf(c) \notin done
  /\ Goto(c, "waiting", "faulting")
  /\ UNCHANGED <<flags, queues, quitPosted, comPc, ownerPc, calls>>

(* wait_for has run out: recordFault, and the exception to the caller.     *)
WaitTimesOut(c) ==
  /\ c \in Timed
  /\ TaskOf(c) \notin done
  /\ Goto(c, "waiting", "faulting")
  /\ faulted' = TRUE
  /\ UNCHANGED <<running, accepting, queues, quitPosted, comPc, ownerPc, calls>>

FaultClosesGate(c) ==
  /\ Goto(c, "faulting", "idle")
  /\ accepting' = FALSE
  /\ UNCHANGED <<running, faulted, queues, quitPosted, comPc, ownerPc, calls>>

Caller(c) ==
  \/ BeginInvoke(c) \/ PostUnlockedTest(c) \/ PostLockedTest(c) \/ PostPush(c)
  \/ GetResult(c) \/ WaitTimesOut(c) \/ FaultClosesGate(c)

-----------------------------------------------------------------------------
(* The STA thread.                                                         *)

ComMoves(from, to) == comPc = from /\ comPc' = to

(* CoInitializeEx may fail; the thread then ends at once.                  *)
ThreadInit ==
  /\ comPc = "starting"
  /\ \/ comPc' = "loop" /\ UNCHANGED flags
     \/ comPc' = "exited" /\ running' = FALSE /\ accepting' = FALSE /\ UNCHANGED faulted
  /\ UNCHANGED <<queues, quitPosted, ownerPc, pc, calls>>

(* Slip: the queue is copied, not swapped.                                 *)
CopyQueue(from, to) ==
  /\ ComMoves(from, to)
  /\ mutex = NoOne
  /\ batch' = queue
  /\ UNCHANGED <<flags, mutex, queue, current, done, quitPosted, ownerPc, pc, calls>>

(* executeQueuedTasks: the whole queue is swapped out under the mutex.     *)
SwapQueue(from, to) ==
  /\ ComMoves(from, to)
  /\ mutex = NoOne
  /\ batch' = queue /\ queue' = <<>>
  /\ UNCHANGED <<flags, mutex, current, done, quitPosted, ownerPc, pc, calls>>

LoopSwap == running /\ SwapQueue("loop", "run")
DrainSwap == SwapQueue("quit", "drain")

StartTask ==
  /\ comPc \in {"run", "drain"}
  /\ current = NoTask /\ batch # <<>>
  /\ current' = Head(batch) /\ batch' = Tail(batch)
  /\ UNCHANGED <<flags, mutex, queue, done, quitPosted, comPc, ownerPc, pc, calls>>

(* The body returns or throws; either way it sets the promise.             *)
FinishTask ==
  /\ current # NoTask
  /\ done' = done \union {current}
  /\ current' = NoTask
  /\ UNCHANGED <<flags, mutex, queue, batch, quitPosted, comPc, ownerPc, pc, calls>>

BatchDone ==
  /\ current = NoTask /\ batch = <<>>
  /\ ComMoves("run", "pump")
  /\ UNCHANGED <<flags, queues, quitPosted, ownerPc, pc, calls>>

(* Slip: WM_QUIT is dispatched like any other message.                     *)
PumpIgnoresQuit ==
  /\ ComMoves("pump", "wait")
  /\ UNCHANGED <<flags, queues, quitPosted, ownerPc, pc, calls>>

(* PeekMessage: WM_QUIT, or nothing more to dispatch.                      *)
PumpMessages ==
  /\ ComMoves("pump", IF quitPosted THEN "quit" ELSE "wait")
  /\ UNCHANGED <<flags, queues, quitPosted, ownerPc, pc, calls>>

WaitEnds ==
  /\ ComMoves("wait", "loop")
  /\ UNCHANGED <<flags, queues, quitPosted, ownerPc, pc, calls>>

DrainDone ==
  /\ current = NoTask /\ batch = <<>>
  /\ ComMoves("drain", "leaving")
  /\ running' = FALSE
  /\ UNCHANGED <<accepting, faulted, queues, quitPosted, ownerPc, pc, calls>>

ThreadExits ==
  /\ ComMoves("leaving", "exited")
  /\ UNCHANGED <<flags, queues, quitPosted, ownerPc, pc, calls>>

ComControl ==
  \/ ThreadInit \/ LoopSwap \/ DrainSwap \/ StartTask
  \/ BatchDone \/ PumpMessages \/ WaitEnds \/ DrainDone \/ ThreadExits

-----------------------------------------------------------------------------
Next ==
  \/ Owner
  \/ \E c \in Callers : Caller(c)
  \/ ComControl
  \/ FinishTask

Spec == Init /\ [][Next]_vars

(* The threads are scheduled and timeouts run out.  Nothing makes a COM    *)
(* call return: FinishTask is not fair here.                               *)
CodeFairness ==
  /\ WF_vars(StartThread \/ StartReturns)
  /\ WF_vars(StopPostsQuit \/ StopJoins \/ StopReturns)
  /\ WF_vars(ComControl)
  /\ \A c \in Callers :
       WF_vars(PostUnlockedTest(c) \/ PostLockedTest(c) \/ PostPush(c)
               \/ GetResult(c) \/ WaitTimesOut(c) \/ FaultClosesGate(c))

FairSpec == Spec /\ CodeFairness

-----------------------------------------------------------------------------
(* The flags, queues and program counters range over the values of their   *)
(* C++ types.                                                              *)
TypeOK ==
  /\ running \in BOOLEAN /\ accepting \in BOOLEAN /\ faulted \in BOOLEAN
  /\ mutex \in Callers \union {NoOne}
  /\ queue \in Seq(Task) /\ batch \in Seq(Task)
  /\ current \in Task \union {NoTask}
  /\ done \subseteq Task
  /\ quitPosted \in BOOLEAN
  /\ comPc \in ComPcs /\ ownerPc \in OwnerPcs
  /\ pc \in [Callers -> CallerPcs]
  /\ calls \in [Callers -> 0..MaxCalls]

(* No task that postTask accepted is left in a queue when the STA thread   *)
(* has ended: its caller would wait for ever if it passed no timeout.      *)
NothingStranded ==
  comPc = "exited" => queue = <<>> /\ batch = <<>> /\ current = NoTask

(* A body uses references to what its caller has on the stack (jvGets in   *)
(* queryStored): while it runs its caller waits for it, or the worker has  *)
(* recorded a fault, so that nothing more is read from JV-Link.            *)
BodyHasItsCaller ==
  \A c \in Callers, k \in 1..MaxCalls :
    current = <<c, k>> => faulted \/ (pc[c] = "waiting" /\ calls[c] = k)

(* The worker seen as that executor: both its queues are one.              *)
Executor == INSTANCE TaskExecutor WITH
  pending <- batch \o queue,
  closed <- comPc = "exited"

(* The worker is a serial first-in first-out executor that closes only     *)
(* when it has run all it accepted (executeQueuedTasks twice, the gate     *)
(* read again under the mutex).                                            *)
ImplementsExecutor == Executor!Spec

(* What the code cannot see to: every COM call comes back.                 *)
JVLinkAnswers == WF_vars(FinishTask)

(* A call with a timeout ends, whatever the COM call does (invokeTask's    *)
(* wait_for and recordFault).                                              *)
TimedCallsReturn == \A c \in Timed : pc[c] # "idle" ~> pc[c] = "idle"

(* If COM calls return, so does every invokeTask, also the ones that race  *)
(* with stop() and pass no timeout, and stop() itself: WM_QUIT is found    *)
(* and the drain ends.                                                     *)
CallsAndStopReturn ==
  JVLinkAnswers =>
    /\ \A c \in Callers : pc[c] # "idle" ~> pc[c] = "idle"
    /\ ownerPc = "stopping" ~> ownerPc = "stopped"
=============================================================================
