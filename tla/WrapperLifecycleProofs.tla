----------------------- MODULE WrapperLifecycleProofs -----------------------
(***************************************************************************)
(* That a destroyed wrapper has been released and that event_watch_active  *)
(* is honest, for any number of /event/start, /event/stop and queries.     *)
(* What is on the COM thread is told by sets: what waits or runs, and what *)
(* was posted.                                                             *)
(***************************************************************************)
EXTENDS WrapperLifecycle, SequenceTheorems, TLAPS

USE DEF Requests

Waiting == {pending[i] : i \in 1..Len(pending)}
Outstanding == Waiting \union (IF task = Idle THEN {} ELSE {task})
Posted == Outstanding \union ended

(* No task is in two places.                                               *)
QueueInv ==
  /\ \A i, j \in 1..Len(pending) : pending[i] = pending[j] => i = j
  /\ task \notin Waiting
  /\ Outstanding \intersect ended = {}

SettingUp == {"constructed", "creating", "initing", "cleaning", "closing"}
Late == {"leaving", "destroying", "joining", "gone", "crashed"}

(* Each task is posted at one place of one thread, so at most once.        *)
PostedInv ==
  /\ "create" \in Posted => main # "constructed"
  /\ "init" \in Posted => main \notin {"constructed", "creating"}
  /\ "cleanup" \in Posted \/ "initial_close" \in Posted =>
       main \notin {"constructed", "creating", "initing"}
  /\ "connect" \in Posted => main \notin SettingUp
  /\ "shutdown" \in Posted =>
       stopThread \in {"calls", "done"} \/ (stopThread = "no" /\ main \in Late \union {"shutting"})
  /\ "destroy" \in Posted => main \in {"destroying", "joining", "gone", "crashed"}
  /\ \A r \in Requests : r \in Posted => at[r] # "new"
  /\ stopThread # "no" => main \in Late \union {"listening"}

(* What may still make an instance is waited for or given up as faulted;   *)
(* the wrapper is destroyed only when it is not, and without the cleanup   *)
(* only when its COM thread is.                                            *)
ReleaseInv ==
  /\ "create" \in Outstanding => main = "creating" \/ isFaulted
  /\ main \in {"destroying", "joining"} => ~isFaulted
  /\ main = "joining" => "destroy" \in ended \/ workerFaulted
  /\ "destroy" \in ended => ~instance /\ ~sink
  /\ owned = "destroyed" =>
       /\ main = "gone" /\ pending = <<>> /\ task = Idle
       /\ "destroy" \in ended \/ workerFaulted

(* The request that has the lock is the only one that JV-Link may have     *)
(* followed without the flag's having followed, too.                       *)
WatchInv ==
  /\ \A r \in Requests : at[r] \in {"calls", "returned"} <=> lock = r
  /\ main \in SettingUp => (\A r \in Requests : at[r] = "new") /\ ~active /\ ~watches
  /\ ~isFaulted => \A r \in Watchers : r \in Outstanding => at[r] = "calls"
  /\ initialized /\ ~isFaulted =>
       /\ \A r \in Watchers : lock = r /\ r \in succeeded => watches = (r \in Starters)
       /\ (\A r \in Watchers : lock = r => r \notin succeeded) => active = watches

WrapperInv == WrapperTypes /\ QueueInv /\ PostedInv /\ ReleaseInv /\ WatchInv

-----------------------------------------------------------------------------
(* The executor, in sets.                                                  *)
LEMMA TaskStarts ==
  ASSUME WrapperTypes, QueueInv, ComThread!StartOldest
  PROVE  /\ QueueInv' /\ Outstanding' = Outstanding /\ Posted' = Posted
         /\ UNCHANGED <<ended, closed>> /\ pending' \in Seq(WrapperTask) /\ task' \in WrapperTask
<1>1. /\ task = Idle /\ pending # <<>> /\ pending \in Seq(WrapperTask) /\ ended \subseteq WrapperTask
      /\ task' = Head(pending) /\ pending' = Tail(pending) /\ UNCHANGED <<ended, closed>>
  BY DEF ComThread!StartOldest, WrapperTypes
<1>2. /\ Tail(pending) \in Seq(WrapperTask) /\ Len(Tail(pending)) = Len(pending) - 1
      /\ \A i \in 1..Len(Tail(pending)) : Tail(pending)[i] = pending[i + 1]
      /\ Head(pending) \in WrapperTask /\ Head(pending) = pending[1]
      /\ Len(pending) \in Nat /\ Len(pending) >= 1
  BY <1>1, HeadTailProperties, EmptySeq
<1>3. Idle \notin WrapperTask BY WatcherAssumption DEF Idle, WrapperTask, Setup
<1>4. Waiting = Waiting' \union {task'} /\ task' \notin Waiting'
  <2>1. \A x : x \in Waiting => x \in Waiting' \/ x = task'
    <3> SUFFICES ASSUME NEW i \in 1..Len(pending) PROVE pending[i] \in Waiting' \/ pending[i] = task'
      BY DEF Waiting
    <3>1. CASE i = 1 BY <1>1, <1>2, <3>1
    <3>2. CASE i # 1
      <4>1. i - 1 \in 1..Len(pending') /\ pending'[i - 1] = pending[i] BY <1>1, <1>2, <3>2
      <4> QED BY <4>1 DEF Waiting
    <3> QED BY <3>1, <3>2
  <2>2. \A x : x \in Waiting' => x \in Waiting /\ x # task'
    <3> SUFFICES ASSUME NEW i \in 1..Len(pending') PROVE pending'[i] \in Waiting /\ pending'[i] # task'
      BY DEF Waiting
    <3>1. i + 1 \in 1..Len(pending) /\ pending'[i] = pending[i + 1] BY <1>1, <1>2
    <3>2. 1 \in 1..Len(pending) /\ i + 1 # 1 BY <1>2
    <3>3. pending[i + 1] # pending[1] BY <3>1, <3>2 DEF QueueInv
    <3> QED BY <1>1, <1>2, <3>1, <3>3 DEF Waiting
  <2>3. task' \in Waiting BY <1>1, <1>2 DEF Waiting
  <2> QED BY <2>1, <2>2, <2>3
<1>5. Outstanding' = Outstanding BY <1>1, <1>2, <1>3, <1>4 DEF Outstanding
<1>6. \A i, j \in 1..Len(pending') : pending'[i] = pending'[j] => i = j
  <2> SUFFICES ASSUME NEW i \in 1..Len(pending'), NEW j \in 1..Len(pending'),
                      pending'[i] = pending'[j]
               PROVE  i = j
    OBVIOUS
  <2>1. /\ i + 1 \in 1..Len(pending) /\ j + 1 \in 1..Len(pending)
        /\ pending[i + 1] = pending[j + 1]
    BY <1>1, <1>2
  <2>2. i + 1 = j + 1 BY <2>1 DEF QueueInv
  <2> QED BY <1>1, <1>2, <2>2
<1> QED BY <1>1, <1>2, <1>4, <1>5, <1>6 DEF QueueInv, Posted

(* A task that has ended is not outstanding any more.                      *)
LEMMA TaskFinishes ==
  ASSUME WrapperTypes, QueueInv, ComThread!Finish
  PROVE  /\ QueueInv' /\ Outstanding' = Outstanding \ {task} /\ Posted' = Posted
         /\ task \in WrapperTask /\ task \in Outstanding /\ task \notin ended
         /\ ended' = ended \union {task} /\ task' = Idle /\ UNCHANGED <<pending, closed>>
<1>1. /\ task # Idle /\ task \in WrapperTask /\ ended' = ended \union {task} /\ task' = Idle
      /\ UNCHANGED <<pending, closed>> /\ Waiting' = Waiting
  BY DEF ComThread!Finish, WrapperTypes, Waiting
<1>2. /\ task \notin Waiting /\ task \in Outstanding /\ task \notin ended
      /\ Outstanding = Waiting \union {task} /\ Outstanding' = Waiting
  BY <1>1 DEF QueueInv, Outstanding
<1>3. Idle \notin Waiting'
  <2>1. Idle \notin WrapperTask BY WatcherAssumption DEF Idle, WrapperTask, Setup
  <2> QED BY <1>1, <2>1 DEF WrapperTypes, Waiting
<1> QED BY <1>1, <1>2, <1>3 DEF QueueInv, Posted

(* A task that was never posted joins the queue.                           *)
LEMMA TaskAccepted ==
  ASSUME WrapperTypes, QueueInv,
         NEW t \in WrapperTask, t \notin Posted, ComThread!Accept(t)
  PROVE  /\ QueueInv' /\ Outstanding' = Outstanding \union {t} /\ Posted' = Posted \union {t}
         /\ pending' \in Seq(WrapperTask) /\ pending' # <<>> /\ UNCHANGED <<task, ended, closed>>
<1>1. /\ pending \in Seq(WrapperTask) /\ pending' = Append(pending, t) /\ UNCHANGED <<task, ended, closed>>
  BY DEF ComThread!Accept, WrapperTypes
<1>2. /\ pending' \in Seq(WrapperTask) /\ pending' # <<>> /\ Len(pending') = Len(pending) + 1
      /\ Len(pending) \in Nat
      /\ \A i \in 1..Len(pending) : pending'[i] = pending[i]
      /\ pending'[Len(pending) + 1] = t
  BY <1>1, AppendProperties
<1>3. t # Idle BY WatcherAssumption DEF Idle, WrapperTask, Setup
<1>4. Waiting' = Waiting \union {t}
  <2>1. \A x : x \in Waiting' => x \in Waiting \/ x = t
    <3> SUFFICES ASSUME NEW i \in 1..Len(pending') PROVE pending'[i] \in Waiting \/ pending'[i] = t
      BY DEF Waiting
    <3> QED BY <1>2 DEF Waiting
  <2>2. \A x : x \in Waiting => x \in Waiting'
    <3> SUFFICES ASSUME NEW i \in 1..Len(pending) PROVE pending[i] \in Waiting'
      BY DEF Waiting
    <3>1. i \in 1..Len(pending') /\ pending'[i] = pending[i] BY <1>2
    <3> QED BY <3>1 DEF Waiting
  <2>3. t \in Waiting'
    <3>1. Len(pending) + 1 \in 1..Len(pending') BY <1>2
    <3> QED BY <1>2, <3>1 DEF Waiting
  <2> QED BY <2>1, <2>2, <2>3
<1>5. t \notin Waiting /\ t # task /\ t \notin ended BY <1>3 DEF Posted, Outstanding
<1>6. \A i, j \in 1..Len(pending') : pending'[i] = pending'[j] => i = j
  <2>1. \A i \in 1..Len(pending) : pending[i] # t BY <1>5 DEF Waiting
  <2> QED BY <1>2, <2>1 DEF QueueInv
<1>7. Outstanding' = Outstanding \union {t} BY <1>1, <1>4 DEF Outstanding
<1> QED BY <1>1, <1>2, <1>4, <1>5, <1>6, <1>7 DEF QueueInv, Posted

-----------------------------------------------------------------------------
(* Before initialize() only the first attempt to connect is posted.        *)
LEMMA WrapperInitEstablishesInv ==
  ASSUME WrapperInit
  PROVE  WrapperInv
<1>1. /\ pending = <<"first_connect">> /\ Len(pending) = 1 /\ task = Idle /\ ended = {}
      /\ "first_connect" \in WrapperTask
  BY DEF WrapperInit, WrapperTask, Setup
<1>2. pending \in Seq(WrapperTask)
  <2>1. <<>> \in Seq(WrapperTask) BY EmptySeq
  <2>2. Append(<<>>, "first_connect") \in Seq(WrapperTask) BY <1>1, <2>1, AppendProperties
  <2> QED BY <1>1, <2>2
<1>3. Waiting = {"first_connect"} /\ Outstanding = Waiting /\ Posted = Waiting
  BY <1>1 DEF Waiting, Outstanding, Posted
<1>4. \A r \in Requests : r # "first_connect" /\ r # "none"
  BY WatcherAssumption DEF Setup
<1>5. WrapperTypes BY <1>1, <1>2 DEF WrapperInit, WrapperTypes
<1>6. QueueInv BY <1>1, <1>3 DEF QueueInv, Idle
<1>7. PostedInv BY <1>1, <1>3, <1>4 DEF WrapperInit, PostedInv
<1>8. ReleaseInv BY <1>1, <1>3 DEF WrapperInit, ReleaseInv
<1>9. WatchInv BY <1>1, <1>3, <1>4 DEF WrapperInit, WatchInv, Idle
<1> QED BY <1>5, <1>6, <1>7, <1>8, <1>9 DEF WrapperInv

(* The COM thread takes a task.                                            *)
LEMMA BeginTaskKeepsInv ==
  ASSUME WrapperInv, BeginTask
  PROVE  WrapperInv'
<1>0. WrapperTypes /\ QueueInv /\ PostedInv /\ ReleaseInv /\ WatchInv BY DEF WrapperInv
<1>1. /\ QueueInv' /\ Outstanding' = Outstanding /\ Posted' = Posted
      /\ UNCHANGED <<ended, closed>> /\ pending' \in Seq(WrapperTask) /\ task' \in WrapperTask
  BY <1>0, TaskStarts DEF BeginTask
<1>2. /\ UNCHANGED <<main, stopThread, owned, health, jvObjects, handlers, succeeded>> /\ Runs
  BY DEF BeginTask
<1>3. WrapperTypes'
  BY <1>0, <1>1, <1>2 DEF WrapperTypes, health, jvObjects, handlers
<1>4. PostedInv' BY <1>0, <1>1, <1>2 DEF PostedInv, handlers
<1>5. ReleaseInv' BY <1>0, <1>1, <1>2 DEF ReleaseInv, health, jvObjects, Runs
<1>6. WatchInv' BY <1>0, <1>1, <1>2 DEF WatchInv, health, jvObjects, handlers
<1> QED BY <1>1, <1>3, <1>4, <1>5, <1>6 DEF WrapperInv

(* A task ends, with the effect it has.                                    *)
LEMMA EndTaskKeepsInv ==
  ASSUME WrapperInv, EndTask
  PROVE  WrapperInv'
<1>0. WrapperTypes /\ QueueInv /\ PostedInv /\ ReleaseInv /\ WatchInv BY DEF WrapperInv
<1>1. /\ QueueInv' /\ Outstanding' = Outstanding \ {task} /\ Posted' = Posted
      /\ task \in WrapperTask /\ task \in Outstanding /\ task \notin ended
      /\ ended' = ended \union {task} /\ task' = Idle /\ UNCHANGED <<pending, closed>>
  BY <1>0, TaskFinishes DEF EndTask
<1>2. UNCHANGED <<main, stopThread, owned, lock, at>> /\ Runs
  BY DEF EndTask, handlers
<1>3. \A r \in Requests : r \notin Setup \union {"shutdown", "destroy", "none"}
  BY WatcherAssumption
<1>4. /\ succeeded' \subseteq succeeded \union {task} /\ UNCHANGED <<isFaulted, workerFaulted>>
      /\ instance' \in BOOLEAN /\ sink' \in BOOLEAN /\ watches' \in BOOLEAN
      /\ initialized' \in BOOLEAN /\ active' \in BOOLEAN
  <2>0. {instance, sink, initialized, isFaulted, workerFaulted, active, watches, closed} \subseteq BOOLEAN
    BY <1>0 DEF WrapperTypes
  <2>1. CASE Connects(task) BY <2>0, <2>1 DEF Connects, health
  <2>2. CASE Creates(task) BY <2>0, <2>2 DEF Creates, health
  <2>3. CASE CallsJVLink(task) BY <2>0, <2>3 DEF CallsJVLink, health, jvObjects
  <2>4. CASE Releases(task) BY <2>0, <2>4 DEF Releases, ShutdownOnComThread
  <2>5. CASE Watches(task)
    <3>1. watches' \in BOOLEAN
      <4>1. CASE watches' = watches BY <2>0, <4>1
      <4>2. CASE watches' = (task \in Starters) BY <4>2
      <4> QED BY <2>5, <4>1, <4>2 DEF Watches
    <3>2. succeeded' \subseteq succeeded \union {task} BY <2>5 DEF Watches
    <3> QED BY <2>0, <2>5, <3>1, <3>2 DEF Watches, health
  <2> QED BY <2>1, <2>2, <2>3, <2>4, <2>5 DEF EndTask
<1>5. WrapperTypes'
  <2>1. {instance', sink', initialized', isFaulted', workerFaulted', active', watches', closed'}
          \subseteq BOOLEAN
    BY <1>0, <1>1, <1>4 DEF WrapperTypes
  <2>2. ended' \subseteq WrapperTask /\ succeeded' \subseteq ended'
    BY <1>0, <1>1, <1>4 DEF WrapperTypes
  <2> QED BY <1>0, <1>1, <1>2, <2>1, <2>2 DEF WrapperTypes
<1>6. PostedInv' BY <1>0, <1>1, <1>2 DEF PostedInv
<1>7. ReleaseInv'
  <2>1. "destroy" \in ended' => ~instance' /\ ~sink'
    <3>1. CASE task = "destroy"
      <4>1. Releases(task)
        BY <1>3, <3>1 DEF EndTask, Connects, Creates, CallsJVLink, Watches, Setup
      <4> QED BY <3>1, <4>1 DEF Releases, ShutdownOnComThread
    <3>2. CASE task # "destroy" /\ "destroy" \in ended
      <4>1. ~instance /\ ~sink BY <1>0, <3>2 DEF ReleaseInv
      <4>2. main \in {"destroying", "joining"} BY <1>0, <1>2, <3>2 DEF PostedInv, Posted, Runs
      <4>3. task # "create" BY <1>0, <1>1, <4>2 DEF ReleaseInv
      <4> QED
        BY <4>1, <4>3 DEF EndTask, Connects, Creates, CallsJVLink, Releases, Watches,
                          ShutdownOnComThread, jvObjects
    <3> QED BY <1>1, <3>1, <3>2
  <2> QED BY <1>0, <1>1, <1>2, <1>4, <2>1 DEF ReleaseInv, Runs
<1>8. WatchInv'
  <2>1. CASE task \in Watchers
    <3>1. Watches(task)
      <4>1. task \notin Queries BY <2>1, WatcherAssumption
      <4> QED BY <1>3, <2>1, <4>1 DEF EndTask, Connects, Creates, CallsJVLink, Releases, Setup
    <3>2. UNCHANGED <<initialized, isFaulted, active>> BY <3>1 DEF Watches, health
    <3>3. main \notin SettingUp
      BY <1>0, <1>1, <2>1 DEF PostedInv, Posted, WatchInv
    <3>4. task \notin succeeded BY <1>0, <1>1 DEF WrapperTypes
    <3>5. ~isFaulted => lock = task BY <1>0, <1>1, <2>1 DEF WatchInv
    <3>6. ASSUME initialized, ~isFaulted
          PROVE  /\ \A r \in Watchers : lock = r /\ r \in succeeded' => watches' = (r \in Starters)
                 /\ (\A r \in Watchers : lock = r => r \notin succeeded') => active = watches'
      <4>1. active = watches BY <1>0, <3>4, <3>5, <3>6 DEF WatchInv
      <4>2. CASE UNCHANGED <<watches, succeeded>> BY <3>4, <3>5, <3>6, <4>1, <4>2
      <4>3. CASE watches' = (task \in Starters) /\ succeeded' = succeeded \union {task}
        BY <2>1, <3>5, <3>6, <4>3
      <4> QED BY <3>1, <4>2, <4>3 DEF Watches
    <3> QED BY <1>0, <1>1, <1>2, <3>2, <3>3, <3>6 DEF WatchInv
  <2>2. CASE task \notin Watchers
    <3>1. /\ watches' = watches /\ isFaulted' = isFaulted
          /\ UNCHANGED <<initialized, active>> \/ (initialized' = FALSE /\ active' = FALSE)
      BY <2>2 DEF EndTask, Connects, Creates, CallsJVLink, Releases, Watches, ShutdownOnComThread,
                  health, jvObjects
    <3>2. \A r \in Watchers : r \in succeeded' <=> r \in succeeded
      BY <2>2 DEF EndTask, Connects, Creates, CallsJVLink, Releases, Watches
    <3> QED BY <1>0, <1>1, <1>2, <2>2, <3>1, <3>2 DEF WatchInv
  <2> QED BY <2>1, <2>2
<1> QED BY <1>1, <1>5, <1>6, <1>7, <1>8 DEF WrapperInv

(* A step that posts nothing, and one that posts a task for the first time.*)
LEMMA NothingPosted ==
  ASSUME QueueInv, UNCHANGED com
  PROVE  /\ QueueInv' /\ Outstanding' = Outstanding /\ Posted' = Posted
         /\ UNCHANGED <<pending, task, ended, closed, succeeded>>
BY DEF com, QueueInv, Waiting, Outstanding, Posted

LEMMA OnePosted ==
  ASSUME WrapperTypes, QueueInv, NEW t \in WrapperTask, t \notin Posted, Post(t)
  PROVE  /\ QueueInv' /\ Outstanding' = Outstanding \union {t} /\ Posted' = Posted \union {t}
         /\ pending' \in Seq(WrapperTask) /\ pending' # <<>>
         /\ UNCHANGED <<task, ended, closed, succeeded>>
BY TaskAccepted DEF Post

(* initialize(): the main thread posts one task after the other, or gives up.*)
LEMMA InitializingKeepsInv ==
  ASSUME WrapperInv, Initializing
  PROVE  WrapperInv'
<1> USE DEF Issue, GoOn, Step, Fault, health, jvObjects, handlers
<1>0. WrapperTypes /\ QueueInv /\ PostedInv /\ ReleaseInv /\ WatchInv BY DEF WrapperInv
<1>s. \A r \in Requests :
        r \notin {"first_connect", "create", "init", "cleanup", "initial_close", "connect",
                  "shutdown", "destroy", "none"}
  BY WatcherAssumption DEF Setup
<1>1. CASE Create
  <2> USE <1>0, <1>1 DEF Create
  <2>0. "create" \in WrapperTask /\ "create" \notin Posted
    BY DEF WrapperTask, Setup, PostedInv, QueueInv, SettingUp, Late, WrapperTypes
  <2>1. /\ QueueInv' /\ Outstanding' = Outstanding \union {"create"} /\ Posted' = Posted \union {"create"}
        /\ pending' \in Seq(WrapperTask) /\ pending' # <<>>
        /\ UNCHANGED <<task, ended, closed, succeeded>>
    BY <2>0, OnePosted
  <2>2. WrapperTypes' BY <2>1 DEF WrapperTypes
  <2>3. PostedInv' BY <2>1, <1>s DEF PostedInv, SettingUp, Late, WrapperTypes
  <2>4. ReleaseInv' BY <2>1, <1>s DEF ReleaseInv, PostedInv, QueueInv, Posted, Late
  <2>5. WatchInv' BY <2>1, <1>s DEF WatchInv, SettingUp
  <2> QED BY <2>1, <2>2, <2>3, <2>4, <2>5 DEF WrapperInv
<1>2. CASE "create" \in ended /\ Issue("init", "creating", "initing")
  <2> USE <1>0, <1>2
  <2>0. "init" \in WrapperTask /\ "init" \notin Posted
    BY DEF WrapperTask, Setup, PostedInv, QueueInv, SettingUp, Late, WrapperTypes
  <2>1. /\ QueueInv' /\ Outstanding' = Outstanding \union {"init"} /\ Posted' = Posted \union {"init"}
        /\ pending' \in Seq(WrapperTask) /\ pending' # <<>>
        /\ UNCHANGED <<task, ended, closed, succeeded>>
    BY <2>0, OnePosted
  <2>2. WrapperTypes' BY <2>1 DEF WrapperTypes
  <2>3. PostedInv' BY <2>1, <1>s DEF PostedInv, SettingUp, Late, WrapperTypes
  <2>4. ReleaseInv' BY <2>1, <1>s DEF ReleaseInv, PostedInv, QueueInv, Posted, Late
  <2>5. WatchInv' BY <2>1, <1>s DEF WatchInv, SettingUp
  <2> QED BY <2>1, <2>2, <2>3, <2>4, <2>5 DEF WrapperInv
<1>3. CASE "create" \in ended /\ GoOn("creating", "failed")
  <2> USE <1>0, <1>3
  <2>1. /\ QueueInv' /\ Outstanding' = Outstanding /\ Posted' = Posted
        /\ UNCHANGED <<pending, task, ended, closed, succeeded>>
    BY NothingPosted
  <2>2. WrapperTypes' BY <2>1 DEF WrapperTypes
  <2>3. PostedInv' BY <2>1 DEF PostedInv, SettingUp, Late, WrapperTypes
  <2>4. ReleaseInv' BY <2>1 DEF ReleaseInv, PostedInv, QueueInv, Posted, Late
  <2>5. WatchInv' BY <2>1, <1>s DEF WatchInv, SettingUp
  <2> QED BY <2>1, <2>2, <2>3, <2>4, <2>5 DEF WrapperInv
<1>4. CASE "init" \in ended /\ Issue("initial_close", "initing", "closing")
  <2> USE <1>0, <1>4
  <2>0. "initial_close" \in WrapperTask /\ "initial_close" \notin Posted
    BY DEF WrapperTask, Setup, PostedInv, QueueInv, SettingUp, Late, WrapperTypes
  <2>1. /\ QueueInv' /\ Outstanding' = Outstanding \union {"initial_close"} /\ Posted' = Posted \union {"initial_close"}
        /\ pending' \in Seq(WrapperTask) /\ pending' # <<>>
        /\ UNCHANGED <<task, ended, closed, succeeded>>
    BY <2>0, OnePosted
  <2>2. WrapperTypes' BY <2>1 DEF WrapperTypes
  <2>3. PostedInv' BY <2>1, <1>s DEF PostedInv, SettingUp, Late, WrapperTypes
  <2>4. ReleaseInv' BY <2>1, <1>s DEF ReleaseInv, PostedInv, QueueInv, Posted, Late
  <2>5. WatchInv' BY <2>1, <1>s DEF WatchInv, SettingUp
  <2> QED BY <2>1, <2>2, <2>3, <2>4, <2>5 DEF WrapperInv
<1>5. CASE "init" \in ended /\ Issue("cleanup", "initing", "cleaning")
  <2> USE <1>0, <1>5
  <2>0. "cleanup" \in WrapperTask /\ "cleanup" \notin Posted
    BY DEF WrapperTask, Setup, PostedInv, QueueInv, SettingUp, Late, WrapperTypes
  <2>1. /\ QueueInv' /\ Outstanding' = Outstanding \union {"cleanup"} /\ Posted' = Posted \union {"cleanup"}
        /\ pending' \in Seq(WrapperTask) /\ pending' # <<>>
        /\ UNCHANGED <<task, ended, closed, succeeded>>
    BY <2>0, OnePosted
  <2>2. WrapperTypes' BY <2>1 DEF WrapperTypes
  <2>3. PostedInv' BY <2>1, <1>s DEF PostedInv, SettingUp, Late, WrapperTypes
  <2>4. ReleaseInv' BY <2>1, <1>s DEF ReleaseInv, PostedInv, QueueInv, Posted, Late
  <2>5. WatchInv' BY <2>1, <1>s DEF WatchInv, SettingUp
  <2> QED BY <2>1, <2>2, <2>3, <2>4, <2>5 DEF WrapperInv
<1>6. CASE CleanedUp
  <2> USE <1>0, <1>6 DEF CleanedUp
  <2>1. /\ QueueInv' /\ Outstanding' = Outstanding /\ Posted' = Posted
        /\ UNCHANGED <<pending, task, ended, closed, succeeded>>
    BY NothingPosted
  <2>2. WrapperTypes' BY <2>1 DEF WrapperTypes
  <2>3. PostedInv' BY <2>1 DEF PostedInv, SettingUp, Late, WrapperTypes
  <2>4. ReleaseInv' BY <2>1 DEF ReleaseInv, PostedInv, QueueInv, Posted, Late
  <2>5. WatchInv' BY <2>1, <1>s DEF WatchInv, SettingUp
  <2> QED BY <2>1, <2>2, <2>3, <2>4, <2>5 DEF WrapperInv
<1>7. CASE Closed
  <2> USE <1>0, <1>7 DEF Closed
  <2>0. "connect" \in WrapperTask /\ "connect" \notin Posted
    BY DEF WrapperTask, Setup, PostedInv, QueueInv, SettingUp, Late, WrapperTypes
  <2>1. /\ QueueInv' /\ Outstanding' = Outstanding \union {"connect"} /\ Posted' = Posted \union {"connect"}
        /\ pending' \in Seq(WrapperTask) /\ pending' # <<>>
        /\ UNCHANGED <<task, ended, closed, succeeded>>
    BY <2>0, OnePosted
  <2>2. WrapperTypes' BY <2>1 DEF WrapperTypes
  <2>3. PostedInv' BY <2>1, <1>s DEF PostedInv, SettingUp, Late, WrapperTypes
  <2>4. ReleaseInv' BY <2>1, <1>s DEF ReleaseInv, PostedInv, QueueInv, Posted, Late
  <2>5. WatchInv'
    <3>1. ~active /\ ~watches /\ (\A r \in Requests : at[r] = "new" /\ lock # r)
      BY DEF WatchInv, SettingUp
    <3>2. active = FALSE /\ watches = FALSE
      <4>1. active \in BOOLEAN /\ watches \in BOOLEAN BY DEF WrapperTypes
      <4> QED BY <3>1, <4>1
    <3> QED BY <2>1, <1>s, <3>1, <3>2 DEF WatchInv, SettingUp
  <2> QED BY <2>1, <2>2, <2>3, <2>4, <2>5 DEF WrapperInv
<1>8. CASE Connected
  <2> USE <1>0, <1>8 DEF Connected
  <2>1. /\ QueueInv' /\ Outstanding' = Outstanding /\ Posted' = Posted
        /\ UNCHANGED <<pending, task, ended, closed, succeeded>>
    BY NothingPosted
  <2>2. WrapperTypes' BY <2>1 DEF WrapperTypes
  <2>3. PostedInv' BY <2>1 DEF PostedInv, SettingUp, Late, WrapperTypes
  <2>4. ReleaseInv' BY <2>1 DEF ReleaseInv, PostedInv, QueueInv, Posted, Late
  <2>5. WatchInv' BY <2>1, <1>s DEF WatchInv, SettingUp
  <2> QED BY <2>1, <2>2, <2>3, <2>4, <2>5 DEF WrapperInv
<1>9. CASE SetupTimesOut
  <2> USE <1>0, <1>9 DEF SetupTimesOut
  <2>1. /\ QueueInv' /\ Outstanding' = Outstanding /\ Posted' = Posted
        /\ UNCHANGED <<pending, task, ended, closed, succeeded>>
    BY NothingPosted
  <2>2. WrapperTypes' BY <2>1 DEF WrapperTypes
  <2>3. PostedInv' BY <2>1 DEF PostedInv, SettingUp, Late, WrapperTypes
  <2>4. ReleaseInv' BY <2>1 DEF ReleaseInv, PostedInv, QueueInv, Posted, Late
  <2>5. WatchInv' BY <2>1, <1>s DEF WatchInv, SettingUp
  <2> QED BY <2>1, <2>2, <2>3, <2>4, <2>5 DEF WrapperInv
<1> QED BY <1>1, <1>2, <1>3, <1>4, <1>5, <1>6, <1>7, <1>8, <1>9 DEF Initializing, Created, Inited

(* The main thread from the return of listen() to the return of main.      *)
LEMMA LeavingKeepsInv ==
  ASSUME WrapperInv, Leaving
  PROVE  WrapperInv'
<1> USE DEF Issue, GoOn, Step, Fault, health, jvObjects, handlers
<1>0. WrapperTypes /\ QueueInv /\ PostedInv /\ ReleaseInv /\ WatchInv BY DEF WrapperInv
<1>s. \A r \in Requests :
        r \notin {"first_connect", "create", "init", "cleanup", "initial_close", "connect",
                  "shutdown", "destroy", "none"}
  BY WatcherAssumption DEF Setup
<1>1. CASE ListenReturns
  <2> USE <1>0, <1>1 DEF ListenReturns
  <2>1. /\ QueueInv' /\ Outstanding' = Outstanding /\ Posted' = Posted
        /\ UNCHANGED <<pending, task, ended, closed, succeeded>>
    BY NothingPosted
  <2>2. WrapperTypes' BY <2>1 DEF WrapperTypes
  <2>3. PostedInv' BY <2>1 DEF PostedInv, SettingUp, Late, WrapperTypes
  <2>4. ReleaseInv' BY <2>1 DEF ReleaseInv, PostedInv, QueueInv, Posted, Late
  <2>5. WatchInv' BY <2>1, <1>s DEF WatchInv, SettingUp
  <2> QED BY <2>1, <2>2, <2>3, <2>4, <2>5 DEF WrapperInv
<1>2. CASE Leak
  <2> USE <1>0, <1>2 DEF Leak
  <2>1. /\ QueueInv' /\ Outstanding' = Outstanding /\ Posted' = Posted
        /\ UNCHANGED <<pending, task, ended, closed, succeeded>>
    BY NothingPosted
  <2>2. WrapperTypes' BY <2>1 DEF WrapperTypes
  <2>3. PostedInv' BY <2>1 DEF PostedInv, SettingUp, Late, WrapperTypes
  <2>4. ReleaseInv' BY <2>1 DEF ReleaseInv, PostedInv, QueueInv, Posted, Late
  <2>5. WatchInv' BY <2>1, <1>s DEF WatchInv, SettingUp
  <2> QED BY <2>1, <2>2, <2>3, <2>4, <2>5 DEF WrapperInv
<1>3. CASE ShutdownInDestructor
  <2> USE <1>0, <1>3 DEF ShutdownInDestructor
  <2>0. "shutdown" \in WrapperTask /\ "shutdown" \notin Posted
    BY DEF WrapperTask, Setup, PostedInv, QueueInv, SettingUp, Late, WrapperTypes
  <2>1. /\ QueueInv' /\ Outstanding' = Outstanding \union {"shutdown"} /\ Posted' = Posted \union {"shutdown"}
        /\ pending' \in Seq(WrapperTask) /\ pending' # <<>>
        /\ UNCHANGED <<task, ended, closed, succeeded>>
    BY <2>0, OnePosted
  <2>2. WrapperTypes' BY <2>1 DEF WrapperTypes
  <2>3. PostedInv' BY <2>1, <1>s DEF PostedInv, SettingUp, Late, WrapperTypes
  <2>4. ReleaseInv' BY <2>1, <1>s DEF ReleaseInv, PostedInv, QueueInv, Posted, Late
  <2>5. WatchInv' BY <2>1, <1>s DEF WatchInv, SettingUp
  <2> QED BY <2>1, <2>2, <2>3, <2>4, <2>5 DEF WrapperInv
<1>4. CASE ShutInDestructor
  <2> USE <1>0, <1>4 DEF ShutInDestructor
  <2>1. /\ QueueInv' /\ Outstanding' = Outstanding /\ Posted' = Posted
        /\ UNCHANGED <<pending, task, ended, closed, succeeded>>
    BY NothingPosted
  <2>2. WrapperTypes' BY <2>1 DEF WrapperTypes
  <2>3. PostedInv' BY <2>1 DEF PostedInv, SettingUp, Late, WrapperTypes
  <2>4. ReleaseInv' BY <2>1 DEF ReleaseInv, PostedInv, QueueInv, Posted, Late
  <2>5. WatchInv' BY <2>1, <1>s DEF WatchInv, SettingUp
  <2> QED BY <2>1, <2>2, <2>3, <2>4, <2>5 DEF WrapperInv
<1>5. CASE Destroy /\ ~workerFaulted
  <2> USE <1>0, <1>5 DEF Destroy
  <2>0. "destroy" \in WrapperTask /\ "destroy" \notin Posted
    BY DEF WrapperTask, Setup, PostedInv, QueueInv, SettingUp, Late, WrapperTypes
  <2>1. /\ QueueInv' /\ Outstanding' = Outstanding \union {"destroy"} /\ Posted' = Posted \union {"destroy"}
        /\ pending' \in Seq(WrapperTask) /\ pending' # <<>>
        /\ UNCHANGED <<task, ended, closed, succeeded>>
    BY <2>0, OnePosted
  <2>2. WrapperTypes' BY <2>1 DEF WrapperTypes
  <2>3. PostedInv' BY <2>1, <1>s DEF PostedInv, SettingUp, Late, WrapperTypes
  <2>4. ReleaseInv' BY <2>1, <1>s DEF ReleaseInv, PostedInv, QueueInv, Posted, Late
  <2>5. WatchInv' BY <2>1, <1>s DEF WatchInv, SettingUp
  <2> QED BY <2>1, <2>2, <2>3, <2>4, <2>5 DEF WrapperInv
<1>6. CASE Destroyed
  <2> USE <1>0, <1>6 DEF Destroyed
  <2>1. /\ QueueInv' /\ Outstanding' = Outstanding /\ Posted' = Posted
        /\ UNCHANGED <<pending, task, ended, closed, succeeded>>
    BY NothingPosted
  <2>2. WrapperTypes' BY <2>1 DEF WrapperTypes
  <2>3. PostedInv' BY <2>1 DEF PostedInv, SettingUp, Late, WrapperTypes
  <2>4. ReleaseInv' BY <2>1 DEF ReleaseInv, PostedInv, QueueInv, Posted, Late
  <2>5. WatchInv' BY <2>1, <1>s DEF WatchInv, SettingUp
  <2> QED BY <2>1, <2>2, <2>3, <2>4, <2>5 DEF WrapperInv
<1>7. CASE JoinComThread
  <2> USE <1>0, <1>7 DEF JoinComThread
  <2>1. /\ QueueInv' /\ Outstanding' = Outstanding /\ Posted' = Posted
        /\ UNCHANGED <<pending, task, ended, succeeded>>
        /\ pending = <<>> /\ task = Idle /\ closed' = TRUE
    BY DEF ComThread!Close, QueueInv, Waiting, Outstanding, Posted
  <2>2. WrapperTypes' BY <2>1 DEF WrapperTypes
  <2>3. PostedInv' BY <2>1, <1>s DEF PostedInv, SettingUp, Late, WrapperTypes
  <2>4. ReleaseInv' BY <2>1, <1>s DEF ReleaseInv, PostedInv, QueueInv, Posted, Late
  <2>5. WatchInv' BY <2>1, <1>s DEF WatchInv, SettingUp
  <2> QED BY <2>1, <2>2, <2>3, <2>4, <2>5 DEF WrapperInv
<1>8. CASE Destroy /\ workerFaulted
  <2> USE <1>0, <1>8 DEF Destroy
  <2>1. /\ QueueInv' /\ Outstanding' = Outstanding /\ Posted' = Posted
        /\ UNCHANGED <<pending, task, ended, closed, succeeded>>
    BY NothingPosted
  <2>2. WrapperTypes' BY <2>1 DEF WrapperTypes
  <2>3. PostedInv' BY <2>1 DEF PostedInv, SettingUp, Late, WrapperTypes
  <2>4. ReleaseInv' BY <2>1 DEF ReleaseInv, PostedInv, QueueInv, Posted, Late
  <2>5. WatchInv' BY <2>1, <1>s DEF WatchInv, SettingUp
  <2> QED BY <2>1, <2>2, <2>3, <2>4, <2>5 DEF WrapperInv
<1> QED BY <1>1, <1>2, <1>3, <1>4, <1>5, <1>6, <1>7, <1>8 DEF Leaving

(* stop() in its detached thread, and what it may throw.                   *)
LEMMA StoppingKeepsInv ==
  ASSUME WrapperInv, Stopping
  PROVE  WrapperInv'
<1> USE DEF Issue, GoOn, Step, Fault, health, jvObjects, handlers
<1>0. WrapperTypes /\ QueueInv /\ PostedInv /\ ReleaseInv /\ WatchInv BY DEF WrapperInv
<1>s. \A r \in Requests :
        r \notin {"first_connect", "create", "init", "cleanup", "initial_close", "connect",
                  "shutdown", "destroy", "none"}
  BY WatcherAssumption DEF Setup
<1>1. CASE AskToStop
  <2> USE <1>0, <1>1 DEF AskToStop
  <2>1. /\ QueueInv' /\ Outstanding' = Outstanding /\ Posted' = Posted
        /\ UNCHANGED <<pending, task, ended, closed, succeeded>>
    BY NothingPosted
  <2>2. WrapperTypes' BY <2>1 DEF WrapperTypes
  <2>3. PostedInv' BY <2>1 DEF PostedInv, SettingUp, Late, WrapperTypes
  <2>4. ReleaseInv' BY <2>1 DEF ReleaseInv, PostedInv, QueueInv, Posted, Late
  <2>5. WatchInv' BY <2>1, <1>s DEF WatchInv, SettingUp
  <2> QED BY <2>1, <2>2, <2>3, <2>4, <2>5 DEF WrapperInv
<1>2. CASE StopLeaks
  <2> USE <1>0, <1>2 DEF StopLeaks
  <2>1. /\ QueueInv' /\ Outstanding' = Outstanding /\ Posted' = Posted
        /\ UNCHANGED <<pending, task, ended, closed, succeeded>>
    BY NothingPosted
  <2>2. WrapperTypes' BY <2>1 DEF WrapperTypes
  <2>3. PostedInv' BY <2>1 DEF PostedInv, SettingUp, Late, WrapperTypes
  <2>4. ReleaseInv' BY <2>1 DEF ReleaseInv, PostedInv, QueueInv, Posted, Late
  <2>5. WatchInv' BY <2>1, <1>s DEF WatchInv, SettingUp
  <2> QED BY <2>1, <2>2, <2>3, <2>4, <2>5 DEF WrapperInv
<1>3. CASE ShutdownWrapper
  <2> USE <1>0, <1>3 DEF ShutdownWrapper, Runs
  <2>0. "shutdown" \in WrapperTask /\ "shutdown" \notin Posted
    BY DEF WrapperTask, Setup, PostedInv, QueueInv, SettingUp, Late, WrapperTypes
  <2>1. /\ QueueInv' /\ Outstanding' = Outstanding \union {"shutdown"} /\ Posted' = Posted \union {"shutdown"}
        /\ pending' \in Seq(WrapperTask) /\ pending' # <<>>
        /\ UNCHANGED <<task, ended, closed, succeeded>>
    BY <2>0, OnePosted
  <2>2. WrapperTypes' BY <2>1 DEF WrapperTypes
  <2>3. PostedInv' BY <2>1, <1>s DEF PostedInv, SettingUp, Late, WrapperTypes
  <2>4. ReleaseInv' BY <2>1, <1>s DEF ReleaseInv, PostedInv, QueueInv, Posted, Late
  <2>5. WatchInv' BY <2>1, <1>s DEF WatchInv, SettingUp
  <2> QED BY <2>1, <2>2, <2>3, <2>4, <2>5 DEF WrapperInv
<1>4. CASE ShutdownReturns
  <2> USE <1>0, <1>4 DEF ShutdownReturns
  <2>1. /\ QueueInv' /\ Outstanding' = Outstanding /\ Posted' = Posted
        /\ UNCHANGED <<pending, task, ended, closed, succeeded>>
    BY NothingPosted
  <2>2. WrapperTypes' BY <2>1 DEF WrapperTypes
  <2>3. PostedInv' BY <2>1 DEF PostedInv, SettingUp, Late, WrapperTypes
  <2>4. ReleaseInv' BY <2>1 DEF ReleaseInv, PostedInv, QueueInv, Posted, Late
  <2>5. WatchInv' BY <2>1, <1>s DEF WatchInv, SettingUp
  <2> QED BY <2>1, <2>2, <2>3, <2>4, <2>5 DEF WrapperInv
<1>5. CASE StopThrows
  <2> USE <1>0, <1>5 DEF StopThrows, Runs
  <2>1. /\ QueueInv' /\ Outstanding' = Outstanding /\ Posted' = Posted
        /\ UNCHANGED <<pending, task, ended, closed, succeeded>>
    BY NothingPosted
  <2>2. WrapperTypes' BY <2>1 DEF WrapperTypes
  <2>3. PostedInv' BY <2>1 DEF PostedInv, SettingUp, Late, WrapperTypes
  <2>4. ReleaseInv' BY <2>1 DEF ReleaseInv, PostedInv, QueueInv, Posted, Late
  <2>5. WatchInv' BY <2>1, <1>s DEF WatchInv, SettingUp
  <2> QED BY <2>1, <2>2, <2>3, <2>4, <2>5 DEF WrapperInv
<1>6. CASE SignalExits
  <2> USE <1>0, <1>6 DEF SignalExits
  <2>1. /\ QueueInv' /\ Outstanding' = Outstanding /\ Posted' = Posted
        /\ UNCHANGED <<pending, task, ended, closed, succeeded>>
    BY NothingPosted
  <2>2. WrapperTypes' BY <2>1 DEF WrapperTypes
  <2>3. PostedInv' BY <2>1 DEF PostedInv, SettingUp, Late, WrapperTypes
  <2>4. ReleaseInv' BY <2>1 DEF ReleaseInv, PostedInv, QueueInv, Posted, Late
  <2>5. WatchInv' BY <2>1, <1>s DEF WatchInv, SettingUp
  <2> QED BY <2>1, <2>2, <2>3, <2>4, <2>5 DEF WrapperInv
<1> QED BY <1>1, <1>2, <1>3, <1>4, <1>5, <1>6 DEF Stopping

(* A request: call, flag, lock.                                            *)
LEMMA ServingKeepsInv ==
  ASSUME WrapperInv, NEW r \in Requests, Serving(r)
  PROVE  WrapperInv'
<1> USE DEF Issue, GoOn, Step, Fault, health, jvObjects, handlers
<1>0. WrapperTypes /\ QueueInv /\ PostedInv /\ ReleaseInv /\ WatchInv BY DEF WrapperInv
<1>s. \A w \in Requests :
        w \notin {"first_connect", "create", "init", "cleanup", "initial_close", "connect",
                  "shutdown", "destroy", "none"}
  BY WatcherAssumption DEF Setup
<1>1. CASE Begin(r)
  <2> USE <1>0, <1>1 DEF Begin, Admitted
  <2>0. r \in WrapperTask /\ r \notin Posted BY DEF WrapperTask, PostedInv, Moves
  <2>1. /\ QueueInv' /\ Outstanding' = Outstanding \union {r} /\ Posted' = Posted \union {r}
        /\ pending' \in Seq(WrapperTask) /\ pending' # <<>>
        /\ UNCHANGED <<task, ended, closed, succeeded>>
    BY <2>0, OnePosted
  <2>2. WrapperTypes' BY <2>1 DEF WrapperTypes, Moves
  <2>3. PostedInv' BY <2>1, <1>s DEF PostedInv, SettingUp, Late, WrapperTypes, Moves
  <2>4. ReleaseInv' BY <2>1, <1>s DEF ReleaseInv, PostedInv, QueueInv, Posted, Late, Moves
  <2>5. WatchInv'
    <3>1. lock' = r /\ at[r] = "new" /\ at' = [at EXCEPT ![r] = "calls"] /\ main = "listening"
      BY DEF Moves
    <3>2. \A d \in Requests : lock # d BY WatcherAssumption
    <3>3. \A d \in Requests : at'[d] \in {"calls", "returned"} <=> lock' = d
      BY <3>1, <3>2 DEF WatchInv, WrapperTypes
    <3>4. ~isFaulted' => \A d \in Watchers : d \in Outstanding' => at'[d] = "calls"
      BY <2>1, <3>1 DEF WatchInv, WrapperTypes
    <3>5. r \notin succeeded' BY <2>0, <2>1 DEF WrapperTypes, Posted
    <3>6. active' = watches'
      <4>1. active = watches BY <3>2 DEF WatchInv
      <4> QED BY <4>1
    <3> QED BY <2>1, <3>1, <3>3, <3>4, <3>5, <3>6 DEF WatchInv, SettingUp
  <2> QED BY <2>1, <2>2, <2>3, <2>4, <2>5 DEF WrapperInv
<1>2. CASE CallReturns(r)
  <2> USE <1>0, <1>2 DEF CallReturns
  <2>1. /\ QueueInv' /\ Outstanding' = Outstanding /\ Posted' = Posted
        /\ UNCHANGED <<pending, task, ended, closed, succeeded>>
    BY NothingPosted
  <2>2. WrapperTypes' BY <2>1 DEF WrapperTypes, Moves
  <2>3. PostedInv' BY <2>1 DEF PostedInv, SettingUp, Late, WrapperTypes, Moves
  <2>4. ReleaseInv' BY <2>1 DEF ReleaseInv, PostedInv, QueueInv, Posted, Late, Moves
  <2>5. WatchInv'
    <3>1. at[r] = "calls" /\ at' = [at EXCEPT ![r] = "returned"] /\ main = "listening" /\ r \in ended
      BY DEF Moves
    <3>2. r \notin Outstanding BY <3>1 DEF QueueInv
    <3>3. \A d \in Requests : at'[d] \in {"calls", "returned"} <=> lock' = d
      BY <3>1 DEF WatchInv, WrapperTypes
    <3>4. ~isFaulted' => \A d \in Watchers : d \in Outstanding' => at'[d] = "calls"
      BY <2>1, <3>1, <3>2 DEF WatchInv, WrapperTypes
    <3> QED BY <2>1, <3>1, <3>3, <3>4 DEF WatchInv, SettingUp
  <2> QED BY <2>1, <2>2, <2>3, <2>4, <2>5 DEF WrapperInv
<1>3. CASE SetFlag(r)
  <2> USE <1>0, <1>3 DEF SetFlag
  <2>1. /\ QueueInv' /\ Outstanding' = Outstanding /\ Posted' = Posted
        /\ UNCHANGED <<pending, task, ended, closed, succeeded>>
    BY NothingPosted
  <2>2. WrapperTypes'
    <3>1. active' \in BOOLEAN
      <4>1. active \in BOOLEAN BY DEF WrapperTypes
      <4>2. CASE r \in succeeded \intersect Watchers
        <5>1. active' = (r \in Starters) BY <4>2
        <5> QED BY ONLY <5>1
      <4>3. CASE r \notin succeeded \intersect Watchers BY <4>1, <4>3
      <4> QED BY <4>2, <4>3
    <3> QED BY <2>1, <3>1 DEF WrapperTypes, Moves
  <2>3. PostedInv' BY <2>1 DEF PostedInv, SettingUp, Late, WrapperTypes, Moves
  <2>4. ReleaseInv' BY <2>1 DEF ReleaseInv, PostedInv, QueueInv, Posted, Late, Moves
  <2>5. WatchInv'
    <3>1. at[r] = "returned" /\ at' = [at EXCEPT ![r] = "done"] /\ main = "listening" /\ lock = r
      BY DEF Moves, WatchInv
    <3>2. \A d \in Requests : lock' # d BY WatcherAssumption
    <3>3. \A d \in Requests : at'[d] \in {"calls", "returned"} <=> lock' = d
      BY <3>1, <3>2 DEF WatchInv, WrapperTypes
    <3>4. ~isFaulted' => \A d \in Watchers : d \in Outstanding' => at'[d] = "calls"
      BY <2>1, <3>1 DEF WatchInv, WrapperTypes
    <3>5. ASSUME initialized, ~isFaulted PROVE active' = watches'
      <4>1. CASE r \in succeeded \intersect Watchers
        <5>1. watches = (r \in Starters) BY <3>1, <3>5, <4>1 DEF WatchInv
        <5> QED BY <4>1, <5>1
      <4>2. CASE r \notin succeeded \intersect Watchers
        <5>1. active = watches BY <3>1, <3>5, <4>2 DEF WatchInv
        <5> QED BY <4>2, <5>1
      <4> QED BY <4>1, <4>2
    <3> QED BY <2>1, <3>1, <3>2, <3>3, <3>4, <3>5 DEF WatchInv, SettingUp
  <2> QED BY <2>1, <2>2, <2>3, <2>4, <2>5 DEF WrapperInv
<1>4. CASE CallTimesOut(r)
  <2> USE <1>0, <1>4 DEF CallTimesOut
  <2>1. /\ QueueInv' /\ Outstanding' = Outstanding /\ Posted' = Posted
        /\ UNCHANGED <<pending, task, ended, closed, succeeded>>
    BY NothingPosted
  <2>2. WrapperTypes' BY <2>1 DEF WrapperTypes, Moves
  <2>3. PostedInv' BY <2>1 DEF PostedInv, SettingUp, Late, WrapperTypes, Moves
  <2>4. ReleaseInv' BY <2>1 DEF ReleaseInv, PostedInv, QueueInv, Posted, Late, Moves
  <2>5. WatchInv'
    <3>1. at[r] = "calls" /\ at' = [at EXCEPT ![r] = "done"] /\ main = "listening" /\ lock = r
      BY DEF Moves, WatchInv
    <3>2. \A d \in Requests : lock' # d BY WatcherAssumption
    <3>3. \A d \in Requests : at'[d] \in {"calls", "returned"} <=> lock' = d
      BY <3>1, <3>2 DEF WatchInv, WrapperTypes
    <3> QED BY <2>1, <3>1, <3>2, <3>3 DEF WatchInv, SettingUp
  <2> QED BY <2>1, <2>2, <2>3, <2>4, <2>5 DEF WrapperInv
<1>5. CASE ThrownAtOnce(r)
  <2> USE <1>0, <1>5 DEF ThrownAtOnce, Admitted
  <2>1. /\ QueueInv' /\ Outstanding' = Outstanding /\ Posted' = Posted
        /\ UNCHANGED <<pending, task, ended, closed, succeeded>>
    BY NothingPosted
  <2>2. WrapperTypes' BY <2>1 DEF WrapperTypes, Moves
  <2>3. PostedInv' BY <2>1 DEF PostedInv, SettingUp, Late, WrapperTypes, Moves
  <2>4. ReleaseInv' BY <2>1 DEF ReleaseInv, PostedInv, QueueInv, Posted, Late, Moves
  <2>5. WatchInv'
    <3>1. at[r] = "new" /\ at' = [at EXCEPT ![r] = "done"] /\ main = "listening" /\ lock # r
      BY DEF Moves, WatchInv
    <3>2. \A d \in Requests : at'[d] \in {"calls", "returned"} <=> lock' = d
      BY <3>1 DEF WatchInv, WrapperTypes
    <3>3. ~isFaulted' => \A d \in Watchers : d \in Outstanding' => at'[d] = "calls"
      BY <2>1, <3>1 DEF WatchInv, WrapperTypes
    <3> QED BY <2>1, <3>1, <3>2, <3>3 DEF WatchInv, SettingUp
  <2> QED BY <2>1, <2>2, <2>3, <2>4, <2>5 DEF WrapperInv
<1>6. CASE GuardTimesOut(r)
  <2> USE <1>0, <1>6 DEF GuardTimesOut
  <2>1. /\ QueueInv' /\ Outstanding' = Outstanding /\ Posted' = Posted
        /\ UNCHANGED <<pending, task, ended, closed, succeeded>>
    BY NothingPosted
  <2>2. WrapperTypes' BY <2>1 DEF WrapperTypes, Moves
  <2>3. PostedInv' BY <2>1 DEF PostedInv, SettingUp, Late, WrapperTypes, Moves
  <2>4. ReleaseInv' BY <2>1 DEF ReleaseInv, PostedInv, QueueInv, Posted, Late, Moves
  <2>5. WatchInv'
    <3>1. /\ at[r] = "calls" /\ at' = [at EXCEPT ![r] = "done"] /\ main = "listening"
          /\ lock = r /\ r \notin Watchers
      BY WatcherAssumption DEF Moves, WatchInv
    <3>2. \A d \in Requests : lock' # d BY WatcherAssumption
    <3>3. \A d \in Requests : at'[d] \in {"calls", "returned"} <=> lock' = d
      BY <3>1, <3>2 DEF WatchInv, WrapperTypes
    <3>4. ~isFaulted' => \A d \in Watchers : d \in Outstanding' => at'[d] = "calls"
      BY <2>1, <3>1 DEF WatchInv, WrapperTypes
    <3>5. initialized /\ ~isFaulted => active = watches BY <3>1 DEF WatchInv
    <3> QED BY <2>1, <3>1, <3>2, <3>3, <3>4, <3>5 DEF WatchInv, SettingUp
  <2> QED BY <2>1, <2>2, <2>3, <2>4, <2>5 DEF WrapperInv
<1> QED BY <1>1, <1>2, <1>3, <1>4, <1>5, <1>6 DEF Serving

-----------------------------------------------------------------------------
(* The strengthened invariant of the wrapper's threads.                    *)
THEOREM WrapperInvariant == WrapperSpec => []WrapperInv
<1>1. WrapperInit => WrapperInv BY WrapperInitEstablishesInv
<1>2. WrapperInv /\ [WrapperNext]_wrapperVars => WrapperInv'
  <2> SUFFICES ASSUME WrapperInv, [WrapperNext]_wrapperVars PROVE WrapperInv' OBVIOUS
  <2>1. CASE BeginTask BY <2>1, BeginTaskKeepsInv
  <2>2. CASE EndTask BY <2>2, EndTaskKeepsInv
  <2>3. CASE Initializing BY <2>3, InitializingKeepsInv
  <2>4. CASE Leaving BY <2>4, LeavingKeepsInv
  <2>5. CASE Stopping BY <2>5, StoppingKeepsInv
  <2>6. ASSUME NEW r \in Requests, Serving(r) PROVE WrapperInv' BY <2>6, ServingKeepsInv
  <2>7. CASE UNCHANGED wrapperVars
    BY <2>7 DEF wrapperVars, health, jvObjects, handlers, com, WrapperInv, WrapperTypes, QueueInv,
                PostedInv, ReleaseInv, WatchInv, Waiting, Outstanding, Posted
  <2> QED BY <2>1, <2>2, <2>3, <2>4, <2>5, <2>6, <2>7 DEF WrapperNext
<1> QED BY <1>1, <1>2, PTL DEF WrapperSpec

(* The values of the wrapper's members and of the threads' places.         *)
THEOREM WrapperTypesHold == WrapperSpec => []WrapperTypes
<1>1. WrapperInv => WrapperTypes BY DEF WrapperInv
<1> QED BY <1>1, WrapperInvariant, PTL

(* ~JVLinkWrapper: when it has joined the COM thread no task is left, and  *)
(* the instance and the sink have been released on it unless that thread   *)
(* was faulted.                                                            *)
THEOREM DestroyedIsReleased == WrapperSpec => []DestroyedMeansReleased
<1>1. WrapperInv => DestroyedMeansReleased
  BY DEF WrapperInv, ReleaseInv, DestroyedMeansReleased
<1> QED BY <1>1, WrapperInvariant, PTL

(* startEventWatch, stopEventWatch: with no request under way the flag is  *)
(* what JV-Link does.                                                      *)
THEOREM FlagTellsTheWatch == WrapperSpec => []WatchIsHonest
<1>1. WrapperInv => WatchIsHonest
  <2> SUFFICES ASSUME WrapperInv, initialized, ~isFaulted, Quiet PROVE active = watches
    BY DEF WatchIsHonest
  <2>1. \A r \in Requests : lock # r BY DEF WrapperInv, WatchInv, Quiet
  <2> QED BY <2>1 DEF WrapperInv, WatchInv
<1> QED BY <1>1, WrapperInvariant, PTL
=============================================================================
