-------------------------- MODULE WrapperLifecycle --------------------------
(***************************************************************************)
(* The JVLinkWrapper of a worker process from its construction to the end  *)
(* of main: initialize(), the event watch of /event/start and /event/stop, *)
(* shutdown(), the destructors, and the cases in which the wrapper is      *)
(* abandoned on purpose.  What touches COM is a task for the COM thread,   *)
(* here TaskExecutor: the promise that ComThreadWorker keeps.              *)
(*                                                                         *)
(* A task takes effect when it ends.  JV-Link may keep any task that calls *)
(* it for ever; a timed call then gives up, and the wrapper and its COM    *)
(* thread count as faulted.  The JVClose with which a query's guard ends   *)
(* is timed by the COM thread alone, which is then faulted alone: it takes *)
(* no more tasks, and the wrapper, which still counts as operational,      *)
(* meets an exception wherever it posts one.                               *)
(***************************************************************************)
EXTENDS Sequences, FiniteSets

CONSTANTS
  Starters,   (* POST /event/start                                         *)
  Stoppers,   (* POST /event/stop                                          *)
  Queries     (* POST /query: one of its calls of JV-Link, at last the     *)
              (* JVClose of its guard                                      *)

Watchers == Starters \union Stoppers
Requests == Watchers \union Queries

(* Each is posted at most once; first_connect by setEventHandler.          *)
Setup == {"first_connect", "create", "init", "cleanup", "initial_close", "connect"}
WrapperTask == Setup \union {"shutdown", "destroy"} \union Requests
Idle == "none"

ASSUME WatcherAssumption ==
  /\ Starters \intersect Stoppers = {} /\ Watchers \intersect Queries = {}
  /\ Requests \intersect (Setup \union {"shutdown", "destroy", "none"}) = {}

VARIABLES
  main,        (* the main thread                                          *)
  stopThread,  (* that of stop(), detached by /shutdown: no, asked, calls, *)
               (* done                                                     *)
  owned,       (* jvlink_wrapper_: yes, leaked, destroyed                  *)
  instance,    (* jvlink_dispatch_                                         *)
  sink,        (* m_pConnectionPoint: the sink is connected                *)
  initialized, isFaulted, active,   (* is_initialized_, faulted_, and      *)
               (* event_watch_active_                                      *)
  workerFaulted,   (* ComThreadWorker's m_faulted                          *)
  watches,     (* JV-Link (external) raises events                         *)
  lock,        (* jvlink_operation_mutex_, "none" or a request             *)
  at,          (* each request: new, calls, returned, done                 *)
  pending, task, ended, closed,   (* the COM thread, a TaskExecutor      *)
  succeeded    (* the tasks that returned success                          *)

health == <<initialized, isFaulted, workerFaulted, active>>
jvObjects == <<instance, sink, watches>>
handlers == <<lock, at>>
com == <<pending, task, ended, closed, succeeded>>
wrapperVars == <<main, stopThread, owned, health, jvObjects, handlers, com>>

ComThread == INSTANCE TaskExecutor WITH Task <- WrapperTask, NoTask <- Idle,
                                            current <- task, done <- ended

(* setEventHandler has posted the first attempt to connect; there is no    *)
(* instance yet.                                                           *)
WrapperInit ==
  /\ main = "constructed" /\ stopThread = "no" /\ owned = "yes"
  /\ initialized = FALSE /\ isFaulted = FALSE /\ workerFaulted = FALSE /\ active = FALSE
  /\ instance = FALSE /\ sink = FALSE /\ watches = FALSE
  /\ lock = "none" /\ at = [r \in Requests |-> "new"]
  /\ pending = <<"first_connect">> /\ task = Idle /\ ended = {} /\ closed = FALSE
  /\ succeeded = {}

Runs == main \notin {"gone", "crashed"}

-----------------------------------------------------------------------------
(* The COM thread.                                                         *)
BeginTask ==
  /\ Runs /\ ComThread!StartOldest
  /\ UNCHANGED <<main, stopThread, owned, health, jvObjects, handlers, succeeded>>

(* Release() without Unadvise().                                           *)
ShutdownOnComThread ==
  /\ instance' = FALSE /\ initialized' = FALSE /\ active' = FALSE
  /\ UNCHANGED <<isFaulted, workerFaulted>>

Connects(t) ==
  /\ t \in {"first_connect", "connect"}
  /\ IF instance /\ ~sink THEN sink' \in BOOLEAN ELSE UNCHANGED sink
  /\ succeeded' = IF instance /\ sink' THEN succeeded \union {t} ELSE succeeded
  /\ UNCHANGED <<instance, watches, health>>

Creates(t) ==
  /\ t = "create" /\ instance' \in BOOLEAN
  /\ succeeded' = IF instance' THEN succeeded \union {t} ELSE succeeded
  /\ UNCHANGED <<sink, watches, health>>

CallsJVLink(t) ==
  /\ t \in {"init", "initial_close"} \union Queries
  /\ succeeded' \in {succeeded, succeeded \union {t}}
  /\ UNCHANGED <<jvObjects, health>>

Releases(t) ==
  /\ t \in {"cleanup", "shutdown", "destroy"} /\ ShutdownOnComThread
  /\ sink' = (sink /\ t # "destroy")
  /\ UNCHANGED <<watches, succeeded>>

(* JVWatchEvent and JVWatchEventClose.                                     *)
Watches(t) ==
  /\ t \in Watchers
  /\ \/ UNCHANGED <<watches, succeeded>>
     \/ instance /\ watches' = (t \in Starters) /\ succeeded' = succeeded \union {t}
  /\ UNCHANGED <<instance, sink, health>>

EndTask ==
  /\ Runs /\ ComThread!Finish
  /\ \/ Connects(task) \/ Creates(task) \/ CallsJVLink(task)
     \/ Releases(task) \/ Watches(task)
  /\ UNCHANGED <<main, stopThread, owned, handlers>>

(* These ends do not depend on JV-Link.                                    *)
EndsByItself ==
  /\ \/ task = "first_connect" /\ ~instance
     \/ task \in {"cleanup", "shutdown", "destroy"} /\ ~instance /\ ~sink
  /\ EndTask

-----------------------------------------------------------------------------
(* The main thread.                                                        *)
Step(from, to) == main = from /\ main' = to

Post(t) == ComThread!Accept(t) /\ UNCHANGED succeeded

(* The watchdog of invokeComCall: recordFault and markFatalFault.          *)
Fault ==
  /\ workerFaulted' = TRUE /\ isFaulted' = TRUE
  /\ initialized' = FALSE /\ active' = FALSE

Overdue(t) == t \notin ended

Issue(t, from, to) ==
  /\ Step(from, to) /\ Post(t)
  /\ UNCHANGED <<stopThread, owned, health, jvObjects, handlers>>

GoOn(from, to) ==
  /\ Step(from, to)
  /\ UNCHANGED <<stopThread, owned, health, jvObjects, handlers, com>>

(* initialize().                                                           *)
Create == Issue("create", "constructed", "creating")

Created ==
  /\ "create" \in ended
  /\ IF "create" \in succeeded THEN Issue("init", "creating", "initing")
                               ELSE GoOn("creating", "failed")

Inited ==
  /\ "init" \in ended
  /\ IF "init" \in succeeded THEN Issue("initial_close", "initing", "closing")
                             ELSE Issue("cleanup", "initing", "cleaning")

CleanedUp == "cleanup" \in ended /\ GoOn("cleaning", "failed")

(* Whether JVClose succeeds is not looked at.                              *)
Closed ==
  /\ "initial_close" \in ended /\ Step("closing", "connecting") /\ Post("connect")
  /\ initialized' = TRUE
  /\ UNCHANGED <<stopThread, owned, isFaulted, workerFaulted, active, jvObjects, handlers>>

(* A sink that could not be connected is only logged; then the port.       *)
Connected ==
  "connect" \in ended /\ (GoOn("connecting", "listening") \/ GoOn("connecting", "refused"))

(* The watchdog: the exception of the cleanup and of JVClose stays inside  *)
(* initialize(), the others make start() abandon the wrapper.              *)
SetupTimesOut ==
  /\ \/ /\ \/ Overdue("cleanup") /\ Step("cleaning", "failed")
           \/ Overdue("initial_close") /\ Step("closing", "failed")
        /\ UNCHANGED owned
     \/ /\ \/ Overdue("create") /\ Step("creating", "failed")
           \/ Overdue("init") /\ Step("initing", "failed")
           \/ Overdue("connect") /\ Step("connecting", "failed")
        /\ owned' = "leaked"
  /\ Fault
  /\ UNCHANGED <<stopThread, jvObjects, handlers, com>>

Quiet == \A r \in Requests : at[r] \in {"new", "done"}

(* listen() returns: the socket is closed and the handlers have returned.  *)
ListenReturns ==
  /\ stopThread # "no" /\ Quiet /\ GoOn("listening", "leaving")

(* Slip: the COM thread is joined in any case.                             *)
JoinFaulted ==
  /\ main \in {"failed", "leaving"} /\ (isFaulted \/ owned = "leaked")
  /\ main' = "joining"
  /\ UNCHANGED <<stopThread, owned, health, jvObjects, handlers, com>>

(* ~JVLinkHTTPServer: a faulted wrapper is leaked.                         *)
Leak ==
  /\ main \in {"failed", "leaving"} /\ (isFaulted \/ owned = "leaked")
  /\ main' = "gone" /\ owned' = "leaked"
  /\ UNCHANGED <<stopThread, health, jvObjects, handlers, com>>

(* The port was refused: running_ is set, so the destructor calls stop().  *)
ShutdownInDestructor == ~isFaulted /\ Issue("shutdown", "refused", "shutting")

ShutInDestructor == "shutdown" \in ended /\ GoOn("shutting", "leaving")

(* Slip: the COM thread is stopped without the cleanup.                    *)
JustJoin ==
  /\ main \in {"failed", "leaving"} /\ ~isFaulted /\ owned = "yes"
  /\ main' = "joining"
  /\ UNCHANGED <<stopThread, owned, health, jvObjects, handlers, com>>

(* ~JVLinkWrapper: the cleanup on the COM thread, with no watchdog.  A COM *)
(* thread that is faulted alone throws at once; the exception is swallowed *)
(* and the cleanup is skipped ...                                          *)
Destroy ==
  /\ main \in {"failed", "leaving"} /\ ~isFaulted /\ owned = "yes"
  /\ \/ ~workerFaulted /\ main' = "destroying" /\ Post("destroy")
     \/ workerFaulted /\ main' = "joining" /\ UNCHANGED com
  /\ UNCHANGED <<stopThread, owned, health, jvObjects, handlers>>

Destroyed == "destroy" \in ended /\ GoOn("destroying", "joining")

(* ... but not the join; the queue is drained before the thread ends.      *)
JoinComThread ==
  /\ Step("joining", "gone") /\ ComThread!Close /\ owned' = "destroyed"
  /\ UNCHANGED <<stopThread, health, jvObjects, handlers, succeeded>>

-----------------------------------------------------------------------------
(* stop(), while main is in listen() or on its way out.                    *)
AskToStop ==
  /\ main = "listening" /\ stopThread = "no" /\ stopThread' = "asked"
  /\ UNCHANGED <<main, owned, health, jvObjects, handlers, com>>

StopLeaks ==
  /\ Runs /\ stopThread = "asked" /\ isFaulted /\ stopThread' = "done" /\ owned' = "leaked"
  /\ UNCHANGED <<main, health, jvObjects, handlers, com>>

ShutdownWrapper ==
  /\ Runs /\ stopThread = "asked" /\ ~isFaulted /\ ~workerFaulted /\ main # "joining"
  /\ stopThread' = "calls" /\ Post("shutdown")
  /\ UNCHANGED <<main, owned, health, jvObjects, handlers>>

ShutdownReturns ==
  /\ Runs /\ stopThread = "calls" /\ "shutdown" \in ended /\ stopThread' = "done"
  /\ UNCHANGED <<main, owned, health, jvObjects, handlers, com>>

(* An exception leaves the detached thread or a destructor: the watchdog's *)
(* or that of a COM thread that takes no more tasks, because it is joined  *)
(* or because it is faulted without the wrapper's being so.                *)
StopThrows ==
  /\ \/ Runs /\ stopThread = "calls" /\ Overdue("shutdown")
     \/ Runs /\ stopThread = "asked" /\ ~isFaulted /\ (main = "joining" \/ workerFaulted)
     \/ main = "shutting" /\ Overdue("shutdown")
  /\ main' = "crashed"
  /\ UNCHANGED <<stopThread, owned, health, jvObjects, handlers, com>>

(* Ctrl+C: the signal handler runs stop() and exit(0).                     *)
SignalExits ==
  /\ main = "listening" /\ stopThread = "done" /\ main' = "gone"
  /\ UNCHANGED <<stopThread, owned, health, jvObjects, handlers, com>>

-----------------------------------------------------------------------------
(* /event/start and /event/stop: startEventWatch, stopEventWatch; and what *)
(* a query does with the COM thread.                                       *)
Moves(r, from, to) == main = "listening" /\ at[r] = from /\ at' = [at EXCEPT ![r] = to]

(* Slip: the operation lock is not looked at.                              *)
BeginBusy(r) ==
  /\ initialized /\ ~isFaulted /\ ~workerFaulted /\ instance
  /\ Moves(r, "new", "calls") /\ lock' = r /\ Post(r)
  /\ UNCHANGED <<main, stopThread, owned, health, jvObjects>>

(* tryBeginOperation: 503 if not operational, 503 if busy; no instance, no *)
(* call.                                                                   *)
Admitted == initialized /\ ~isFaulted /\ lock = "none" /\ instance

Begin(r) ==
  /\ Admitted /\ ~workerFaulted
  /\ Moves(r, "new", "calls") /\ lock' = r /\ Post(r)
  /\ UNCHANGED <<main, stopThread, owned, health, jvObjects>>

(* The COM thread is faulted and throws: an error, the flag is as it was.  *)
ThrownAtOnce(r) ==
  /\ Admitted /\ workerFaulted /\ Moves(r, "new", "done")
  /\ UNCHANGED <<main, stopThread, owned, health, jvObjects, lock, com>>

CallReturns(r) ==
  /\ r \in ended /\ Moves(r, "calls", "returned")
  /\ UNCHANGED <<main, stopThread, owned, health, jvObjects, lock, com>>

(* The flag, if JV-Link said 0; the lock is given back.                    *)
SetFlag(r) ==
  /\ Moves(r, "returned", "done") /\ lock' = "none"
  /\ active' = IF r \in succeeded \intersect Watchers THEN r \in Starters ELSE active
  /\ UNCHANGED <<main, stopThread, owned, initialized, isFaulted, workerFaulted, jvObjects, com>>

CallTimesOut(r) ==
  /\ Overdue(r) /\ Moves(r, "calls", "done") /\ lock' = "none" /\ Fault
  /\ UNCHANGED <<main, stopThread, owned, jvObjects, com>>

(* ~JVSessionGuard: the watchdog of invokeTask faults the COM thread, the  *)
(* guard swallows the exception.                                           *)
GuardTimesOut(r) ==
  /\ r \in Queries /\ Overdue(r) /\ Moves(r, "calls", "done") /\ lock' = "none"
  /\ workerFaulted' = TRUE
  /\ UNCHANGED <<main, stopThread, owned, initialized, isFaulted, active, jvObjects, com>>

-----------------------------------------------------------------------------
Initializing == Create \/ Created \/ Inited \/ CleanedUp \/ Closed \/ Connected \/ SetupTimesOut

Leaving ==
  \/ ListenReturns \/ Leak \/ ShutdownInDestructor \/ ShutInDestructor
  \/ Destroy \/ Destroyed \/ JoinComThread

Stopping == AskToStop \/ StopLeaks \/ ShutdownWrapper \/ ShutdownReturns \/ StopThrows \/ SignalExits

Serving(r) ==
  \/ Begin(r) \/ ThrownAtOnce(r) \/ CallReturns(r) \/ SetFlag(r)
  \/ CallTimesOut(r) \/ GuardTimesOut(r)

WrapperNext ==
  \/ BeginTask \/ EndTask
  \/ Initializing \/ Leaving \/ Stopping
  \/ \E r \in Requests : Serving(r)

WrapperSpec == WrapperInit /\ [][WrapperNext]_wrapperVars

(* The threads run and watchdogs fire; nothing makes JV-Link answer.       *)
WrapperFairness ==
  /\ WF_wrapperVars(BeginTask) /\ WF_wrapperVars(EndsByItself)
  /\ WF_wrapperVars(Initializing) /\ WF_wrapperVars(Leaving)

-----------------------------------------------------------------------------
(* The variables keep to the values listed above.                          *)
WrapperTypes ==
  /\ main \in {"constructed", "creating", "initing", "cleaning", "closing", "connecting",
               "failed", "refused", "shutting", "listening", "leaving", "destroying",
               "joining", "gone", "crashed"}
  /\ stopThread \in {"no", "asked", "calls", "done"}
  /\ owned \in {"yes", "leaked", "destroyed"}
  /\ {instance, sink, initialized, isFaulted, workerFaulted, active, watches, closed}
       \subseteq BOOLEAN
  /\ lock \in Requests \union {"none"}
  /\ at \in [Requests -> {"new", "calls", "returned", "done"}]
  /\ pending \in Seq(WrapperTask) /\ task \in WrapperTask \union {Idle}
  /\ ended \subseteq WrapperTask /\ succeeded \subseteq ended

(* /health tells whether events are watched for: with no request under way *)
(* and a wrapper that works, event_watch_active is what JV-Link does.  The *)
(* flag is set after the call, the calls do not overlap.                   *)
WatchIsHonest ==
  initialized /\ ~isFaulted /\ Quiet => active = watches

(* A wrapper that is destroyed, after a failed initialize() or at the end, *)
(* has let the COM thread finish what it was given, and has given its      *)
(* JV-Link objects back there before that thread ended.  Exempt from the   *)
(* second is the wrapper whose COM thread is faulted alone: the destructor *)
(* swallows the exception and the objects stay.                            *)
DestroyedMeansReleased ==
  owned = "destroyed" =>
    /\ pending = <<>> /\ task = Idle
    /\ workerFaulted \/ (~instance /\ ~sink)

(* initialize() comes to an end, and if it fails so does the process, even *)
(* if JV-Link never answers: no thread that hangs is waited for.           *)
StartEnds == <>(main \in {"listening", "refused", "gone"})
=============================================================================
