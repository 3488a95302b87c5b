-------------------------- MODULE JVLinkHTTPServer --------------------------
(***************************************************************************)
(* The worker process: the HTTP handlers of JVLinkHTTPServer over one      *)
(* JVLinkWrapper.  JV-Link knows one open session, so every request that   *)
(* talks to it first tries jvlink_operation_mutex_, shows itself in        *)
(* active_session_ (the lease) and gives both back when it is over.        *)
(*                                                                         *)
(* A COM call is two steps: it is issued, and it returns or its watchdog   *)
(* fires.  ComThreadWorker runs calls one after the other, so a call that  *)
(* returns takes its effect on JV-Link at that moment; one that timed out  *)
(* may still take it later (LateEffect), and holds up the calls behind it. *)
(*                                                                         *)
(* The wrapper's and the worker's fault flag are read one after the other  *)
(* when a call is issued; the worker's is set first and neither is ever    *)
(* reset while requests run, so the two tests are one step.  A request is  *)
(* served at most once.                                                    *)
(***************************************************************************)
EXTENDS Naturals

CONSTANTS
  Stored,     (* requests to /query/stored                                 *)
  Realtime,   (* requests to /query/realtime                               *)
  Watch,      (* requests to /event/start and /event/stop                  *)
  Control,    (* those to /files/delete, /uniform and /course              *)
  MaxResets,  (* bound: requests to /session/reset                         *)
  None

Streams == Stored \union Realtime
Requests == Streams \union Watch \union Control

ASSUME ServerAssumption ==
  /\ Stored \intersect Realtime = {}
  /\ Streams \intersect (Watch \union Control) = {}
  /\ Watch \intersect Control = {}
  /\ MaxResets \in Nat
  /\ None \notin Requests

VARIABLES
  opLock,        (* jvlink_operation_mutex_                                *)
  session,       (* active_session_.request_id                             *)
  resetGen,      (* session_reset_generation_                              *)
  observed,      (* the generation each stream compares with               *)
  pc,            (* where each handler is                                  *)
  gone,          (* stored streams whose client has hung up                *)
  noted,         (* ... and whose heartbeat has seen it                    *)
  initialized, wrapperFault,   (* is_initialized_ and faulted_             *)
  workerFault,   (* ComThreadWorker::m_faulted                             *)
  dispatch,      (* jvlink_dispatch_ is alive                              *)
  jvSession,     (* whose JVOpen or JVRTOpen is open inside JV-Link        *)
  late,          (* a call that timed out and is still running, or NoCall   *)
  resetPc, resetTarget,  (* the /session/reset handler                     *)
  stopPc         (* the thread that handleShutdown detaches                *)

lockVars == <<opLock, session>>
resetVars == <<resetGen, resetPc, resetTarget>>
clientVars == <<gone, noted>>
comVars == <<initialized, wrapperFault, workerFault, dispatch, jvSession, late>>
vars == <<lockVars, resetVars, observed, pc, clientVars, comVars, stopPc>>

Unset == MaxResets + 1
NoCall == <<None, "none">>
Calls == (Streams \X {"open", "close"}) \union (Requests \X {"other"})

Pcs == {"new", "admitted", "locked", "leased", "ready", "opening", "opened",
        "download", "status", "canceling", "reading", "getting",
        "closing", "inClose", "inControl", "unlease", "unlock", "done"}
StopPcs == {"up", "requested", "inShutdown", "stopped", "aborted"}
ResetPcs == {"idle", "seen", "polling", "noop", "released", "accepted"}

(* The requests in away are never made.                                    *)
InitWithout(away) ==
  /\ opLock = None /\ session = None
  /\ resetGen = 0 /\ resetPc = "idle" /\ resetTarget = None
  /\ observed = [r \in Streams |-> Unset]
  /\ pc = [r \in Requests |-> IF r \in away THEN "done" ELSE "new"]
  /\ gone = {} /\ noted = {}
  /\ initialized = TRUE /\ wrapperFault = FALSE
  /\ workerFault = FALSE /\ dispatch = TRUE
  /\ jvSession = None /\ late = NoCall
  /\ stopPc = "up"

Init == InitWithout({})

Operational == initialized /\ ~wrapperFault

(* An exception that leaves the detached thread ends the process.          *)
Alive == stopPc # "aborted"

Goto(r, from, to) == Alive /\ pc[r] = from /\ pc' = [pc EXCEPT ![r] = to]

-----------------------------------------------------------------------------
(* Admission: ensureWrapperOperational (or a 503 "unavailable"), the       *)
(* try_lock (or a 503 "busy"), the lease, the generation.  A reset or      *)
(* another request may come between any two.                               *)

Admit(r) ==
  /\ stopPc # "stopped"
  /\ Goto(r, "new", IF Operational THEN "admitted" ELSE "done")
  /\ UNCHANGED <<lockVars, resetVars, observed, clientVars, comVars, stopPc>>

TryLock(r) ==
  /\ Goto(r, "admitted", IF opLock = None THEN "locked" ELSE "done")
  /\ opLock' = IF opLock = None THEN r ELSE opLock
  /\ UNCHANGED <<session, resetVars, observed, clientVars, comVars, stopPc>>

TakeLease(r) ==
  /\ Goto(r, "locked", IF r \in Streams THEN "leased" ELSE "ready")
  /\ session' = r
  /\ UNCHANGED <<opLock, resetVars, observed, clientVars, comVars, stopPc>>

LoadGeneration(r) ==
  /\ r \in Streams
  /\ Goto(r, "leased", "ready")
  /\ observed' = [observed EXCEPT ![r] = resetGen]
  /\ UNCHANGED <<lockVars, resetVars, clientVars, comVars, stopPc>>

-----------------------------------------------------------------------------
(* COM calls.                                                              *)

NoChange == UNCHANGED <<lockVars, resetVars, observed, clientVars, comVars, stopPc>>

(* invokeComCall: a wrapper fault or a worker fault throws; otherwise the  *)
(* call is on its way.                                                     *)
Issue(r, from, to, onThrow) ==
  /\ Goto(r, from, IF wrapperFault \/ workerFault THEN onThrow ELSE to)
  /\ NoChange

(* What a call that nobody waits for any more leaves behind.               *)
HangsAs(call) == late' = IF dispatch /\ late = NoCall THEN call ELSE late

(* The watchdog of invokeComCall: recordFault in the worker, then          *)
(* markFatalFault in the wrapper.                                          *)
FatalTimeout ==
  /\ workerFault' = TRUE /\ wrapperFault' = TRUE
  /\ initialized' = FALSE
  /\ UNCHANGED <<lockVars, resetVars, observed, clientVars, dispatch, jvSession>>

-----------------------------------------------------------------------------
(* queryStored and queryRealtime.                                          *)

(* Slip: only the client's departure cancels.                              *)
CancelIfGone(r) == r \in noted
CancelRequested(r) ==
  \/ observed[r] # resetGen
  \/ r \in noted

OpenSession(r) ==
  IF initialized
  THEN Issue(r, "ready", "opening", "closing")
  ELSE Goto(r, "ready", "unlease") /\ NoChange

(* JVOpen answers: a session, or an error line and the guard.  JV-Link     *)
(* refuses (-202) while a session is open; without an instance the answer  *)
(* is -999.                                                                *)
OpenReturns(r) ==
  /\ late = NoCall
  /\ \/ /\ dispatch /\ jvSession = None
        /\ jvSession' = r
        /\ Goto(r, "opening", "opened")
     \/ /\ UNCHANGED jvSession
        /\ Goto(r, "opening", "closing")
  /\ UNCHANGED <<lockVars, resetVars, observed, clientVars, stopPc,
                 initialized, wrapperFault, workerFault, dispatch, late>>

OpenTimesOut(r) ==
  /\ Goto(r, "opening", "closing")
  /\ FatalTimeout /\ HangsAs(<<r, "open">>)
  /\ UNCHANGED stopPc

(* The meta line and the first read; a stored stream may have to wait for  *)
(* the download first.                                                     *)
AfterOpen(r) ==
  /\ IF CancelRequested(r)
     THEN Goto(r, "opened", "closing")
     ELSE Goto(r, "opened", "reading") \/ (r \in Stored /\ Goto(r, "opened", "download"))
  /\ NoChange

(* waitForDownload: JVStatus again and again, JVCancel on a cancellation.  *)
PollDownload(r) ==
  Issue(r, "download", IF CancelRequested(r) THEN "canceling" ELSE "status", "closing")

(* Downloaded, not yet, or an error (or too many polls).                   *)
StatusReturns(r) ==
  /\ late = NoCall
  /\ \/ dispatch /\ Goto(r, "status", "download")
     \/ dispatch /\ ~CancelRequested(r) /\ Goto(r, "status", "reading")
     \/ Goto(r, "status", "closing")
  /\ NoChange

CancelReturns(r) ==
  /\ late = NoCall
  /\ Goto(r, "canceling", "closing")
  /\ NoChange

ReadNext(r) ==
  IF CancelRequested(r)
  THEN Goto(r, "reading", "closing") /\ NoChange
  ELSE Issue(r, "reading", "getting", "closing")

(* JVGets answers: a record, a file switch or a download wait; or the end, *)
(* an error, a record that cannot be written, a cancellation.              *)
GetsReturns(r) ==
  /\ late = NoCall
  /\ \/ dispatch /\ ~CancelRequested(r) /\ Goto(r, "getting", "reading")
     \/ Goto(r, "getting", "closing")
  /\ NoChange

(* The watchdog of JVStatus, JVCancel and JVGets.                          *)
StreamCallTimesOut(r) ==
  /\ \E call \in {"status", "canceling", "getting"} : Goto(r, call, "closing")
  /\ FatalTimeout /\ HangsAs(<<r, "other">>)
  /\ UNCHANGED stopPc

(* Slip: the guard closes only a stream that ended by itself.              *)
CloseUnlessCanceled(r) ==
  /\ Goto(r, "closing", IF workerFault \/ CancelRequested(r) THEN "unlease" ELSE "inClose")
  /\ NoChange

(* ~JVSessionGuard: a faulted worker refuses, and the exception is         *)
(* swallowed.  The guard goes straight to the worker, past the wrapper.    *)
CloseSession(r) ==
  /\ Goto(r, "closing", IF workerFault THEN "unlease" ELSE "inClose")
  /\ NoChange

CloseReturns(r) ==
  /\ late = NoCall
  /\ Goto(r, "inClose", "unlease")
  /\ jvSession' = IF dispatch THEN None ELSE jvSession
  /\ UNCHANGED <<lockVars, resetVars, observed, clientVars, stopPc,
                 initialized, wrapperFault, workerFault, dispatch, late>>

(* ... so that only the worker learns of the fault.                        *)
CloseTimesOut(r) ==
  /\ Goto(r, "inClose", "unlease")
  /\ workerFault' = TRUE /\ HangsAs(<<r, "close">>)
  /\ UNCHANGED <<lockVars, resetVars, observed, clientVars, stopPc,
                 initialized, wrapperFault, dispatch, jvSession>>

-----------------------------------------------------------------------------
(* The other handlers: one call.                                           *)

(* The body is looked at only now: 400, with the lock held.                *)
RefuseBody(r) ==
  /\ r \in Control
  /\ Goto(r, "ready", "unlease")
  /\ NoChange

(* The watch needs an instance, the others an initialized wrapper.         *)
CallControl(r) ==
  /\ r \notin Streams
  /\ IF (r \in Watch /\ dispatch) \/ (r \in Control /\ initialized)
     THEN Issue(r, "ready", "inControl", "unlease")
     ELSE Goto(r, "ready", "unlease") /\ NoChange

(* What the calls do to the watch and to files is not this module's.       *)
ControlReturns(r) ==
  /\ late = NoCall
  /\ Goto(r, "inControl", "unlease")
  /\ NoChange

(* Slip: the call is made without a watchdog.                              *)
ControlWaits(r) == FALSE

ControlTimesOut(r) ==
  /\ Goto(r, "inControl", "unlease")
  /\ FatalTimeout /\ HangsAs(<<r, "other">>)
  /\ UNCHANGED stopPc

-----------------------------------------------------------------------------
(* The end of a request: the lease goes before the lock.                   *)

(* Slip: the lock is given back before the lease.                          *)
UnlockFirst(r) ==
  /\ Goto(r, "unlease", "unlock")
  /\ opLock' = None
  /\ UNCHANGED <<session, resetVars, observed, clientVars, comVars, stopPc>>

Unlease(r) ==
  /\ Goto(r, "unlease", "unlock")
  /\ session' = IF session = r THEN None ELSE session
  /\ UNCHANGED <<opLock, resetVars, observed, clientVars, comVars, stopPc>>

Unlock(r) ==
  /\ Goto(r, "unlock", "done")
  /\ opLock' = None
  /\ UNCHANGED <<session, resetVars, observed, clientVars, comVars, stopPc>>

(* The client goes away; the stored stream's heartbeat notices.  Nobody    *)
(* looks at the client of a realtime stream until a record is written.     *)
ClientLeaves(r) ==
  /\ Alive /\ r \in Stored \ gone
  /\ pc[r] # "done"
  /\ gone' = gone \union {r}
  /\ UNCHANGED <<lockVars, resetVars, observed, pc, noted, comVars, stopPc>>

HeartbeatFails(r) ==
  /\ Alive /\ r \in gone \ noted
  /\ pc[r] \in {"ready", "opening", "opened", "download", "status", "reading", "getting"}
  /\ noted' = noted \union {r}
  /\ UNCHANGED <<lockVars, resetVars, observed, pc, gone, comVars, stopPc>>

-----------------------------------------------------------------------------
(* requestSessionReset: snapshot, increment, up to 20 polls.               *)

ResetArrives ==
  /\ Alive /\ resetPc \in {"idle", "noop", "released", "accepted"}
  /\ resetGen < MaxResets
  /\ resetPc' = "seen" /\ resetTarget' = session
  /\ UNCHANGED <<lockVars, resetGen, observed, pc, clientVars, comVars, stopPc>>

ResetBumps ==
  /\ Alive /\ resetPc = "seen"
  /\ resetGen' = resetGen + 1
  /\ resetPc' = "polling"
  /\ UNCHANGED <<lockVars, resetTarget, observed, pc, clientVars, comVars, stopPc>>

(* A poll finds no session, or the polls run out on the one now shown.     *)
ResetAnswers ==
  /\ Alive /\ resetPc = "polling"
  /\ IF session = None
     THEN resetPc' = (IF resetTarget = None THEN "noop" ELSE "released") /\ UNCHANGED resetTarget
     ELSE resetPc' = "accepted" /\ resetTarget' = session
  /\ UNCHANGED <<lockVars, resetGen, observed, pc, clientVars, comVars, stopPc>>

-----------------------------------------------------------------------------
(* handleShutdown and the stop() of the thread it detaches: the server     *)
(* runs in main's thread, so nobody waits here for the requests.           *)

ShutdownRequested ==
  /\ stopPc = "up" /\ stopPc' = "requested"
  /\ UNCHANGED <<lockVars, resetVars, observed, pc, clientVars, comVars>>

(* A faulted wrapper is abandoned; a fault known to the worker alone makes *)
(* shutdown() throw out of the detached thread.                            *)
StopReleasesWrapper ==
  /\ stopPc = "requested"
  /\ stopPc' = IF wrapperFault THEN "stopped" ELSE IF workerFault THEN "aborted" ELSE "inShutdown"
  /\ UNCHANGED <<lockVars, resetVars, observed, pc, clientVars, comVars>>

ShutdownReturns ==
  /\ stopPc = "inShutdown" /\ late = NoCall
  /\ stopPc' = "stopped"
  /\ dispatch' = FALSE /\ initialized' = FALSE
  /\ jvSession' = None
  /\ UNCHANGED <<lockVars, resetVars, observed, pc, clientVars,
                 wrapperFault, workerFault, late>>

ShutdownTimesOut ==
  /\ stopPc = "inShutdown"
  /\ stopPc' = "aborted"
  /\ FatalTimeout
  /\ UNCHANGED <<pc, late>>

(* JV-Link ends a call whose caller has long been told that it failed.     *)
LateEffect ==
  /\ Alive /\ late # NoCall
  /\ late' = NoCall
  /\ \/ UNCHANGED jvSession
     \/ late[2] = "open" /\ jvSession = None /\ jvSession' = late[1]
     \/ late[2] = "close" /\ jvSession' = None
  /\ UNCHANGED <<lockVars, resetVars, observed, pc, clientVars, stopPc,
                 initialized, wrapperFault, workerFault, dispatch>>

-----------------------------------------------------------------------------
(* The handler's own steps and its watchdogs.                              *)
Step(r) ==
  \/ TryLock(r) \/ TakeLease(r) \/ LoadGeneration(r)
  \/ /\ r \in Streams
     /\ \/ OpenSession(r) \/ OpenTimesOut(r) \/ AfterOpen(r)
        \/ PollDownload(r) \/ ReadNext(r) \/ StreamCallTimesOut(r)
        \/ CloseSession(r) \/ CloseTimesOut(r)
  \/ RefuseBody(r) \/ CallControl(r) \/ ControlTimesOut(r)
  \/ Unlease(r) \/ Unlock(r)

(* JV-Link answers the handler's call.                                     *)
Answer(r) ==
  \/ /\ r \in Streams
     /\ \/ OpenReturns(r) \/ StatusReturns(r) \/ CancelReturns(r) \/ GetsReturns(r)
        \/ CloseReturns(r)
  \/ ControlReturns(r)

Reset == ResetArrives \/ ResetBumps \/ ResetAnswers
Stop ==
  \/ ShutdownRequested \/ StopReleasesWrapper
  \/ ShutdownReturns \/ ShutdownTimesOut

Next ==
  \/ \E r \in Requests : Admit(r) \/ Step(r) \/ Answer(r)
  \/ \E r \in Stored : ClientLeaves(r) \/ HeartbeatFails(r)
  \/ Reset
  \/ Stop
  \/ LateEffect

Spec == Init /\ [][Next]_vars

(* Handler threads run, watchdogs fire, heartbeats beat.  Nothing makes    *)
(* JV-Link answer.                                                         *)
Fairness ==
  /\ \A r \in Requests : WF_vars(Step(r))
  /\ \A r \in Stored : WF_vars(HeartbeatFails(r))

-----------------------------------------------------------------------------
(* Every variable ranges over the values of its C++ type.                  *)
TypeOK ==
  /\ opLock \in Requests \union {None} /\ session \in Requests \union {None}
  /\ resetGen \in 0..MaxResets
  /\ observed \in [Streams -> 0..Unset]
  /\ pc \in [Requests -> Pcs]
  /\ gone \subseteq Stored /\ noted \subseteq gone
  /\ initialized \in BOOLEAN /\ wrapperFault \in BOOLEAN
  /\ workerFault \in BOOLEAN /\ dispatch \in BOOLEAN
  /\ jvSession \in Streams \union {None}
  /\ late \in Calls \union {NoCall}
  /\ resetPc \in ResetPcs /\ resetTarget \in Requests \union {None}
  /\ stopPc \in StopPcs

(* What /session shows is the operation that holds the lock (the lease is  *)
(* taken after the lock and given back before it).                         *)
ShownSessionHoldsLock == session # None => opLock = session

(* JVSessionGuard closes the JV-Link session before the operation lock is  *)
(* given back, on every path out of a stream; and when a reset says        *)
(* "Session reset completed." the session it found has ended, in JV-Link   *)
(* as well.  A worker that has recorded a fault can close nothing.         *)
SessionsAreClosed ==
  ~workerFault =>
    /\ jvSession # None => opLock = jvSession
    /\ resetPc = "released" => session # resetTarget /\ jvSession # resetTarget

(* Who has no business any more, or a single call, gives the lock back,    *)
(* even if JV-Link never answers (invokeComCall's watchdog): a one-call    *)
(* request, a stream that a reset has canceled, a stored one whose client  *)
(* has left (should_cancel in the loops, the heartbeat).                   *)
LockIsGivenBack ==
  \A r \in Requests :
    opLock = r /\ (r \in Streams => r \in gone \/ observed[r] \notin {Unset, resetGen})
      ~> opLock # r \/ ~Alive

(* CHANGELOG 0.8.2 on the watchdog: once a COM call has hung, the server   *)
(* is unavailable and says so at admission.                                *)
HungServerFailsFast ==
  [][\A r \in Requests : pc[r] = "new" /\ pc'[r] = "admitted" => ~workerFault]_vars

(* "Session reset requested. Active operation is still unwinding.": the    *)
(* stream shown with that answer has been canceled.                        *)
AcceptedResetCancels ==
  resetPc = "accepted" /\ resetTarget \in Streams
    /\ pc[resetTarget] \in {"opening", "download", "status", "reading", "getting"}
  => observed[resetTarget] # resetGen
=============================================================================
