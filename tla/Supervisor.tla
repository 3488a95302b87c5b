----------------------------- MODULE Supervisor -----------------------------
(***************************************************************************)
(* The supervisor process: WorkerProcessManager, which starts, probes and  *)
(* stops the worker process, and the handlers that forward requests to it, *)
(* replace it when it fails, and recycle it on /session/reset.             *)
(*                                                                         *)
(* A worker is known by its generation, which also stands for its port.    *)
(* Each public operation of the manager holds mutex_ from its first line   *)
(* to its last, starts, probes and kills included, so it is one step; what *)
(* lies between two operations of one handler is where others come in.     *)
(*                                                                         *)
(* Of the worker there is what the supervisor can see: whether it runs,    *)
(* whether /health says healthy, and which request holds its session       *)
(* (JVLinkHTTPServer is that server in detail).                            *)
(***************************************************************************)
EXTENDS Integers, FiniteSets

CONSTANTS
  Standard,        (* requests through proxyStandardRequest                *)
  Streams,         (* queries through proxyStreamingRequest                *)
  Realtime,        (* those of /query/realtime, which may poll for ever    *)
  Resets,          (* POST /session/reset                                  *)
  MaxGenerations   (* bound on the workers that start successfully         *)

Requests == Standard \union Streams

ASSUME SupervisorAssumption ==
  /\ Standard \intersect Streams = {} /\ Realtime \subseteq Streams
  /\ "none" \notin Requests
  /\ MaxGenerations \in Nat \ {0}

VARIABLES
  has,          (* has_process_                                            *)
  generation,   (* generation_                                             *)
  alive,        (* the worker processes the system runs                    *)
  healthy,      (* what the newest worker's /health says                   *)
  session,      (* the request holding its session, or "none"              *)
  pc,           (* of each request                                         *)
  port,         (* the worker each request is sent to, 0: none             *)
  left,         (* the streams whose client has gone away                  *)
  reset,        (* of each reset                                           *)
  seen,         (* what its first snapshot showed                          *)
  exit          (* up; stopping, stopped: stop(); then how the process     *)
                (* ended: returned from main, killed by exit(0), crashed   *)

worker == <<has, generation, alive, healthy, session>>
routes == <<port, left>>
requests == <<pc, routes>>
resets == <<reset, seen>>
vars == <<worker, requests, resets, exit>>

NotSeen == [fit |-> FALSE, holder |-> "none"]

(* start() does not expose the server before the worker is healthy.  The   *)
(* requests and resets in away are never made.                             *)
InitWithout(away) ==
  /\ has = TRUE /\ generation = 1 /\ alive = {1} /\ healthy = TRUE
  /\ session = "none"
  /\ pc = [r \in Requests |-> IF r \in away THEN "done" ELSE "new"]
  /\ port = [r \in Requests |-> 0]
  /\ left = {}
  /\ reset = [z \in Resets |-> IF z \in away THEN "noop" ELSE "new"]
  /\ seen = [z \in Resets |-> NotSeen]
  /\ exit = "up"

Init == InitWithout({})

-----------------------------------------------------------------------------
(* WorkerProcessManager.                                                   *)

Live == has /\ generation \in alive
Fit == Live /\ healthy

(* Slip: a worker that does not leave on /shutdown is not terminated.      *)
AskToLeave == alive' \in {alive, alive \ {generation}}

(* stopWorkerLocked: /shutdown, then TerminateProcess.                     *)
Kill == alive' = IF has THEN alive \ {generation} ELSE alive

StopWorker == Kill /\ has' = FALSE /\ session' = "none" /\ UNCHANGED <<generation, healthy>>

(* restartWorkerLocked: the new worker gets healthy, or it does not start  *)
(* (CreateProcess fails) or is stopped again (no health in time).          *)
StartFails ==
  /\ Kill /\ has' = FALSE /\ session' = "none"
  /\ generation' \in {generation, generation + 1} /\ generation' <= MaxGenerations
  /\ UNCHANGED healthy

StartSucceeds ==
  /\ generation < MaxGenerations
  /\ generation' = generation + 1
  /\ alive' = (IF has THEN alive \ {generation} ELSE alive) \union {generation + 1}
  /\ has' = TRUE /\ healthy' = TRUE /\ session' = "none"

Restart == StartFails \/ StartSucceeds

-----------------------------------------------------------------------------
(* A proxied request.                                                      *)
Gone == exit \in {"returned", "killed", "crashed"}
Goto(r, from, to) == ~Gone /\ pc[r] = from /\ pc' = [pc EXCEPT ![r] = to]

(* ensureWorkerReady; also in a handler that began just before stop().     *)
EnsureWorkerReady(r) ==
  /\ UNCHANGED <<routes, resets, exit>>
  /\ \/ Fit /\ Goto(r, "new", "ready") /\ UNCHANGED worker
     \/ ~Fit /\ StartSucceeds /\ Goto(r, "new", "ready")
     \/ ~Fit /\ StartFails /\ Goto(r, "new", "done")

(* workerPort(), under the mutex again; it may be another worker's, or 0.  *)
GetPort(r) ==
  /\ Goto(r, "ready", "routed")
  /\ port' = [port EXCEPT ![r] = IF has THEN generation ELSE 0]
  /\ UNCHANGED <<worker, left, resets, exit>>

Reached(r) == port[r] \in alive

(* The worker admits the request to its session, is busy, or is faulted.   *)
Arrive(r) ==
  /\ Reached(r) /\ UNCHANGED <<has, generation, alive, healthy, routes, resets, exit>>
  /\ \/ healthy /\ session = "none" /\ Goto(r, "routed", "working") /\ session' = r
     \/ /\ healthy /\ session # "none" /\ UNCHANGED session
        /\ Goto(r, "routed", IF r \in Streams THEN "ended" ELSE "done")
     \/ ~healthy /\ Goto(r, "routed", "failed") /\ UNCHANGED session

(* The operation ends well or with an error of its own.                    *)
Finish(r) ==
  /\ Reached(r) /\ session = r
  /\ Goto(r, "working", IF r \in Streams THEN "ended" ELSE "done")
  /\ session' = "none"
  /\ UNCHANGED <<has, generation, alive, healthy, routes, resets, exit>>

(* The worker's watchdog faults it: a 503 that says unavailable, or, once  *)
(* a stream has its headers, an error line in a 200 response.              *)
WorkerFaults(r) ==
  /\ Reached(r) /\ session = r
  /\ \/ Goto(r, "working", "failed")
     \/ r \in Streams /\ Goto(r, "working", "ended")
  /\ healthy' = FALSE /\ session' = "none"
  /\ UNCHANGED <<has, generation, alive, routes, resets, exit>>

(* Nothing from the worker for the read timeout (heartbeats disabled): the *)
(* supervisor gives up while the worker still works on it.                 *)
WorkerIsSilent(r) ==
  /\ r \in Streams /\ Reached(r) /\ Goto(r, "working", "failed")
  /\ UNCHANGED <<worker, routes, resets, exit>>

(* A client goes away; there is no sign of it until something is written.  *)
ClientLeaves(r) ==
  /\ r \in Streams /\ pc[r] = "working" /\ ~Gone
  /\ left' = left \union {r}
  /\ UNCHANGED <<worker, pc, port, resets, exit>>

(* Then the chunk is not passed on and the next one is refused: the        *)
(* response ends while the worker still works on it.                       *)
Canceled(r) ==
  /\ r \in left /\ Goto(r, "working", "ended")
  /\ UNCHANGED <<worker, routes, resets, exit>>

(* The worker finds that nobody reads, or its watchdog faults it when the  *)
(* supervisor looks no more.                                               *)
AbandonedEnds(r) ==
  /\ session = r /\ pc[r] # "working" /\ session' = "none"
  /\ healthy' \in {healthy, FALSE}
  /\ UNCHANGED <<has, generation, alive, requests, resets, exit>>

(* Slip: only a refused connection counts, not one that breaks.            *)
ConnectFails(r) ==
  /\ ~Reached(r) /\ Goto(r, "routed", "failed")
  /\ UNCHANGED <<worker, routes, resets, exit>>

(* No worker at the port any more.                                         *)
TransportFails(r) ==
  /\ ~Reached(r)
  /\ \E from \in {"routed", "working"} : Goto(r, from, "failed")
  /\ UNCHANGED <<worker, routes, resets, exit>>

(* restart(): whatever worker is there by now is replaced.                 *)
RestartFailed(r) ==
  /\ Goto(r, "failed", "done") /\ Restart
  /\ UNCHANGED <<routes, resets, exit>>

(* Slip: the stream ends without a look at the worker.                     *)
EndUnchecked(r) ==
  /\ Goto(r, "ended", "done") /\ UNCHANGED <<worker, routes, resets, exit>>

(* restartIfWorkerUnhealthy().                                             *)
PostStreamCheck(r) ==
  /\ Goto(r, "ended", "done")
  /\ IF Fit THEN UNCHANGED worker ELSE Restart
  /\ UNCHANGED <<routes, resets, exit>>

WorkerExits ==
  /\ generation \in alive /\ ~Gone
  /\ alive' = alive \ {generation} /\ session' = "none"
  /\ UNCHANGED <<has, generation, healthy, requests, resets, exit>>

-----------------------------------------------------------------------------
(* POST /session/reset: look, restart, look again.                         *)
Advance(z, from, to) == ~Gone /\ reset[z] = from /\ reset' = [reset EXCEPT ![z] = to]

(* snapshot() notes that a worker has exited.                              *)
TakeSnapshot == has' = Live /\ UNCHANGED <<generation, alive, healthy, session>>

Look(z) ==
  /\ TakeSnapshot
  /\ seen' = [seen EXCEPT ![z] =
       [fit |-> Fit, holder |-> IF Live THEN session ELSE "none"]]
  /\ Advance(z, "new", "looked")
  /\ UNCHANGED <<requests, exit>>

(* GET /health answers with a snapshot, too.                               *)
Health == ~Gone /\ TakeSnapshot /\ UNCHANGED <<requests, resets, exit>>

(* Slip: only an unhealthy worker is recycled.                             *)
NeedsRestartUnlessFit(z) == ~seen[z].fit

NeedsRestart(z) == ~seen[z].fit \/ seen[z].holder # "none"

Recycle(z) ==
  /\ NeedsRestart(z) /\ Restart
  /\ Advance(z, "looked", "recycled")
  /\ UNCHANGED <<requests, seen, exit>>

LookAgain(z) ==
  /\ TakeSnapshot
  /\ \/ ~NeedsRestart(z) /\ Advance(z, "looked", IF Fit THEN "noop" ELSE "unavailable")
     \/ Advance(z, "recycled", IF Fit THEN "restarted" ELSE "unavailable")
  /\ UNCHANGED <<requests, seen, exit>>

-----------------------------------------------------------------------------
(* The end of the supervisor.                                              *)

(* stop(): no new requests, the worker is stopped; the handlers go on.     *)
Stop ==
  /\ exit = "up" /\ exit' = "stopping"
  /\ UNCHANGED <<worker, requests, resets>>

StopStopsWorker ==
  /\ exit = "stopping" /\ exit' = "stopped" /\ StopWorker
  /\ UNCHANGED <<requests, resets>>

Idle ==
  /\ \A r \in Requests : pc[r] \in {"new", "done"}
  /\ \A z \in Resets : reset[z] \in {"new", "noop", "restarted", "unavailable"}

(* Slip: no second stop when running_ is already false.                    *)
LeaveAfterHandlers ==
  /\ exit \in {"stopping", "stopped"} /\ Idle
  /\ exit' = "returned" /\ UNCHANGED <<worker, requests, resets>>

(* listen() returns when the socket is closed and the handlers are done,   *)
(* maybe before the thread in stop() has got to the worker.  main drops    *)
(* its logger, ~Impl stops the worker once more and main returns.          *)
MainReturns ==
  /\ exit \in {"stopping", "stopped"} /\ Idle
  /\ exit' = "returned" /\ StopWorker
  /\ UNCHANGED <<requests, resets>>

(* Stopping a worker begins with a line for the log.  After main has       *)
(* dropped the logger that line is undefined behaviour: it may be lost, as *)
(* above, or be the end of the process.                                    *)
LoggingCrashes ==
  /\ exit \in {"stopping", "stopped"} /\ Idle /\ has
  /\ exit' = "crashed" /\ UNCHANGED <<worker, requests, resets>>

(* Ctrl+C: the signal handler calls stop() and then exit(0), which runs no *)
(* destructor of main's locals and waits for no handler.                   *)
SignalExits ==
  /\ exit = "stopped"
  /\ exit' = "killed"
  /\ UNCHANGED <<worker, requests, resets>>

(* What the handler does on its own account.                               *)
Handler(r) == GetPort(r) \/ Arrive(r) \/ TransportFails(r) \/ RestartFailed(r) \/ PostStreamCheck(r)

(* What the worker does with the operation.                                *)
Operation(r) == Finish(r) \/ WorkerFaults(r) \/ WorkerIsSilent(r)

Request(r) ==
  \/ EnsureWorkerReady(r) \/ Handler(r) \/ Operation(r)
  \/ ClientLeaves(r) \/ Canceled(r) \/ AbandonedEnds(r)

Reset(z) == Look(z) \/ Recycle(z) \/ LookAgain(z)

Next ==
  \/ \E r \in Requests : Request(r)
  \/ \E z \in Resets : Reset(z)
  \/ Health \/ WorkerExits \/ Stop \/ StopStopsWorker
  \/ MainReturns \/ LoggingCrashes \/ SignalExits

Spec == Init /\ [][Next]_vars

(* Nobody has to send a request or a reset; once it is there its handler   *)
(* runs.  The operations end (StoredStream; its own watchdog), but not a   *)
(* realtime query, for which JV-Link may say "once more" for ever          *)
(* (RealtimeStream).  When the client has left there is a heartbeat to     *)
(* write, or without heartbeats the read timeout.                          *)
Fairness ==
  /\ \A r \in Requests : WF_vars(Handler(r))
  /\ \A r \in Requests \ Realtime : WF_vars(Operation(r))
  /\ \A r \in Streams : WF_vars(Canceled(r) \/ (r \in left /\ WorkerIsSilent(r)))
  /\ \A z \in Resets : WF_vars(Recycle(z) \/ LookAgain(z))
  /\ WF_vars(StopStopsWorker) /\ WF_vars(MainReturns)

FairSpec == Spec /\ Fairness

-----------------------------------------------------------------------------
(* The variables range over the values of their C++ types; ports are those *)
(* of workers that were started.                                           *)
TypeOK ==
  /\ has \in BOOLEAN /\ healthy \in BOOLEAN
  /\ generation \in 1..MaxGenerations /\ alive \subseteq 1..generation
  /\ session \in Requests \union {"none"}
  /\ pc \in [Requests -> {"new", "ready", "routed", "working", "failed", "ended", "done"}]
  /\ port \in [Requests -> 0..generation] /\ left \subseteq Streams
  /\ reset \in [Resets -> {"new", "looked", "recycled", "noop", "restarted", "unavailable"}]
  /\ seen \in [Resets -> [fit : BOOLEAN, holder : Requests \union {"none"}]]
  /\ exit \in {"up", "stopping", "stopped", "returned", "killed", "crashed"}

(* However restarts, crashes and resets cross, the supervisor never loses  *)
(* track of a worker that runs, and so never runs two on one JV-Link.      *)
NoLostWorker == alive # {} => has /\ alive = {generation}

(* CHANGELOG 0.8.2: on /session/reset a busy worker is recycled.  When the *)
(* reset is answered, the session it saw is over.                          *)
ResetEndsSession ==
  \A z \in Resets :
    reset[z] \in {"noop", "restarted", "unavailable"} /\ seen[z].holder # "none"
      => session # seen[z].holder

(* A supervisor whose main has returned leaves no worker behind, although  *)
(* handlers that lose their worker to stop() start another one.            *)
ReturnLeavesNoWorker == exit = "returned" => alive = {}

(* Every handler returns, whatever becomes of the worker: that of a        *)
(* realtime query at the latest when its client has left, the others in    *)
(* any case.                                                               *)
RequestsEnd ==
  /\ \A r \in Requests \ Realtime : pc[r] = "ready" ~> (pc[r] = "done" \/ Gone)
  /\ \A r \in Realtime : r \in left ~> (pc[r] = "done" \/ Gone)

UnderWay == \E r \in Requests : pc[r] \notin {"new", "done"}

(* A worker that is faulted while some request is under way, its own or    *)
(* another, is replaced: by the request that meets the fault or by the     *)
(* check after its stream, and by no check that comes too early.  A fault  *)
(* after the last handler has returned (its client left, the operation did *)
(* not end) is met by the next request.                                    *)
FaultsHeal == Live /\ ~healthy /\ UnderWay ~> (~(Live /\ ~healthy) \/ Gone)
=============================================================================
