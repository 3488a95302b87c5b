--------------------------- MODULE ServerLifecycle ---------------------------
(***************************************************************************)
(* The life of a server process as the Python clients see it: each client  *)
(* has a ProcessManager that looks for a server, starts one if none        *)
(* answers, waits until it is healthy, and at the end stops the one it has *)
(* started.  Several clients, and a server started by hand, meet on one    *)
(* port.                                                                   *)
(*                                                                         *)
(* Of a server there is what a client can see or end: its phases from      *)
(* SupervisorHTTPServer::start to the return of main, its worker process,  *)
(* and whether it answers in time: the handlers of Supervisor hold the     *)
(* mutex that /health takes over a restart, and event streams may take all *)
(* threads (RequestPool).  The server a manager starts has its name.       *)
(***************************************************************************)
CONSTANTS
  Managers,   (* clients with their ProcessManager, one start each *)
  Hand        (* the server that somebody started by hand          *)

ASSUME LifecycleAssumption == Hand \notin Managers

Servers == Managers \union {Hand}

VARIABLES
  client,     (* where each manager is                                     *)
  handle,     (* _server_process is not None                               *)
  server,     (* none, booting, open, closing, gone                        *)
  ended,      (* how: no, returned, terminated, crashed                    *)
  process,    (* its worker: none, starting, fit, unfit                    *)
  blocked,    (* it does not answer in time                                *)
  missed,     (* history: a manager got no answer from the server started  *)
              (* by hand and started another beside it                     *)
  entered,    (* history: that server was started beside a manager's, or   *)
              (* with the stop() of a manager that had one still to come   *)
  intruded    (* history: that server was stopped by a manager             *)

managers == <<client, handle>>
servers == <<server, ended, process, blocked>>
history == <<missed, entered, intruded>>
lifeVars == <<managers, servers, history>>

Listening(s) == server[s] = "open"
Answers(s) == Listening(s) /\ ~blocked[s]
Healthy(s) == Answers(s) /\ process[s] = "fit"

(* No server at all.                                                       *)
LifeInit ==
  /\ client = [m \in Managers |-> "new"] /\ handle = [m \in Managers |-> FALSE]
  /\ server = [s \in Servers |-> "none"] /\ ended = [s \in Servers |-> "no"]
  /\ process = [s \in Servers |-> "none"] /\ blocked = [s \in Servers |-> FALSE]
  /\ missed = FALSE /\ entered = FALSE /\ intruded = FALSE

-----------------------------------------------------------------------------
(* A server process.                                                       *)
Becomes(s, from, to) == server[s] = from /\ server' = [server EXCEPT ![s] = to]
Ends(s, how) ==
  /\ server' = [server EXCEPT ![s] = "gone"] /\ ended' = [ended EXCEPT ![s] = how]
  /\ blocked' = [blocked EXCEPT ![s] = FALSE]
WorkerBecomes(s, to) == process' = [process EXCEPT ![s] = to]

Up(s) == server[s] \in {"booting", "open", "closing"}

(* Somebody starts JVLinkServer.exe, before the clients or beside them.  A *)
(* server that boots has its worker starting.                              *)
StartByHand ==
  /\ Becomes(Hand, "none", "booting") /\ WorkerBecomes(Hand, "starting")
  /\ entered' = \E m \in Managers : handle[m] \/ Up(m)
  /\ UNCHANGED <<managers, ended, blocked, missed, intruded>>

(* start(): the worker first, then the port.                               *)
WorkerNotReady(s) ==
  /\ server[s] = "booting" /\ WorkerBecomes(s, "none")
  /\ Ends(s, "returned") /\ UNCHANGED <<managers, history>>

(* The port may be shared on Windows (httplib sets SO_REUSEADDR) ...       *)
Listen(s) ==
  /\ Becomes(s, "booting", "open") /\ WorkerBecomes(s, "fit")
  /\ UNCHANGED <<managers, ended, blocked, history>>

(* ... or refused: start() fails, main returns 1, ~Impl logs through the   *)
(* logger main has dropped, and stops the worker if it gets past that.     *)
PortRefused(s) ==
  /\ server[s] = "booting" /\ \E other \in Servers : Listening(other)
  /\ \/ Ends(s, "crashed") /\ WorkerBecomes(s, "fit")
     \/ Ends(s, "returned") /\ WorkerBecomes(s, "none")
  /\ UNCHANGED <<managers, history>>

(* The worker faults, hangs or exits.                                      *)
WorkerFails(s) ==
  /\ Listening(s) /\ process[s] = "fit" /\ ~blocked[s] /\ WorkerBecomes(s, "unfit")
  /\ UNCHANGED <<managers, server, ended, blocked, history>>

(* A handler that met it restarts it, /health waits for its answer, or the *)
(* pool has no thread left.                                                *)
Blocks(s) ==
  /\ Answers(s) /\ blocked' = [blocked EXCEPT ![s] = TRUE]
  /\ UNCHANGED <<managers, server, ended, process, history>>

Unblocks(s) ==
  /\ blocked[s] /\ blocked' = [blocked EXCEPT ![s] = FALSE]
  /\ \E to \in {"fit", "none", process[s]} : WorkerBecomes(s, to)
  /\ UNCHANGED <<managers, server, ended, history>>

(* Ctrl+C.                                                                 *)
Interrupt(s) ==
  /\ Becomes(s, "open", "closing")
  /\ UNCHANGED <<managers, ended, process, blocked, history>>

(* stopWorkerLocked: asked to leave, or terminated three seconds later.    *)
EndWorker(s) ==
  /\ server[s] = "closing" /\ ~blocked[s] /\ process[s] # "none" /\ WorkerBecomes(s, "none")
  /\ UNCHANGED <<managers, server, ended, blocked, history>>

ServerReturns(s) ==
  /\ server[s] = "closing" /\ ~blocked[s] /\ process[s] = "none"
  /\ Ends(s, "returned") /\ UNCHANGED <<managers, process, history>>

(* ~Impl finds a worker when main has dropped its logger (Supervisor).     *)
ExitCrashes(s) ==
  /\ server[s] = "closing" /\ ~blocked[s] /\ process[s] # "none"
  /\ Ends(s, "crashed") /\ UNCHANGED <<managers, process, history>>

(* A worker that was asked to leave just before its server ended does so,  *)
(* if JV-Link lets it.                                                     *)
OrphanLeaves(s) ==
  /\ ended[s] = "terminated" /\ process[s] # "none" /\ WorkerBecomes(s, "none")
  /\ UNCHANGED <<managers, server, ended, blocked, history>>

-----------------------------------------------------------------------------
(* ProcessManager.                                                         *)
Moves(m, from, to) == client[m] = from /\ client' = [client EXCEPT ![m] = to]

(* Slip (corrected in 0.8.2): an unhealthy answer is no answer.            *)
NobodyHealthy ==
  \/ \A s \in Servers : ~Listening(s)
  \/ \E s \in Servers : Listening(s) /\ ~Healthy(s)

(* _probe_server: nobody listens, or who does is not in time.              *)
NoAnswer ==
  \/ \A s \in Servers : ~Listening(s)
  \/ \E s \in Servers : Listening(s) /\ blocked[s]

(* start(): no answer, so a server of its own.                             *)
StartServer(m) ==
  /\ NoAnswer /\ Moves(m, "new", "starting")
  /\ handle' = [handle EXCEPT ![m] = TRUE]
  /\ server' = [server EXCEPT ![m] = "booting"]
  /\ process' = [process EXCEPT ![m] = "starting"]
  /\ missed' = (missed \/ server[Hand] = "booting" \/ (Listening(Hand) /\ blocked[Hand]))
  /\ UNCHANGED <<ended, blocked, entered, intruded>>

NotFound(m) ==
  /\ NoAnswer /\ Moves(m, "new", "failed")
  /\ UNCHANGED <<handle, servers, history>>

(* A healthy server is joined, an unhealthy one is an error.               *)
Join(m) ==
  /\ \E s \in Servers :
       \/ Healthy(s) /\ Moves(m, "new", "joining")
       \/ Answers(s) /\ ~Healthy(s) /\ Moves(m, "new", "failed")
  /\ UNCHANGED <<handle, servers, history>>

(* Slip: whoever waits in vain just gives up.                              *)
GiveUp(m) ==
  /\ \/ Moves(m, "starting", "failed")
     \/ Moves(m, "joining", "failed")
  /\ UNCHANGED <<handle, servers, history>>

(* The error is raised after the server of its own has been stopped.       *)
StartRaises(m) ==
  /\ \/ Moves(m, "starting", "asking")
     \/ Moves(m, "joining", "failed")
  /\ UNCHANGED <<handle, servers, history>>

(* _wait_for_server, and the transport that is started after it.           *)
Serve(m) ==
  /\ \E s \in Servers : Healthy(s)
  /\ \E from \in {"starting", "joining"} : Moves(m, from, "running")
  /\ UNCHANGED <<handle, servers, history>>

Unhealthy(m) == (\E s \in Servers : Answers(s) /\ ~Healthy(s)) /\ StartRaises(m)

StartupTimeout(m) == StartRaises(m)

(* CancelledError passes both handlers of start().                         *)
Cancel(m) ==
  /\ \E from \in {"starting", "joining"} : Moves(m, from, "cancelled")
  /\ UNCHANGED <<handle, servers, history>>

(* Client.stop.                                                            *)
StopClient(m) ==
  /\ \E from \in {"running", "cancelled"} :
       Moves(m, from, IF handle[m] THEN "asking" ELSE "stopped")
  /\ UNCHANGED <<handle, servers, history>>

(* POST /shutdown goes to whoever has the port ...                         *)
AskServer(m) ==
  /\ Moves(m, "asking", "waiting")
  /\ \E s \in Servers :
       Becomes(s, "open", "closing") /\ intruded' = (intruded \/ s = Hand)
  /\ UNCHANGED <<handle, ended, process, blocked, missed, entered>>

(* ... if anybody has, and has a thread left for it ...                    *)
NobodyToAsk(m) ==
  /\ Moves(m, "asking", "waiting") /\ \A s \in Servers : Listening(s) => blocked[s]
  /\ UNCHANGED <<handle, servers, history>>

(* ... and half a second later its own process is made to end.             *)
EndProcess(m) ==
  /\ Moves(m, "waiting", "stopped") /\ handle' = [handle EXCEPT ![m] = FALSE]
  /\ IF server[m] = "gone" THEN UNCHANGED servers ELSE Ends(m, "terminated") /\ UNCHANGED process
  /\ UNCHANGED history

(* An exception comes out of _stop_server: a CancelledError at the POST,   *)
(* in the half second after it or in the wait, or the timeout of the last  *)
(* wait.  The process is forgotten all the same; it runs on, or not for    *)
(* long if it was already being terminated.  A later stop() returns at     *)
(* once.                                                                   *)
StopBreaksOff(m) ==
  /\ \E from \in {"asking", "waiting"} : Moves(m, from, "broken")
  /\ handle' = [handle EXCEPT ![m] = FALSE]
  /\ \/ UNCHANGED servers
     \/ client[m] = "waiting" /\ Up(m) /\ Ends(m, "terminated") /\ UNCHANGED process
  /\ UNCHANGED history

-----------------------------------------------------------------------------
Serving(s) ==
  \/ WorkerNotReady(s) \/ Listen(s) \/ PortRefused(s) \/ WorkerFails(s)
  \/ Blocks(s) \/ Unblocks(s) \/ Interrupt(s) \/ EndWorker(s)
  \/ ServerReturns(s) \/ ExitCrashes(s) \/ OrphanLeaves(s)

Managing(m) ==
  \/ StartServer(m) \/ NotFound(m) \/ Join(m) \/ Serve(m) \/ Unhealthy(m) \/ StartupTimeout(m)
  \/ AskServer(m) \/ NobodyToAsk(m) \/ EndProcess(m)

LifeNext ==
  \/ \E s \in Servers : Serving(s)
  \/ StartByHand
  \/ \E m \in Managers : Managing(m) \/ Cancel(m) \/ StopClient(m) \/ StopBreaksOff(m)

LifeSpec == LifeInit /\ [][LifeNext]_lifeVars

-----------------------------------------------------------------------------
(* The variables keep to the values listed above.                          *)
LifeTypes ==
  /\ client \in [Managers -> {"new", "joining", "starting", "running", "cancelled", "asking",
                              "waiting", "failed", "stopped", "broken"}]
  /\ handle \in [Managers -> BOOLEAN]
  /\ server \in [Servers -> {"none", "booting", "open", "closing", "gone"}]
  /\ ended \in [Servers -> {"no", "returned", "terminated", "crashed"}]
  /\ process \in [Servers -> {"none", "starting", "fit", "unfit"}]
  /\ blocked \in [Servers -> BOOLEAN]
  /\ {missed, entered, intruded} \subseteq BOOLEAN

(* CHANGELOG 0.8.2: an unhealthy server is not taken for one that does not *)
(* run.  A manager that found a server started by hand never stops it: a   *)
(* /shutdown goes to whoever has the port, so that server is hit only if   *)
(* the two were started beside each other, one way or the other: some      *)
(* manager got no answer from it and started its own, or it was started    *)
(* while a manager's server ran or a manager still had one to stop.        *)
StrangersAreSpared == intruded => missed \/ entered

(* A worker without its server is what an end from outside, or a crash on  *)
(* the way out, has left; a server that ends by itself leaves none.        *)
OrphansHaveAReason ==
  \A s \in Servers :
    server[s] = "gone" /\ process[s] # "none" => ended[s] \in {"terminated", "crashed"}

(* Whichever way start() gives up, without an answer, with an unhealthy    *)
(* one, after a timeout, and whatever stop() meets, a manager that is      *)
(* through leaves no server process of its own behind.  One that runs is   *)
(* known to its manager and will be ended by its stop(), also after a      *)
(* cancelled start(); the exception is a stop that an exception broke off, *)
(* after which the process may run and nobody knows it.                    *)
NoServerLeft ==
  \A m \in Managers :
    /\ client[m] \in {"failed", "stopped"} => server[m] \in {"none", "gone"}
    /\ Up(m) => handle[m] \/ client[m] = "broken"

(* Nothing is left behind, neither of a manager nor of a server.           *)
NothingLeftBehind == OrphansHaveAReason /\ NoServerLeft
=============================================================================
