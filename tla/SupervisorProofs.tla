-------------------------- MODULE SupervisorProofs --------------------------
(***************************************************************************)
(* Proofs about the supervisor from the inside and from the outside.       *)
(*                                                                         *)
(* Supervisor, for any sets of requests and resets and any number of       *)
(* restarts: its types, that no worker is lost track of, that a reset ends *)
(* the session it saw, and that nothing is left behind when the supervisor *)
(* returns from main.                                                      *)
(*                                                                         *)
(* ServerLifecycle: managers spare a server they have not started, and     *)
(* leave nothing behind, for any number of managers.                       *)
(***************************************************************************)
EXTENDS Supervisor, ServerLifecycle, TLAPS

(* A request that was once in a session is not admitted again.             *)
Served == {"working", "failed", "ended", "done"}
Answered == {"noop", "restarted", "unavailable"}

SessionInv ==
  /\ session # "none" => pc[session] \in Served
  /\ \A z \in Resets : seen[z].holder # "none" => pc[seen[z].holder] \in Served

ResetInv ==
  \A z \in Resets :
    reset[z] \in Answered \union {"recycled"} /\ seen[z].holder # "none"
      => session # seen[z].holder

SupervisorInv == TypeOK /\ NoLostWorker /\ SessionInv /\ ResetInv

LEMMA InitSupervisorInv == Init => SupervisorInv
<1> SUFFICES ASSUME Init PROVE SupervisorInv
  OBVIOUS
<1> USE SupervisorAssumption DEF Init, InitWithout, NotSeen
<1>1. TypeOK
  BY DEF TypeOK
<1>2. NoLostWorker /\ SessionInv /\ ResetInv
  BY DEF NoLostWorker, SessionInv, ResetInv, Answered
<1> QED
  BY <1>1, <1>2 DEF SupervisorInv

-----------------------------------------------------------------------------
(* What the operations of WorkerProcessManager leave behind.               *)
LEMMA RestartEffect ==
  ASSUME TypeOK, NoLostWorker, Restart
  PROVE  /\ has' \in BOOLEAN /\ healthy' \in BOOLEAN
         /\ generation' \in 1..MaxGenerations /\ generation <= generation'
         /\ alive' \subseteq 1..generation'
         /\ NoLostWorker' /\ session' = "none"
<1> USE SupervisorAssumption DEF TypeOK, NoLostWorker
<1>1. CASE StartFails
  <2>1. alive' = {}
    BY <1>1 DEF StartFails, Kill
  <2>2. generation' \in 1..MaxGenerations /\ generation <= generation'
    BY <1>1 DEF StartFails
  <2> QED
    BY <1>1, <2>1, <2>2 DEF StartFails
<1>2. CASE StartSucceeds
  BY <1>2 DEF StartSucceeds
<1> QED
  BY <1>1, <1>2 DEF Restart

LEMMA StopEffect ==
  ASSUME TypeOK, NoLostWorker, StopWorker
  PROVE  alive' = {} /\ has' = FALSE /\ session' = "none"
         /\ UNCHANGED <<generation, healthy>>
BY DEF TypeOK, NoLostWorker, StopWorker, Kill

(* A step that leaves no session, and no request less served than it was.  *)
LEMMA SessionOver ==
  ASSUME SupervisorInv, session' = "none", UNCHANGED seen,
         \A z \in Resets : reset'[z] \in {"new", "looked"} => reset[z] \in {"new", "looked"},
         \A r \in Requests : pc[r] \in Served => pc'[r] \in Served
  PROVE  SessionInv' /\ ResetInv'
BY DEF SupervisorInv, SessionInv, ResetInv, TypeOK

LEMMA RestartStep ==
  ASSUME SupervisorInv, NEW r \in Requests,
         EnsureWorkerReady(r) \/ RestartFailed(r) \/ PostStreamCheck(r)
  PROVE  SupervisorInv'
<1> USE DEF requests, routes, resets
<1>1. CASE UNCHANGED worker
  <2>1. /\ \E from \in {"new", "failed", "ended"}, to \in {"ready", "done"} :
             Goto(r, from, to) /\ (from # "new" => to = "done")
        /\ UNCHANGED <<routes, resets, exit>>
    BY <1>1 DEF EnsureWorkerReady, RestartFailed, PostStreamCheck
  <2> QED
    BY <1>1, <2>1 DEF Goto, SupervisorInv, TypeOK, NoLostWorker, SessionInv, ResetInv, worker, Served
<1>2. CASE Restart
  <2>1. /\ \E from \in {"new", "failed", "ended"}, to \in {"ready", "done"} :
             Goto(r, from, to) /\ (from # "new" => to = "done")
        /\ UNCHANGED <<routes, resets, exit>>
    BY DEF EnsureWorkerReady, RestartFailed, PostStreamCheck
  <2>2. /\ has' \in BOOLEAN /\ healthy' \in BOOLEAN
        /\ generation' \in 1..MaxGenerations /\ generation <= generation'
        /\ alive' \subseteq 1..generation'
        /\ NoLostWorker' /\ session' = "none"
    BY <1>2, RestartEffect DEF SupervisorInv
  <2>3. TypeOK'
    BY <2>1, <2>2 DEF Goto, SupervisorInv, TypeOK
  <2>4. SessionInv' /\ ResetInv'
    <3>1. \A q \in Requests : pc[q] \in Served => pc'[q] \in Served
      BY <2>1 DEF Goto, SupervisorInv, TypeOK, Served
    <3> QED
      BY <2>1, <2>2, <3>1, SessionOver
  <2> QED
    BY <2>2, <2>3, <2>4 DEF SupervisorInv
<1> QED
  BY <1>1, <1>2 DEF EnsureWorkerReady, RestartFailed, PostStreamCheck, Restart

(* The steps of a request that leave the worker process alone.             *)
LEMMA ProxyStep ==
  ASSUME SupervisorInv, NEW r \in Requests,
         \/ GetPort(r) \/ Arrive(r) \/ Finish(r) \/ WorkerFaults(r)
         \/ WorkerIsSilent(r) \/ ClientLeaves(r) \/ Canceled(r) \/ AbandonedEnds(r)
         \/ TransportFails(r)
  PROVE  SupervisorInv'
<1> USE SupervisorAssumption
    DEF SupervisorInv, TypeOK, NoLostWorker, SessionInv, ResetInv, Goto, worker, requests, routes,
        resets, Served, Answered
<1>1. CASE GetPort(r) BY <1>1 DEF GetPort
<1>2. CASE Arrive(r) BY <1>2 DEF Arrive
<1>3. CASE Finish(r) BY <1>3 DEF Finish
<1>4. CASE WorkerFaults(r) BY <1>4 DEF WorkerFaults
<1>5. CASE WorkerIsSilent(r) BY <1>5 DEF WorkerIsSilent
<1>6. CASE AbandonedEnds(r) BY <1>6 DEF AbandonedEnds
<1>7. CASE TransportFails(r) BY <1>7 DEF TransportFails
<1>8. CASE ClientLeaves(r) BY <1>8 DEF ClientLeaves
<1>9. CASE Canceled(r) BY <1>9 DEF Canceled
<1> QED
  BY <1>1, <1>2, <1>3, <1>4, <1>5, <1>6, <1>7, <1>8, <1>9

LEMMA ResetStep ==
  ASSUME SupervisorInv, NEW z \in Resets, Reset(z)
  PROVE  SupervisorInv'
<1> USE SupervisorAssumption DEF Advance, requests, routes, resets
<1>1. CASE Look(z)
  BY <1>1 DEF Look, TakeSnapshot, Live, Fit, SupervisorInv, TypeOK, NoLostWorker, SessionInv,
              ResetInv, Answered
<1>2. CASE Recycle(z)
  <2>1. /\ has' \in BOOLEAN /\ healthy' \in BOOLEAN
        /\ generation' \in 1..MaxGenerations /\ generation <= generation'
        /\ alive' \subseteq 1..generation'
        /\ NoLostWorker' /\ session' = "none"
    BY <1>2, RestartEffect DEF SupervisorInv, Recycle
  <2>2. TypeOK'
    BY <1>2, <2>1 DEF Recycle, SupervisorInv, TypeOK
  <2>3. SessionInv' /\ ResetInv'
    BY <1>2, <2>1, SessionOver DEF Recycle, SupervisorInv, TypeOK
  <2> QED
    BY <2>1, <2>2, <2>3 DEF SupervisorInv
<1>3. CASE LookAgain(z)
  BY <1>3 DEF LookAgain, TakeSnapshot, NeedsRestart, Live, Fit, SupervisorInv, TypeOK,
              NoLostWorker, SessionInv, ResetInv, Answered
<1> QED
  BY <1>1, <1>2, <1>3 DEF Reset

LEMMA ExitStep ==
  ASSUME SupervisorInv,
         \/ Health \/ WorkerExits \/ Stop \/ StopStopsWorker
         \/ MainReturns \/ LoggingCrashes \/ SignalExits
  PROVE  SupervisorInv'
<1> USE DEF requests, routes, resets, worker
<1>1. CASE WorkerExits
  <2>1. SessionInv' /\ ResetInv'
    BY <1>1, SessionOver DEF WorkerExits
  <2> QED
    BY <1>1, <2>1 DEF WorkerExits, SupervisorInv, TypeOK, NoLostWorker
<1>2. CASE Stop \/ LoggingCrashes \/ SignalExits
  BY <1>2 DEF Stop, LoggingCrashes, SignalExits, SupervisorInv, TypeOK, NoLostWorker, SessionInv, ResetInv
<1>3. CASE Health
  BY <1>3 DEF Health, TakeSnapshot, Live, SupervisorInv, TypeOK, NoLostWorker, SessionInv, ResetInv
<1>4. CASE StopStopsWorker \/ MainReturns
  <2>1. alive' = {} /\ has' = FALSE /\ session' = "none" /\ UNCHANGED <<generation, healthy>>
    BY <1>4, StopEffect DEF StopStopsWorker, MainReturns, SupervisorInv
  <2>2. UNCHANGED <<pc, port, left, reset, seen>> /\ exit' \in {"stopped", "returned"}
    BY <1>4 DEF StopStopsWorker, MainReturns
  <2>3. SessionInv' /\ ResetInv'
    BY <2>1, <2>2, SessionOver
  <2> QED
    BY <2>1, <2>2, <2>3 DEF SupervisorInv, TypeOK, NoLostWorker
<1> QED
  BY <1>1, <1>2, <1>3, <1>4

LEMMA NextSupervisorInv == SupervisorInv /\ [Next]_vars => SupervisorInv'
<1> SUFFICES ASSUME SupervisorInv, [Next]_vars PROVE SupervisorInv'
  OBVIOUS
<1>1. CASE UNCHANGED vars
  BY <1>1 DEF vars, worker, requests, routes, resets, SupervisorInv, TypeOK, NoLostWorker, SessionInv,
              ResetInv
<1>2. ASSUME NEW r \in Requests, Request(r) PROVE SupervisorInv'
  BY <1>2, RestartStep, ProxyStep DEF Request, Handler, Operation
<1>3. ASSUME NEW z \in Resets, Reset(z) PROVE SupervisorInv'
  BY <1>3, ResetStep
<1>4. CASE \/ Health \/ WorkerExits \/ Stop \/ StopStopsWorker
            \/ MainReturns \/ LoggingCrashes \/ SignalExits
  BY <1>4, ExitStep
<1> QED
  BY <1>1, <1>2, <1>3, <1>4 DEF Next

(* The inductive invariant of the supervisor.                              *)
THEOREM SupervisorInvariant == Spec => []SupervisorInv
BY InitSupervisorInv, NextSupervisorInv, PTL DEF Spec

(* Each variable keeps to the values of its C++ type (TypeOK).             *)
THEOREM SupervisorTypes == Spec => []TypeOK
<1>1. SupervisorInv => TypeOK
  BY DEF SupervisorInv
<1> QED
  BY <1>1, SupervisorInvariant, PTL

(* The process WorkerProcessManager knows is the only worker that runs.    *)
THEOREM SupervisorLosesNoWorker == Spec => []NoLostWorker
<1>1. SupervisorInv => NoLostWorker
  BY DEF SupervisorInv
<1> QED
  BY <1>1, SupervisorInvariant, PTL

(* handleSessionReset answers only when the session it saw is over.        *)
THEOREM SupervisorResetEndsSession == Spec => []ResetEndsSession
<1>1. SupervisorInv => ResetEndsSession
  BY DEF SupervisorInv, ResetInv, ResetEndsSession, Answered
<1> QED
  BY <1>1, SupervisorInvariant, PTL

-----------------------------------------------------------------------------
(* The stop() of the destructor is the last word.                          *)
LEMMA GoneStep ==
  ASSUME SupervisorInv, ReturnLeavesNoWorker, [Next]_vars
  PROVE  ReturnLeavesNoWorker'
<1> USE DEF ReturnLeavesNoWorker, worker, requests, routes, resets
<1>1. CASE UNCHANGED vars
  BY <1>1 DEF vars
<1>2. ASSUME NEW r \in Requests, Request(r) PROVE ReturnLeavesNoWorker'
  BY <1>2 DEF Request, Handler, Operation, EnsureWorkerReady, GetPort, Arrive, Finish, WorkerFaults,
              WorkerIsSilent, ClientLeaves, Canceled, AbandonedEnds, TransportFails, RestartFailed, PostStreamCheck, Goto, Gone
<1>3. ASSUME NEW z \in Resets, Reset(z) PROVE ReturnLeavesNoWorker'
  BY <1>3 DEF Reset, Look, Recycle, LookAgain, TakeSnapshot, Advance, Gone
<1>4. CASE Health \/ WorkerExits \/ Stop \/ StopStopsWorker \/ LoggingCrashes \/ SignalExits
  BY <1>4 DEF Health, Gone, TakeSnapshot, WorkerExits, Stop, StopStopsWorker, LoggingCrashes,
              SignalExits
<1>5. CASE MainReturns
  BY <1>5, StopEffect DEF MainReturns, SupervisorInv
<1> QED
  BY <1>1, <1>2, <1>3, <1>4, <1>5 DEF Next

(* A supervisor whose main returns leaves no worker process behind,        *)
(* whatever its handlers restart in the meantime (~Impl, main).            *)
THEOREM ReturnedSupervisorLeavesNoWorker == Spec => []ReturnLeavesNoWorker
<1>1. Init => ReturnLeavesNoWorker
  BY DEF Init, InitWithout, ReturnLeavesNoWorker
<1>2. SupervisorInv /\ ReturnLeavesNoWorker /\ [Next]_vars => ReturnLeavesNoWorker'
  BY GoneStep
<1> QED
  BY <1>1, <1>2, SupervisorInvariant, PTL DEF Spec

-----------------------------------------------------------------------------
(* A manager owns a process from StartServer to EndProcess.                *)
OwnInv ==
  \A m \in Managers :
    /\ client[m] \in {"new", "joining"} => server[m] = "none"
    /\ client[m] \in {"starting", "asking", "waiting"} => handle[m]
    /\ client[m] \in {"failed", "stopped", "broken"} => ~handle[m]
    /\ handle[m] => server[m] # "none"
    /\ ~handle[m] => server[m] \in {"none", "gone"} \/ client[m] = "broken"

(* While the server started by hand is coming or there, and it was neither *)
(* missed nor started beside another, no manager's server runs and no      *)
(* manager has one to stop.                                                *)
AloneInv ==
  ~missed /\ ~entered /\ server[Hand] \in {"booting", "open"} =>
    \A m \in Managers : server[m] \in {"none", "gone"} /\ ~handle[m]

(* A server that was never started was never stopped.                      *)
HandInv == server[Hand] = "none" => ~intruded

(* Who keeps callers waiting is there.                                     *)
BlockedInv == \A s \in Servers : blocked[s] => server[s] \in {"open", "closing"}

LifeInv ==
  /\ LifeTypes /\ OwnInv /\ AloneInv /\ HandInv /\ BlockedInv
  /\ StrangersAreSpared /\ OrphansHaveAReason

(* Before any start() there is no server.                                  *)
LEMMA InitEstablishesLifeInv ==
  ASSUME LifeInit
  PROVE  LifeInv
<1>1. LifeTypes BY DEF LifeInit, LifeTypes
<1>2. OwnInv BY LifecycleAssumption DEF LifeInit, OwnInv, Servers
<1>3. AloneInv BY LifecycleAssumption DEF LifeInit, AloneInv, Servers
<1>4. BlockedInv /\ HandInv BY DEF LifeInit, BlockedInv, HandInv
<1>5. StrangersAreSpared BY DEF LifeInit, StrangersAreSpared
<1>6. OrphansHaveAReason BY DEF LifeInit, OrphansHaveAReason
<1> QED BY <1>1, <1>2, <1>3, <1>4, <1>5, <1>6 DEF LifeInv

(* What a server process and its worker do by themselves: no manager moves,*)
(* nobody is missed, and no process is started or leaves the dead.         *)
LEMMA ServingKeepsLifeInv ==
  ASSUME LifeInv, NEW s \in Servers, Serving(s)
  PROVE  LifeInv'
<1> USE DEF Ends, WorkerBecomes, Becomes, Listening, Answers, managers, history
<1>0. /\ LifeTypes /\ OwnInv /\ AloneInv /\ HandInv /\ BlockedInv
      /\ StrangersAreSpared /\ OrphansHaveAReason
  BY DEF LifeInv
<1>1. UNCHANGED <<client, handle, missed, entered, intruded>>
  BY DEF Serving, WorkerNotReady, Listen, PortRefused, WorkerFails, Blocks, Unblocks, Interrupt,
         EndWorker, ServerReturns, ExitCrashes, OrphanLeaves
<1>2. LifeTypes'
  <2>1. CASE WorkerNotReady(s) BY <1>0, <1>1, <2>1 DEF LifeTypes, WorkerNotReady
  <2>2. CASE Listen(s) BY <1>0, <1>1, <2>2 DEF LifeTypes, Listen
  <2>3. CASE PortRefused(s) BY <1>0, <1>1, <2>3 DEF LifeTypes, PortRefused
  <2>4. CASE WorkerFails(s) BY <1>0, <1>1, <2>4 DEF LifeTypes, WorkerFails
  <2>5. CASE Blocks(s) BY <1>0, <1>1, <2>5 DEF LifeTypes, Blocks
  <2>6. CASE Unblocks(s) BY <1>0, <1>1, <2>6 DEF LifeTypes, Unblocks
  <2>7. CASE Interrupt(s) BY <1>0, <1>1, <2>7 DEF LifeTypes, Interrupt
  <2>8. CASE EndWorker(s) BY <1>0, <1>1, <2>8 DEF LifeTypes, EndWorker
  <2>9. CASE ServerReturns(s) BY <1>0, <1>1, <2>9 DEF LifeTypes, ServerReturns
  <2>10. CASE ExitCrashes(s) BY <1>0, <1>1, <2>10 DEF LifeTypes, ExitCrashes
  <2>11. CASE OrphanLeaves(s) BY <1>0, <1>1, <2>11 DEF LifeTypes, OrphanLeaves
  <2> QED BY <2>1, <2>2, <2>3, <2>4, <2>5, <2>6, <2>7, <2>8, <2>9, <2>10, <2>11 DEF Serving
<1>3. /\ \A t \in Servers : server[t] = "none" <=> server'[t] = "none"
      /\ \A t \in Servers : server[t] = "gone" => server'[t] = "gone"
      /\ \A t \in Servers : server'[t] \in {"booting", "open"} => server[t] \in {"booting", "open"}
  <2> USE <1>0 DEF LifeTypes
  <2>1. CASE UNCHANGED server BY <2>1
  <2>2. CASE server' = [server EXCEPT ![s] = "gone"] /\ server[s] \in {"booting", "closing"}
    BY <2>2
  <2>3. CASE Listen(s) BY <2>3 DEF Listen
  <2>4. CASE Interrupt(s) BY <2>4 DEF Interrupt
  <2> QED BY <2>1, <2>2, <2>3, <2>4
          DEF Serving, WorkerNotReady, PortRefused, WorkerFails, Blocks, Unblocks, EndWorker,
              ServerReturns, ExitCrashes, OrphanLeaves
<1>4. OwnInv'
  <2> SUFFICES ASSUME NEW m \in Managers PROVE OwnInv!(m)'
    BY DEF OwnInv
  <2>1. m \in Servers BY DEF Servers
  <2>2. server'[m] \in {"none", "booting", "open", "closing", "gone"} BY <1>2, <2>1 DEF LifeTypes
  <2> QED BY <1>0, <1>1, <1>3, <2>1, <2>2 DEF OwnInv
<1>5. AloneInv'
  BY <1>0, <1>1, <1>3 DEF AloneInv, Servers
<1>6. BlockedInv' /\ OrphansHaveAReason'
  <2> SUFFICES ASSUME NEW t \in Servers PROVE BlockedInv!(t)' /\ OrphansHaveAReason!(t)'
    BY DEF BlockedInv, OrphansHaveAReason
  <2> USE <1>0 DEF LifeTypes, BlockedInv, OrphansHaveAReason
  <2>1. CASE WorkerNotReady(s) BY <2>1 DEF WorkerNotReady
  <2>2. CASE Listen(s) BY <2>2 DEF Listen
  <2>3. CASE PortRefused(s) BY <2>3 DEF PortRefused
  <2>4. CASE WorkerFails(s) BY <2>4 DEF WorkerFails
  <2>5. CASE Blocks(s) BY <2>5 DEF Blocks
  <2>6. CASE Unblocks(s) BY <2>6 DEF Unblocks
  <2>7. CASE Interrupt(s) BY <2>7 DEF Interrupt
  <2>8. CASE EndWorker(s) BY <2>8 DEF EndWorker
  <2>9. CASE ServerReturns(s) BY <2>9 DEF ServerReturns
  <2>10. CASE ExitCrashes(s) BY <2>10 DEF ExitCrashes
  <2>11. CASE OrphanLeaves(s) BY <2>11 DEF OrphanLeaves
  <2> QED BY <2>1, <2>2, <2>3, <2>4, <2>5, <2>6, <2>7, <2>8, <2>9, <2>10, <2>11 DEF Serving
<1>7. StrangersAreSpared' /\ HandInv'
  BY <1>0, <1>1, <1>3 DEF StrangersAreSpared, HandInv, Servers
<1> QED BY <1>2, <1>4, <1>5, <1>6, <1>7 DEF LifeInv

(* What a manager does with its own server and with whoever has the port.  *)
LEMMA ManagingKeepsLifeInv ==
  ASSUME LifeInv, NEW m \in Managers, Managing(m) \/ Cancel(m) \/ StopClient(m) \/ StopBreaksOff(m)
  PROVE  LifeInv'
<1> USE DEF Moves, managers, servers, history
<1>0. /\ LifeTypes /\ OwnInv /\ AloneInv /\ HandInv /\ BlockedInv
      /\ StrangersAreSpared /\ OrphansHaveAReason
  BY DEF LifeInv
<1> DEFINE Steps ==
      /\ UNCHANGED <<handle, servers, history>>
      /\ client' = [client EXCEPT ![m] = client'[m]]
      /\ \/ client[m] = "new" /\ client'[m] \in {"failed", "joining"}
         \/ client[m] = "joining" /\ client'[m] \in {"failed", "running", "cancelled"}
         \/ client[m] = "starting" /\ client'[m] \in {"asking", "running", "cancelled"}
         \/ client[m] \in {"running", "cancelled"} /\ handle[m] /\ client'[m] = "asking"
         \/ client[m] \in {"running", "cancelled"} /\ ~handle[m] /\ client'[m] = "stopped"
         \/ client[m] = "asking" /\ client'[m] = "waiting"
<1>h. Hand \in Servers /\ m \in Servers /\ m # Hand /\ Managers \subseteq Servers BY LifecycleAssumption DEF Servers
<1>1. CASE StartServer(m)
  <2> USE <1>0, <1>h, <1>1 DEF StartServer
  <2>1. LifeTypes' BY DEF LifeTypes
  <2>2. OwnInv' BY DEF LifeTypes, OwnInv
  <2>3. AloneInv'
    <3> SUFFICES ASSUME ~missed', ~entered', server'[Hand] \in {"booting", "open"} PROVE FALSE
      BY DEF AloneInv
    <3>1. ~missed /\ ~entered /\ server[Hand] = "open" /\ ~blocked[Hand]
      BY DEF LifeTypes, Listening
    <3>2. \A n \in Managers : server[n] \in {"none", "gone"} BY <3>1 DEF AloneInv
    <3>3. PICK t \in Servers : Listening(t) /\ blocked[t]
      BY <3>1 DEF NoAnswer, Listening
    <3> QED BY <3>1, <3>2, <3>3 DEF Listening, Servers
  <2>4. BlockedInv' /\ OrphansHaveAReason'
    BY DEF LifeTypes, BlockedInv, OrphansHaveAReason, OwnInv
  <2>5. StrangersAreSpared' /\ HandInv' BY DEF LifeTypes, StrangersAreSpared, HandInv
  <2> QED BY <2>1, <2>2, <2>3, <2>4, <2>5 DEF LifeInv
<1>2. CASE Steps
  <2> USE <1>0, <1>2, <1>h
  <2>1. LifeTypes' BY DEF LifeTypes
  <2>2. OwnInv'
    <3>1. client[m] \in {"new", "joining"} => ~handle[m] BY DEF OwnInv
    <3> QED BY <3>1 DEF LifeTypes, OwnInv
  <2>3. AloneInv' /\ HandInv' /\ BlockedInv' /\ StrangersAreSpared' /\ OrphansHaveAReason'
    BY DEF AloneInv, HandInv, BlockedInv, StrangersAreSpared, OrphansHaveAReason
  <2> QED BY <2>1, <2>2, <2>3 DEF LifeInv
<1>3. CASE AskServer(m)
  <2> USE <1>0, <1>3, <1>h DEF AskServer
  <2>1. PICK s \in Servers : Becomes(s, "open", "closing") /\ intruded' = (intruded \/ s = Hand)
    OBVIOUS
  <2> USE <2>1 DEF Becomes
  <2>2. LifeTypes' BY DEF LifeTypes
  <2>3. OwnInv' BY DEF LifeTypes, OwnInv
  <2>4. AloneInv' BY DEF LifeTypes, AloneInv
  <2>5. BlockedInv' /\ OrphansHaveAReason' BY DEF LifeTypes, BlockedInv, OrphansHaveAReason
  <2>6. StrangersAreSpared'
    <3>1. handle[m] BY DEF OwnInv
    <3>2. s = Hand => missed \/ entered BY <3>1 DEF AloneInv
    <3> QED BY <3>2 DEF StrangersAreSpared
  <2>7. HandInv' BY DEF LifeTypes, HandInv
  <2> QED BY <2>2, <2>3, <2>4, <2>5, <2>6, <2>7 DEF LifeInv
<1>4. CASE EndProcess(m)
  <2> USE <1>0, <1>4, <1>h DEF EndProcess, Ends
  <2>1. LifeTypes' BY DEF LifeTypes
  <2>2. OwnInv' BY DEF LifeTypes, OwnInv
  <2>3. server[m] # "none" BY DEF OwnInv
  <2>4. AloneInv' BY <2>3 DEF LifeTypes, AloneInv
  <2>5. BlockedInv' /\ OrphansHaveAReason' BY DEF LifeTypes, BlockedInv, OrphansHaveAReason
  <2>6. StrangersAreSpared' /\ HandInv' BY DEF LifeTypes, StrangersAreSpared, HandInv
  <2> QED BY <2>1, <2>2, <2>4, <2>5, <2>6 DEF LifeInv
<1>6. CASE StopBreaksOff(m)
  <2> USE <1>0, <1>6, <1>h DEF StopBreaksOff, Ends
  <2>1. LifeTypes' BY DEF LifeTypes
  <2>2. OwnInv'
    <3>1. server[m] # "none" BY DEF OwnInv
    <3> QED BY <3>1 DEF LifeTypes, OwnInv
  <2>3. AloneInv' BY DEF LifeTypes, AloneInv
  <2>4. BlockedInv' /\ OrphansHaveAReason'
    BY DEF LifeTypes, BlockedInv, OrphansHaveAReason, Up
  <2>5. StrangersAreSpared' /\ HandInv' BY DEF LifeTypes, StrangersAreSpared, HandInv
  <2> QED BY <2>1, <2>2, <2>3, <2>4, <2>5 DEF LifeInv
<1>5. StartServer(m) \/ AskServer(m) \/ EndProcess(m) \/ StopBreaksOff(m) \/ Steps
  <2>1. client \in [Managers -> {"new", "joining", "starting", "running", "cancelled", "asking",
                                 "waiting", "failed", "stopped", "broken"}]
    BY <1>0 DEF LifeTypes
  <2>2. CASE NotFound(m) BY <2>1, <2>2 DEF NotFound
  <2>3. CASE Join(m) BY <2>1, <2>3 DEF Join
  <2>4. CASE Serve(m) BY <2>1, <2>4 DEF Serve
  <2>5. CASE Unhealthy(m) \/ StartupTimeout(m)
    BY <2>1, <2>5 DEF Unhealthy, StartupTimeout, StartRaises
  <2>6. CASE NobodyToAsk(m) BY <2>1, <2>6 DEF NobodyToAsk
  <2>7. CASE Cancel(m) BY <2>1, <2>7 DEF Cancel
  <2>8. CASE StopClient(m) BY <2>1, <2>8 DEF StopClient
  <2> QED BY <2>2, <2>3, <2>4, <2>5, <2>6, <2>7, <2>8 DEF Managing
<1> QED BY <1>1, <1>2, <1>3, <1>4, <1>5, <1>6

(* Somebody starts a server, beside what runs or not.                      *)
LEMMA StartByHandKeepsLifeInv ==
  ASSUME LifeInv, StartByHand
  PROVE  LifeInv'
<1> USE DEF LifeInv, StartByHand, Becomes, WorkerBecomes, managers
<1>h. Hand \in Servers /\ Hand \notin Managers /\ Managers \subseteq Servers
  BY LifecycleAssumption DEF Servers
<1>1. LifeTypes' BY <1>h DEF LifeTypes
<1>2. \A m \in Managers : server'[m] = server[m] BY <1>h DEF LifeTypes
<1>3. OwnInv' BY <1>2 DEF OwnInv
<1>4. AloneInv'
  <2>1. \A m \in Managers : ~Up(m) => server[m] \in {"none", "gone"}
    BY <1>h DEF LifeTypes, Up
  <2> QED BY <1>2, <2>1 DEF AloneInv
<1>5. BlockedInv' /\ OrphansHaveAReason' BY <1>h DEF LifeTypes, BlockedInv, OrphansHaveAReason
<1>6. StrangersAreSpared' /\ HandInv' BY <1>h DEF StrangersAreSpared, HandInv
<1> QED BY <1>1, <1>3, <1>4, <1>5, <1>6

(* Managers and servers keep LifeInv, from start() of process_manager.py   *)
(* to the return of main.                                                  *)
THEOREM LifeInvariant == LifeSpec => []LifeInv
<1>1. LifeInit => LifeInv BY InitEstablishesLifeInv
<1>2. LifeInv /\ [LifeNext]_lifeVars => LifeInv'
  <2> SUFFICES ASSUME LifeInv, [LifeNext]_lifeVars PROVE LifeInv' OBVIOUS
  <2>1. ASSUME NEW s \in Servers, Serving(s) PROVE LifeInv' BY <2>1, ServingKeepsLifeInv
  <2>2. ASSUME NEW m \in Managers, Managing(m) \/ Cancel(m) \/ StopClient(m) \/ StopBreaksOff(m)
        PROVE  LifeInv'
    BY <2>2, ManagingKeepsLifeInv
  <2>3. CASE UNCHANGED lifeVars
    BY <2>3 DEF lifeVars, managers, servers, history, LifeInv, LifeTypes, OwnInv, AloneInv,
                HandInv, BlockedInv, StrangersAreSpared, OrphansHaveAReason
  <2>4. CASE StartByHand BY <2>4, StartByHandKeepsLifeInv
  <2> QED BY <2>1, <2>2, <2>3, <2>4 DEF LifeNext
<1> QED BY <1>1, <1>2, PTL DEF LifeSpec

(* The variables keep to their values (process_manager.py: a client's      *)
(* phases, a server's phases).                                             *)
THEOREM LifeTypesHold == LifeSpec => []LifeTypes
<1>1. LifeInv => LifeTypes BY DEF LifeInv
<1> QED BY <1>1, LifeInvariant, PTL

(* A manager's stop() (process_manager.py) shuts down the server started   *)
(* by hand only if that was started beside a manager's, or a manager's     *)
(* beside it after a probe without an answer.                              *)
THEOREM ServerByHandIsSpared == LifeSpec => []StrangersAreSpared
<1>1. LifeInv => StrangersAreSpared BY DEF LifeInv
<1> QED BY <1>1, LifeInvariant, PTL

(* When start() or stop() of process_manager.py is through there is no     *)
(* process of the manager's own, one that runs is known to the manager     *)
(* unless an exception came out of _stop_server, and a worker outlives its *)
(* server only where that was terminated or crashed.                       *)
THEOREM ManagersLeaveNothingBehind == LifeSpec => []NothingLeftBehind
<1>1. LifeInv => NothingLeftBehind
  <2> SUFFICES ASSUME LifeInv, NEW m \in Managers
               PROVE  /\ client[m] \in {"failed", "stopped"} => server[m] \in {"none", "gone"}
                      /\ Up(m) => handle[m] \/ client[m] = "broken"
    BY DEF LifeInv, NothingLeftBehind, NoServerLeft
  <2> QED BY DEF LifeInv, OwnInv, Up
<1> QED BY <1>1, LifeInvariant, PTL
=============================================================================
