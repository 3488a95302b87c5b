----------------------- MODULE JVLinkHTTPServerProofs -----------------------
(***************************************************************************)
(* Proofs about JVLinkHTTPServer for any sets of requests and any number   *)
(* of resets: its types, who holds the lock and the lease, and that the    *)
(* JV-Link session is closed before the lock is given back.                *)
(***************************************************************************)
EXTENDS JVLinkHTTPServer, TLAPS

(* The program counters between the steps that open and close each span.   *)
BeforeLease == {"locked"}
StreamOnly == {"leased", "opening", "opened", "download", "status", "canceling",
               "reading", "getting", "closing", "inClose"}
Shown == StreamOnly \union {"ready", "inControl", "unlease"}
Held == BeforeLease \union Shown \union {"unlock"}
WithSession == StreamOnly \ {"leased", "opening"}

LockInv ==
  /\ \A r \in Requests : pc[r] \in Held => opLock = r
  /\ opLock # None => pc[opLock] \in Held

LeaseInv ==
  /\ \A r \in Requests : pc[r] \in Shown => session = r
  /\ session # None => pc[session] \in Shown

(* A call outlives its caller only after a fault, and nothing is open in   *)
(* JV-Link once the instance is gone.                                      *)
SessionInv ==
  /\ \A r \in Requests : pc[r] \in StreamOnly => r \in Streams
  /\ wrapperFault => workerFault
  /\ late # NoCall => workerFault /\ dispatch
  /\ ~dispatch => jvSession = None
  /\ jvSession # None /\ ~workerFault => pc[jvSession] \in WithSession

(* The session a reset has seen cannot be shown again once it was gone.    *)
ResetInv ==
  /\ resetPc = "seen" => resetGen < MaxResets
  /\ resetPc = "released" => resetTarget # None
  /\ resetTarget # None =>
       pc[resetTarget] \in Shown \union {"unlock", "done"}
  /\ resetPc = "released" => pc[resetTarget] \in {"unlock", "done"}

ServerInv == TypeOK /\ LockInv /\ LeaseInv /\ SessionInv /\ ResetInv

-----------------------------------------------------------------------------
LEMMA InitServerInv == Init => ServerInv
<1> SUFFICES ASSUME Init PROVE ServerInv
  OBVIOUS
<1> USE ServerAssumption DEF Init, InitWithout, NoCall
<1>1. TypeOK
  <2>1. observed \in [Streams -> 0..Unset] /\ resetGen \in 0..MaxResets
    BY DEF Unset
  <2> QED
    BY <2>1 DEF TypeOK, Pcs, StopPcs, ResetPcs
<1>2. LockInv /\ LeaseInv
  BY DEF LockInv, LeaseInv, Held, Shown, BeforeLease, StreamOnly
<1>3. SessionInv /\ ResetInv
  BY DEF SessionInv, ResetInv, StreamOnly
<1> QED
  BY <1>1, <1>2, <1>3 DEF ServerInv

(* Getting and giving back the lock and the lease.                         *)
LEMMA AdmissionStep ==
  ASSUME ServerInv, NEW r \in Requests,
         Admit(r) \/ TryLock(r) \/ TakeLease(r) \/ LoadGeneration(r) \/ Unlease(r) \/ Unlock(r)
  PROVE  ServerInv'
<1> USE ServerAssumption
    DEF ServerInv, TypeOK, LockInv, LeaseInv, SessionInv, ResetInv, Goto, lockVars, resetVars,
        clientVars, comVars, Held, Shown, BeforeLease, StreamOnly, WithSession, Pcs, Requests
<1>1. CASE Admit(r) BY <1>1 DEF Admit
<1>2. CASE TryLock(r) BY <1>2 DEF TryLock
<1>3. CASE TakeLease(r) BY <1>3 DEF TakeLease
<1>4. CASE LoadGeneration(r) BY <1>4 DEF LoadGeneration, Unset
<1>5. CASE Unlease(r) BY <1>5 DEF Unlease
<1>6. CASE Unlock(r) BY <1>6 DEF Unlock
<1> QED
  BY <1>1, <1>2, <1>3, <1>4, <1>5, <1>6

(* Steps that only move a request along.                                   *)
LEMMA MoveStep ==
  ASSUME ServerInv, NEW r \in Requests, r \in Streams,
         OpenSession(r) \/ AfterOpen(r) \/ PollDownload(r) \/ StatusReturns(r)
           \/ CancelReturns(r) \/ ReadNext(r) \/ GetsReturns(r) \/ CloseSession(r)
  PROVE  ServerInv'
<1> USE ServerAssumption
    DEF ServerInv, TypeOK, LockInv, LeaseInv, SessionInv, ResetInv, Goto, lockVars, resetVars,
        clientVars, comVars, Held, Shown, BeforeLease, StreamOnly, WithSession, Pcs, Requests, NoChange, Issue
<1>1. CASE OpenSession(r)
  <2>1. TypeOK' BY <1>1 DEF OpenSession
  <2>2. LockInv' BY <1>1 DEF OpenSession
  <2>3. LeaseInv' BY <1>1 DEF OpenSession
  <2>4. SessionInv' BY <1>1 DEF OpenSession
  <2>5. ResetInv' BY <1>1 DEF OpenSession
  <2> QED
    BY <2>1, <2>2, <2>3, <2>4, <2>5
<1>2. CASE AfterOpen(r)
  <2>1. TypeOK' BY <1>2 DEF AfterOpen
  <2>2. LockInv' BY <1>2 DEF AfterOpen
  <2>3. LeaseInv' BY <1>2 DEF AfterOpen
  <2>4. SessionInv' BY <1>2 DEF AfterOpen
  <2>5. ResetInv' BY <1>2 DEF AfterOpen
  <2> QED
    BY <2>1, <2>2, <2>3, <2>4, <2>5
<1>3. CASE PollDownload(r) BY <1>3 DEF PollDownload
<1>4. CASE StatusReturns(r)
  <2>1. TypeOK' BY <1>4 DEF StatusReturns
  <2>2. LockInv' BY <1>4 DEF StatusReturns
  <2>3. LeaseInv' BY <1>4 DEF StatusReturns
  <2>4. SessionInv' BY <1>4 DEF StatusReturns
  <2>5. ResetInv' BY <1>4 DEF StatusReturns
  <2> QED
    BY <2>1, <2>2, <2>3, <2>4, <2>5
<1>5. CASE CancelReturns(r) BY <1>5 DEF CancelReturns
<1>6. CASE ReadNext(r) BY <1>6 DEF ReadNext
<1>7. CASE GetsReturns(r)
  <2>1. PICK to \in {"reading", "closing"} : Goto(r, "getting", to)
    BY <1>7 DEF GetsReturns
  <2> QED
    BY <1>7, <2>1 DEF GetsReturns
<1>8. CASE CloseSession(r) BY <1>8 DEF CloseSession
<1> QED
  BY <1>1, <1>2, <1>3, <1>4, <1>5, <1>6, <1>7, <1>8

LEMMA CallTypes ==
  ASSUME NEW r \in Requests
  PROVE  /\ <<r, "other">> \in Calls
         /\ r \in Streams => <<r, "open">> \in Calls /\ <<r, "close">> \in Calls
BY DEF Calls

LEMMA LateOpenIsOfStream ==
  ASSUME TypeOK, late # NoCall, late[2] = "open"
  PROVE  late[1] \in Streams
BY DEF TypeOK, Calls

(* The watchdog of invokeComCall fires.                                    *)
LEMMA FatalTimeoutKeeps ==
  ASSUME ServerInv, NEW r \in Requests, NEW call \in Calls,
         \/ /\ r \in Streams
            /\ \E from \in {"opening", "status", "canceling", "getting"} : Goto(r, from, "closing")
         \/ Goto(r, "inControl", "unlease"),
         FatalTimeout, HangsAs(call), UNCHANGED stopPc
  PROVE  ServerInv'
<1> USE ServerAssumption
    DEF ServerInv, TypeOK, LockInv, LeaseInv, SessionInv, ResetInv, Goto, lockVars, resetVars,
        clientVars, comVars, Held, Shown, BeforeLease, StreamOnly, WithSession, Pcs, Requests, FatalTimeout, HangsAs
<1>1. TypeOK' OBVIOUS
<1>2. LockInv' OBVIOUS
<1>3. LeaseInv' OBVIOUS
<1>4. SessionInv' OBVIOUS
<1>5. ResetInv' OBVIOUS
<1> QED
  BY <1>1, <1>2, <1>3, <1>4, <1>5

(* JV-Link answers, or a watchdog gives the call up.                       *)
LEMMA OpenStep ==
  ASSUME ServerInv, NEW r \in Requests, r \in Streams, OpenReturns(r) \/ OpenTimesOut(r)
  PROVE  ServerInv'
<1> USE ServerAssumption
    DEF ServerInv, TypeOK, LockInv, LeaseInv, SessionInv, ResetInv, Goto, lockVars, resetVars,
        clientVars, comVars, Held, Shown, BeforeLease, StreamOnly, WithSession, Pcs, Requests
<1>1. CASE OpenReturns(r)
  <2>1. CASE jvSession' = r /\ Goto(r, "opening", "opened") BY <1>1, <2>1 DEF OpenReturns
  <2>2. CASE jvSession' = jvSession /\ Goto(r, "opening", "closing") BY <1>1, <2>2 DEF OpenReturns
  <2> QED
    BY <1>1, <2>1, <2>2 DEF OpenReturns
<1>2. CASE OpenTimesOut(r)
  BY <1>2, CallTypes, FatalTimeoutKeeps DEF OpenTimesOut
<1> QED
  BY <1>1, <1>2

LEMMA CloseStep ==
  ASSUME ServerInv, NEW r \in Requests, r \in Streams,
         StreamCallTimesOut(r) \/ CloseReturns(r) \/ CloseTimesOut(r)
  PROVE  ServerInv'
<1> USE ServerAssumption
    DEF ServerInv, TypeOK, LockInv, LeaseInv, SessionInv, ResetInv, Goto, lockVars, resetVars,
        clientVars, comVars, Held, Shown, BeforeLease, StreamOnly, WithSession, Pcs, Requests
<1>1. CASE StreamCallTimesOut(r)
  <2>1. PICK call \in {"status", "canceling", "getting"} : Goto(r, call, "closing")
    BY <1>1 DEF StreamCallTimesOut
  <2> QED
    BY <1>1, <2>1, CallTypes, FatalTimeoutKeeps DEF StreamCallTimesOut
<1>2. CASE CloseReturns(r) BY <1>2 DEF CloseReturns
<1>3. CASE CloseTimesOut(r)
  <2>1. TypeOK' BY <1>3, CallTypes DEF CloseTimesOut, HangsAs
  <2>2. LockInv' BY <1>3, CallTypes DEF CloseTimesOut, HangsAs
  <2>3. LeaseInv' BY <1>3, CallTypes DEF CloseTimesOut, HangsAs
  <2>4. SessionInv' BY <1>3, CallTypes DEF CloseTimesOut, HangsAs
  <2>5. ResetInv' BY <1>3, CallTypes DEF CloseTimesOut, HangsAs
  <2> QED
    BY <2>1, <2>2, <2>3, <2>4, <2>5
<1> QED
  BY <1>1, <1>2, <1>3

LEMMA ControlStep ==
  ASSUME ServerInv, NEW r \in Requests,
         RefuseBody(r) \/ CallControl(r) \/ ControlReturns(r) \/ ControlTimesOut(r)
  PROVE  ServerInv'
<1> USE ServerAssumption
    DEF ServerInv, TypeOK, LockInv, LeaseInv, SessionInv, ResetInv, Goto, lockVars, resetVars,
        clientVars, comVars, Held, Shown, BeforeLease, StreamOnly, WithSession, Pcs, Requests
<1>1. CASE CallControl(r) BY <1>1 DEF CallControl, Issue, NoChange
<1>2. CASE ControlReturns(r) \/ RefuseBody(r) BY <1>2 DEF ControlReturns, RefuseBody, NoChange
<1>3. CASE ControlTimesOut(r)
  BY <1>3, CallTypes, FatalTimeoutKeeps DEF ControlTimesOut
<1> QED
  BY <1>1, <1>2, <1>3

(* The other actors: clients, /session/reset, /shutdown, a late effect.    *)
LEMMA OthersStep ==
  ASSUME ServerInv,
         (\E r \in Stored : ClientLeaves(r) \/ HeartbeatFails(r)) \/ Reset \/ Stop \/ LateEffect
  PROVE  ServerInv'
<1> USE ServerAssumption
    DEF ServerInv, TypeOK, LockInv, LeaseInv, SessionInv, ResetInv, Goto, lockVars, resetVars,
        clientVars, comVars, Held, Shown, BeforeLease, StreamOnly, WithSession, Pcs, Requests
<1>1. ASSUME NEW r \in Stored, ClientLeaves(r) \/ HeartbeatFails(r) PROVE ServerInv'
  BY <1>1 DEF ClientLeaves, HeartbeatFails
<1>2. CASE ResetArrives BY <1>2 DEF ResetArrives, ResetPcs, Requests
<1>3. CASE ResetBumps BY <1>3 DEF ResetBumps, ResetPcs
<1>4. CASE ResetAnswers BY <1>4 DEF ResetAnswers, ResetPcs
<1>5. CASE Stop
  <2> USE DEF StopPcs
  <2>1. CASE ShutdownRequested BY <2>1 DEF ShutdownRequested
  <2>2. CASE StopReleasesWrapper BY <2>2 DEF StopReleasesWrapper
  <2>3. CASE ShutdownReturns
    <3>1. TypeOK' BY <2>3 DEF ShutdownReturns
    <3>2. LockInv' BY <2>3 DEF ShutdownReturns
    <3>3. LeaseInv' BY <2>3 DEF ShutdownReturns
    <3>4. SessionInv' BY <2>3 DEF ShutdownReturns
    <3>5. ResetInv' BY <2>3 DEF ShutdownReturns
    <3> QED
      BY <3>1, <3>2, <3>3, <3>4, <3>5
  <2>4. CASE ShutdownTimesOut
    <3>1. TypeOK' BY <2>4 DEF ShutdownTimesOut, FatalTimeout
    <3>2. LockInv' BY <2>4 DEF ShutdownTimesOut, FatalTimeout
    <3>3. LeaseInv' BY <2>4 DEF ShutdownTimesOut, FatalTimeout
    <3>4. SessionInv' BY <2>4 DEF ShutdownTimesOut, FatalTimeout
    <3>5. ResetInv' BY <2>4 DEF ShutdownTimesOut, FatalTimeout
    <3> QED
      BY <3>1, <3>2, <3>3, <3>4, <3>5
  <2> QED
    BY <1>5, <2>1, <2>2, <2>3, <2>4 DEF Stop
<1>6. CASE LateEffect
  <2>1. jvSession' \in {jvSession, None, late[1]} /\ workerFault /\ dispatch
    BY <1>6 DEF LateEffect
  <2>2. jvSession' \in Streams \union {None}
    BY <1>6, <2>1, LateOpenIsOfStream DEF LateEffect
  <2>3. TypeOK' BY <1>6, <2>1, <2>2 DEF LateEffect
  <2>4. LockInv' BY <1>6, <2>1, <2>2 DEF LateEffect
  <2>5. LeaseInv' BY <1>6, <2>1, <2>2 DEF LateEffect
  <2>6. SessionInv' BY <1>6, <2>1, <2>2 DEF LateEffect
  <2>7. ResetInv' BY <1>6, <2>1, <2>2 DEF LateEffect
  <2> QED
    BY <2>3, <2>4, <2>5, <2>6, <2>7
<1> QED
  BY <1>1, <1>2, <1>3, <1>4, <1>5, <1>6 DEF Reset

LEMMA NextServerInv == ServerInv /\ [Next]_vars => ServerInv'
<1> SUFFICES ASSUME ServerInv, [Next]_vars PROVE ServerInv'
  OBVIOUS
<1>1. ASSUME NEW r \in Requests, Admit(r) \/ Step(r) \/ Answer(r) PROVE ServerInv'
  BY <1>1, AdmissionStep, MoveStep, OpenStep, CloseStep, ControlStep DEF Step, Answer
<1>2. CASE UNCHANGED vars
  BY <1>2 DEF vars, lockVars, resetVars, clientVars, comVars, ServerInv, TypeOK, LockInv,
              LeaseInv, SessionInv, ResetInv
<1> QED
  BY <1>1, <1>2, OthersStep DEF Next

(* The strengthening that carries all of the theorems below.               *)
THEOREM ServerInvariant == Spec => []ServerInv
<1> QED
  BY InitServerInv, NextServerInv, PTL DEF Spec

(* Every variable keeps its type, for any sets of requests.                *)
THEOREM ServerTypes == Spec => []TypeOK
<1>1. ServerInv => TypeOK
  BY DEF ServerInv
<1> QED
  BY <1>1, ServerInvariant, PTL

(* /session never shows an operation that does not hold the operation lock *)
(* (SessionLease inside the unique_lock).                                  *)
THEOREM ServerShowsTheHolder == Spec => []ShownSessionHoldsLock
<1>1. ServerInv => ShownSessionHoldsLock
  BY DEF ServerInv, LeaseInv, LockInv, TypeOK, ShownSessionHoldsLock, Held
<1> QED
  BY <1>1, ServerInvariant, PTL

(* Without a recorded fault, no JV-Link session outlives the hold of the   *)
(* operation lock in which it was opened (JVSessionGuard), and "Session    *)
(* reset completed." is only said of a session that is closed and stays    *)
(* closed (requestSessionReset).                                           *)
THEOREM ServerClosesSessions == Spec => []SessionsAreClosed
<1>1. ServerInv => SessionsAreClosed
  <2> SUFFICES ASSUME ServerInv, ~workerFault PROVE SessionsAreClosed
    BY DEF SessionsAreClosed
  <2>1. jvSession # None => opLock = jvSession
    BY DEF ServerInv, SessionInv, LockInv, TypeOK, WithSession, Held, Shown, StreamOnly, Requests
  <2>2. resetPc = "released" => session # resetTarget /\ jvSession # resetTarget
    BY DEF ServerInv, SessionInv, LeaseInv, ResetInv, WithSession, Shown, StreamOnly
  <2> QED
    BY <2>1, <2>2 DEF SessionsAreClosed
<1> QED
  BY <1>1, ServerInvariant, PTL
=============================================================================
