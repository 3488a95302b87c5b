--------------------------- MODULE EventDelivery ---------------------------
(***************************************************************************)
(* The way of a JV-Link event to the SSE clients.  handleJvLinkEvent runs  *)
(* on the COM thread (the event sink is called from its message loop) and  *)
(* queues the event; each GET /events/stream is a loop on a server thread  *)
(* that takes events off the queue and writes them to its socket.  All     *)
(* share event_queue_mutex_, and a loop keeps it while it writes.          *)
(*                                                                         *)
(* Events are numbered in the order JV-Link raises them.  One without a    *)
(* parameter, or with one that cannot be converted, is logged and goes no  *)
(* further: it has no number and leaves no trace here.  Time is left out   *)
(* but for one comparison: a write to a stalled socket gives up after 65 s *)
(* (kDefaultSocketTimeoutSec), a control call after 30 s                   *)
(* (control_timeout), so the call gives up first.                          *)
(***************************************************************************)
EXTENDS Integers, Sequences, FiniteSets, SequencesExt

CONSTANTS
  Clients,      (* the /events/stream requests                             *)
  QueueLimit,   (* 100 in the code                                         *)
  MaxEvents     (* bound on the events JV-Link raises                      *)

ASSUME EventAssumption ==
  QueueLimit \in Nat \ {0} /\ MaxEvents \in Nat /\ "none" \notin Clients

VARIABLES
  raised,     (* events raised so far                                      *)
  com,        (* the event the COM thread is about to queue, 0: none       *)
  queue,      (* event_queue_                                              *)
  owner,      (* of event_queue_mutex_: a loop or "none"                   *)
  pc,         (* of each loop                                              *)
  event,      (* the event each loop took and has not written, 0: none     *)
  received,   (* what was written to each client's connection              *)
  peer,       (* each client: reads, stalled (buffers are full), left      *)
  running,    (* running_                                                  *)
  call        (* a control call to the COM thread                          *)

loops == <<owner, pc, event, received>>
vars == <<raised, com, queue, loops, peer, running, call>>

Init ==
  /\ raised = 0 /\ com = 0 /\ queue = <<>> /\ owner = "none"
  /\ pc = [c \in Clients |-> "off"]
  /\ event = [c \in Clients |-> 0]
  /\ received = [c \in Clients |-> <<>>]
  /\ peer = [c \in Clients |-> "reads"]
  /\ running = TRUE /\ call = "none"

-----------------------------------------------------------------------------
(* The COM thread.                                                         *)

(* An event with a parameter; it is converted before the mutex is taken.   *)
RaiseEvent ==
  /\ com = 0 /\ raised < MaxEvents
  /\ raised' = raised + 1 /\ com' = raised + 1
  /\ UNCHANGED <<queue, loops, peer, running, call>>

(* Slip: the new event is refused instead of the oldest.                   *)
TrimNewest(q) == IF Len(q) > QueueLimit THEN Front(q) ELSE q

(* More than QueueLimit events: the oldest goes.                           *)
Trim(q) == IF Len(q) > QueueLimit THEN Tail(q) ELSE q

(* The critical section of handleJvLinkEvent.                              *)
PushEvent ==
  /\ com # 0 /\ owner = "none"
  /\ queue' = Trim(Append(queue, com))
  /\ com' = 0
  /\ UNCHANGED <<raised, loops, peer, running, call>>

(* A control call of some request, behind the handler on the COM thread.   *)
CallControl ==
  /\ call = "none" /\ call' = "queued"
  /\ UNCHANGED <<raised, com, queue, loops, peer, running>>

CallReturns ==
  /\ call = "queued" /\ com = 0 /\ call' = "answered"
  /\ UNCHANGED <<raised, com, queue, loops, peer, running>>

Blocked(c) == peer[c] = "stalled" /\ pc[c] \in {"send", "ping"}

(* invokeComCall gives up; the wrapper is faulted from then on.            *)
CallTimesOut ==
  /\ call = "queued" /\ com # 0
  /\ \E c \in Clients : owner = c /\ Blocked(c)
  /\ call' = "timedout"
  /\ UNCHANGED <<raised, com, queue, loops, peer, running>>

-----------------------------------------------------------------------------
(* The loop of one client.                                                 *)
Goto(c, from, to) == pc[c] = from /\ pc' = [pc EXCEPT ![c] = to]

Release(c) == owner = c /\ owner' = "none"

Connect(c) ==
  /\ running /\ Goto(c, "off", "greet")
  /\ UNCHANGED <<raised, com, queue, owner, event, received, peer, running, call>>

(* The greeting is written before the mutex is taken.                      *)
Greet(c) ==
  /\ \/ peer[c] = "reads" /\ Goto(c, "greet", "top")
     \/ peer[c] # "reads" /\ Goto(c, "greet", "ended")
  /\ UNCHANGED <<raised, com, queue, owner, event, received, peer, running, call>>

(* The head of the loop; wait_for looks at the queue before it waits.      *)
Enter(c) ==
  /\ \/ ~running /\ Goto(c, "top", "ended") /\ UNCHANGED owner
     \/ /\ running /\ owner = "none" /\ queue # <<>>
        /\ Goto(c, "top", "drain") /\ owner' = c
     \/ /\ running /\ owner = "none" /\ queue = <<>>
        /\ Goto(c, "top", "waiting") /\ UNCHANGED owner
  /\ UNCHANGED <<raised, com, queue, event, received, peer, running, call>>

(* Notified, or the second is over: the mutex is taken again.              *)
Wake(c) ==
  /\ owner = "none" /\ Goto(c, "waiting", "drain") /\ owner' = c
  /\ UNCHANGED <<raised, com, queue, event, received, peer, running, call>>

(* The event leaves the queue before it is written.                        *)
TakeEvent(c) ==
  /\ queue # <<>> /\ Goto(c, "drain", "send")
  /\ event' = [event EXCEPT ![c] = Head(queue)]
  /\ queue' = Tail(queue)
  /\ UNCHANGED <<raised, com, owner, received, peer, running, call>>

WriteEvent(c) ==
  /\ peer[c] = "reads" /\ Goto(c, "send", "drain")
  /\ received' = [received EXCEPT ![c] = Append(@, event[c])]
  /\ event' = [event EXCEPT ![c] = 0]
  /\ UNCHANGED <<raised, com, queue, owner, peer, running, call>>

(* No event left: a ping every 30 s, still with the mutex.                 *)
NextRound(c) ==
  /\ queue = <<>>
  /\ \/ Goto(c, "drain", "top") /\ Release(c)
     \/ Goto(c, "drain", "ping") /\ UNCHANGED owner
  /\ UNCHANGED <<raised, com, queue, event, received, peer, running, call>>

WritePing(c) ==
  /\ peer[c] = "reads" /\ Goto(c, "ping", "top") /\ Release(c)
  /\ UNCHANGED <<raised, com, queue, event, received, peer, running, call>>

(* Slip: no write timeout, only a lost connection fails.                   *)
WriteNeverTimesOut(c) ==
  /\ peer[c] = "left"
  /\ \E at \in {"send", "ping"} : Goto(c, at, "ended")
  /\ Release(c)
  /\ UNCHANGED <<raised, com, queue, event, received, peer, running, call>>

(* Slip: the event that could not be written goes back to the queue.       *)
WriteFailsAndRequeues(c) ==
  /\ peer[c] # "reads"
  /\ \E at \in {"send", "ping"} : Goto(c, at, "ended")
  /\ Release(c)
  /\ queue' = IF event[c] = 0 THEN queue ELSE Trim(Append(queue, event[c]))
  /\ event' = [event EXCEPT ![c] = 0]
  /\ UNCHANGED <<raised, com, received, peer, running, call>>

(* The connection is gone or the write timed out: the loop returns, and    *)
(* with it the event in its hands.                                         *)
WriteFails(c) ==
  /\ peer[c] # "reads"
  /\ \E at \in {"send", "ping"} : Goto(c, at, "ended")
  /\ Release(c)
  /\ UNCHANGED <<raised, com, queue, event, received, peer, running, call>>

(* A client stops reading, reads again or leaves.                          *)
PeerChanges(c) ==
  /\ peer[c] # "left"
  /\ \E p \in {"reads", "stalled", "left"} \ {peer[c]} : peer' = [peer EXCEPT ![c] = p]
  /\ UNCHANGED <<raised, com, queue, loops, running, call>>

(* stop() clears running_; nothing notifies event_cv_.                     *)
Stop ==
  /\ running /\ running' = FALSE
  /\ UNCHANGED <<raised, com, queue, loops, peer, call>>

Write(c) == WriteEvent(c) \/ WritePing(c) \/ WriteFails(c)

Loop(c) ==
  Connect(c) \/ Greet(c) \/ Enter(c) \/ Wake(c) \/ TakeEvent(c) \/ NextRound(c) \/ Write(c)

Next ==
  \/ RaiseEvent \/ PushEvent \/ CallControl \/ CallReturns \/ CallTimesOut \/ Stop
  \/ \E c \in Clients : Loop(c) \/ PeerChanges(c)

Spec == Init /\ [][Next]_vars

(* Threads run and writes end.  Strong fairness on the mutex: between two  *)
(* rounds every loop leaves it for up to a second.  The COM thread comes to *)
(* the call when it is out of the handler and there are no more events.    *)
FairSpec ==
  /\ Spec /\ SF_vars(PushEvent) /\ WF_vars(CallReturns)
  /\ \A c \in Clients :
       /\ WF_vars(Greet(c)) /\ SF_vars(Enter(c)) /\ SF_vars(Wake(c))
       /\ WF_vars(TakeEvent(c)) /\ WF_vars(NextRound(c)) /\ WF_vars(Write(c))

-----------------------------------------------------------------------------
LoopStates == {"off", "greet", "top", "waiting", "drain", "send", "ping", "ended"}

(* The variables range over the values of their C++ types; the queue stays *)
(* within its limit.                                                       *)
TypeOK ==
  /\ raised \in 0..MaxEvents /\ com \in {0, raised}
  /\ queue \in Seq(1..raised) /\ Len(queue) <= QueueLimit
  /\ owner \in Clients \union {"none"}
  /\ pc \in [Clients -> LoopStates]
  /\ event \in [Clients -> 0..raised]
  /\ received \in [Clients -> Seq(1..raised)]
  /\ peer \in [Clients -> {"reads", "stalled", "left"}]
  /\ running \in BOOLEAN
  /\ call \in {"none", "queued", "answered", "timedout"}

Increasing(s) == \A i, j \in DOMAIN s : i < j => s[i] < s[j]

(* However the loops compete and fail, a client gets events in the order   *)
(* JV-Link raised them, and no event reaches two clients.                  *)
DeliveredOnceInOrder ==
  /\ \A c \in Clients : Increasing(received[c])
  /\ \A c, d \in Clients : c # d => ToSet(received[c]) \intersect ToSet(received[d]) = {}

(* Where an event can be: about to be queued, queued, at a client, in the  *)
(* hands of a loop (or lost with one whose write failed), or pushed out by *)
(* QueueLimit newer ones.                                                  *)
NoEventVanishes ==
  \A e \in 1..raised :
    \/ e = com \/ e \in ToSet(queue)
    \/ \E c \in Clients : e = event[c] \/ e \in ToSet(received[c])
    \/ e + QueueLimit <= raised

(* The COM thread does not stay in the event handler (lock_guard on        *)
(* event_queue_mutex_), whatever the SSE clients do.                       *)
HandlerReturns == com # 0 ~> com = 0

InLoop(c) == pc[c] \in {"top", "waiting", "drain", "send", "ping"}

(* Queued events are taken as long as some client's loop is there.         *)
QueueIsServed ==
  (queue # <<>> /\ \E c \in Clients : InLoop(c))
    ~> (queue = <<>> \/ \A c \in Clients : ~InLoop(c))

(* After stop() every loop returns, so that the server's threads end.      *)
LoopsEnd == ~running ~> \A c \in Clients : pc[c] \in {"off", "ended"}

(* A control call behind the handler on the COM thread is answered or      *)
(* gives up: it does not wait for an SSE client for ever.                  *)
CallEnds == call = "queued" ~> call # "queued"

(* The handler, the calls behind it, the queue and the loops do not keep   *)
(* one another: the four above (event_queue_mutex_ is held over a write to *)
(* a slow client, and nothing but a timeout ends the wait of a loop).      *)
DeliveryGoesOn == HandlerReturns /\ QueueIsServed /\ LoopsEnd /\ CallEnds
=============================================================================
