----------------------------- MODULE RequestPool -----------------------------
(***************************************************************************)
(* The threads that serve HTTP, in the worker and in the supervisor alike: *)
(* httplib's listen loop accepts connections and queues them, each thread  *)
(* of its pool takes one and serves its requests until it is closed, and   *)
(* stop() closes the listening socket, after which the loop waits for the  *)
(* pool to run empty.  A handler keeps its thread: an event stream for as  *)
(* long as its client listens, a realtime query for as long as JV-Link     *)
(* says "once more" (RealtimeStream).                                      *)
(***************************************************************************)
EXTENDS Integers, Sequences, FiniteSets, SequencesExt

CONSTANTS
  Calls,         (* connections whose requests are answered and done,      *)
                 (* stored queries among them                              *)
  Realtime,      (* connections of /query/realtime                         *)
  Watches,       (* connections of /events/stream                          *)
  Shutdowns,     (* connections of /shutdown                               *)
  Threads,       (* of the pool: at least 8 in the code                    *)
  KeepAliveMax   (* requests on one connection: 100 in the code            *)

Connections == Calls \union Realtime \union Watches \union Shutdowns

ASSUME PoolAssumption ==
  /\ Threads \in Nat \ {0} /\ KeepAliveMax \in Nat \ {0}
  /\ Calls \intersect Watches = {} /\ Calls \intersect Shutdowns = {}
  /\ Watches \intersect Shutdowns = {}
  /\ Realtime \intersect (Calls \union Watches \union Shutdowns) = {}

VARIABLES
  conn,       (* each connection: new, queued, reading, handling, closed   *)
  jobs,       (* jobs_                                                     *)
  count,      (* requests each connection may still make                   *)
  hungUp,     (* the connections whose client has left                     *)
  acceptor,   (* the listen loop: accepting, draining, returned            *)
  stopping    (* stop(): no, asked, closed (the listening socket), over    *)
              (* (in the supervisor: the worker is stopped, too)           *)

poolVars == <<conn, jobs, count, hungUp, acceptor, stopping>>

PoolInit ==
  /\ conn = [c \in Connections |-> "new"] /\ jobs = <<>>
  /\ count = [c \in Connections |-> KeepAliveMax]
  /\ hungUp = {} /\ acceptor = "accepting" /\ stopping = "no"

Turn(c, from, to) == conn[c] = from /\ conn' = [conn EXCEPT ![c] = to]

SocketOpen == stopping \in {"no", "asked"}
Held == {c \in Connections : conn[c] \in {"reading", "handling"}}
FreeThread == Cardinality(Held) < Threads

-----------------------------------------------------------------------------
(* The listen loop.  The queue has no limit.                               *)
Accept(c) ==
  /\ acceptor = "accepting" /\ SocketOpen /\ Turn(c, "new", "queued")
  /\ jobs' = Append(jobs, c)
  /\ UNCHANGED <<count, hungUp, acceptor, stopping>>

(* The socket is closed: the loop ends and shuts the pool down.            *)
Drain ==
  /\ acceptor = "accepting" /\ ~SocketOpen /\ acceptor' = "draining"
  /\ UNCHANGED <<conn, jobs, count, hungUp, stopping>>

(* Slip: a thread ends at shutdown with jobs left.                         *)
PoolIdle ==
  /\ acceptor = "draining" /\ Held = {} /\ acceptor' = "returned"
  /\ UNCHANGED <<conn, jobs, count, hungUp, stopping>>

(* A thread ends when the queue is empty; all are joined.                  *)
PoolJoined ==
  /\ acceptor = "draining" /\ Held = {} /\ jobs = <<>> /\ acceptor' = "returned"
  /\ UNCHANGED <<conn, jobs, count, hungUp, stopping>>

-----------------------------------------------------------------------------
(* A thread of the pool and its connection.                                *)
TakeJob ==
  /\ acceptor # "returned" /\ FreeThread
  /\ jobs # <<>> /\ jobs' = Tail(jobs) /\ Turn(Head(jobs), "queued", "reading")
  /\ UNCHANGED <<count, hungUp, acceptor, stopping>>

(* A request that is there is served, even when the server is stopping.    *)
ReadRequest(c) ==
  /\ c \notin hungUp /\ Turn(c, "reading", "handling")
  /\ UNCHANGED <<jobs, count, hungUp, acceptor, stopping>>

(* No request in time, the server's socket is closed, the client has left. *)
KeepAliveEnds(c) ==
  /\ Turn(c, "reading", "closed")
  /\ UNCHANGED <<jobs, count, hungUp, acceptor, stopping>>

(* Slip: the requests on a connection are not counted.                     *)
Uncounted(c) ==
  /\ c \in Calls \union Realtime \union Shutdowns
  /\ Turn(c, "handling", "reading")
  /\ UNCHANGED <<jobs, count, hungUp, acceptor, stopping>>

(* The response is written; the connection is kept for another request,    *)
(* if it has one left.                                                     *)
Respond(c) ==
  /\ c \in Calls \union Realtime
  /\ count' = [count EXCEPT ![c] = @ - 1]
  /\ \/ count[c] > 1 /\ Turn(c, "handling", "reading")
     \/ Turn(c, "handling", "closed")
  /\ UNCHANGED <<jobs, hungUp, acceptor, stopping>>

(* POST /shutdown is answered; a thread of its own calls stop().           *)
AskToStop(c) ==
  /\ c \in Shutdowns /\ Turn(c, "handling", "closed")
  /\ stopping' = IF stopping = "no" THEN "asked" ELSE stopping
  /\ UNCHANGED <<jobs, count, hungUp, acceptor>>

(* An event stream ends when its client has left (a write fails), or after *)
(* stop(): in the worker by running_, in the supervisor with its worker.   *)
EndWatch(c) ==
  /\ c \in Watches /\ (c \in hungUp \/ stopping = "over")
  /\ Turn(c, "handling", "closed")
  /\ UNCHANGED <<jobs, count, hungUp, acceptor, stopping>>

(* The client of an event stream leaves; for the other connections that is *)
(* KeepAliveEnds, or a response that nobody reads.                         *)
HangUp(c) ==
  /\ c \in Watches \ hungUp /\ conn[c] \in {"queued", "reading", "handling"}
  /\ hungUp' = hungUp \union {c}
  /\ UNCHANGED <<conn, jobs, count, acceptor, stopping>>

-----------------------------------------------------------------------------
(* stop(), in the thread that /shutdown or a signal has started.           *)
SignalStops ==
  /\ stopping = "no" /\ stopping' = "asked"
  /\ UNCHANGED <<conn, jobs, count, hungUp, acceptor>>

CloseSocket ==
  /\ stopping = "asked" /\ stopping' = "closed"
  /\ UNCHANGED <<conn, jobs, count, hungUp, acceptor>>

StopIsOver ==
  /\ stopping = "closed" /\ stopping' = "over"
  /\ UNCHANGED <<conn, jobs, count, hungUp, acceptor>>

-----------------------------------------------------------------------------
Thread(c) ==
  \/ ReadRequest(c) \/ KeepAliveEnds(c) \/ Respond(c) \/ AskToStop(c) \/ EndWatch(c)

Listening == Drain \/ PoolJoined
Stopping == CloseSocket \/ StopIsOver

PoolNext ==
  \/ Listening \/ TakeJob \/ Stopping \/ SignalStops
  \/ \E c \in Connections : Accept(c) \/ Thread(c) \/ HangUp(c)

PoolSpec == PoolInit /\ [][PoolNext]_poolVars

(* Threads run, keep-alive waits five seconds at most, and the handler of  *)
(* a stored query or a plain request returns (the other modules show why). *)
(* A realtime query need not end, until stop() is over: then JV-Link has   *)
(* been shut down under it, in the supervisor with its worker.             *)
PoolFairness ==
  /\ WF_poolVars(Listening) /\ WF_poolVars(TakeJob) /\ WF_poolVars(Stopping)
  /\ \A c \in Connections \ Realtime : WF_poolVars(Thread(c))
  /\ \A c \in Realtime : /\ WF_poolVars(ReadRequest(c) \/ KeepAliveEnds(c))
                         /\ WF_poolVars(stopping = "over" /\ Respond(c))

-----------------------------------------------------------------------------
(* The variables keep to the values listed above.                          *)
PoolTypes ==
  /\ conn \in [Connections -> {"new", "queued", "reading", "handling", "closed"}]
  /\ jobs \in Seq(Connections)
  /\ count \in [Connections -> 0..KeepAliveMax]
  /\ hungUp \subseteq Connections
  /\ acceptor \in {"accepting", "draining", "returned"}
  /\ stopping \in {"no", "asked", "closed", "over"}

(* The queue holds who waits; when listen() returns, and main goes on to   *)
(* destroy the server, every accepted connection has been through and no   *)
(* thread is in a handler.                                                 *)
AcceptedAreSettled ==
  /\ ToSet(jobs) = {c \in Connections : conn[c] = "queued"} /\ IsInjective(jobs)
  /\ Cardinality(Held) <= Threads
  /\ acceptor = "returned" => \A c \in Connections : conn[c] \in {"new", "closed"}

AllKept ==
  Cardinality({c \in Watches \union Realtime : conn[c] = "handling"}) = Threads

(* A connection that waits gets a thread, however talkative the others     *)
(* are, /shutdown included, unless event streams and realtime queries keep *)
(* every thread for good.                                                  *)
WaitingAreServed ==
  \A c \in Connections : conn[c] = "queued" ~> conn[c] # "queued" \/ []AllKept

(* Once stop() has been called, listen() returns, with event streams and   *)
(* realtime queries open and clients that keep their connections busy.     *)
ListenReturns == stopping # "no" ~> acceptor = "returned"

(* The pool keeps serving, and keeps no one when it is asked to stop.      *)
PoolGoesOn == WaitingAreServed /\ ListenReturns
=============================================================================
