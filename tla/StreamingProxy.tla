--------------------------- MODULE StreamingProxy ---------------------------
(***************************************************************************)
(* One response on its way through the supervisor: proxyStreamingRequest   *)
(* after the worker was found ready.  A thread of its own receives from    *)
(* the worker; the handler waits for the headers, the content provider     *)
(* writes the chunks to the client, and the release callback joins the     *)
(* thread and looks after the worker.  They share StreamingProxyState      *)
(* under its mutex; a critical section is one step.                        *)
(*                                                                         *)
(* The worker's response is 1..Chunks.  It may break off at any point (the *)
(* worker dies, or nothing comes for the read timeout).                    *)
(***************************************************************************)
EXTENDS Integers, Sequences

CONSTANT Chunks   (* chunks in the whole response *)

ASSUME ProxyAssumption == Chunks \in Nat

VARIABLES
  thread,            (* connecting, streaming, ended                       *)
  arrived,           (* chunks the thread has received                     *)
  chunks,            (* the queue between thread and provider              *)
  status,            (* of the upstream headers: none, ok, unavailable     *)
  finished,
  downstream_canceled,
  transport_failed,
  should_restart,
  handler,           (* await, provide, write, release, join, decide, done *)
  chunk,             (* what the provider is writing, 0: nothing           *)
  written,           (* what the client was sent                           *)
  body,              (* its end: none, terminated, aborted, refused        *)
  worker,            (* what became of it: kept, checked, restarted        *)
  client             (* reads, gone                                        *)

state == <<chunks, status, finished, downstream_canceled, transport_failed, should_restart>>
response == <<chunk, written, body>>
vars == <<thread, arrived, state, handler, response, worker, client>>

headers_ready == status # "none"

Init ==
  /\ thread = "connecting" /\ arrived = 0
  /\ chunks = <<>> /\ status = "none"
  /\ finished = FALSE /\ downstream_canceled = FALSE
  /\ transport_failed = FALSE /\ should_restart = FALSE
  /\ handler = "await"
  /\ chunk = 0 /\ written = <<>> /\ body = "none"
  /\ worker = "kept" /\ client = "reads"

-----------------------------------------------------------------------------
(* The receiving thread.                                                   *)

(* response_handler: a 503 that says unavailable calls for a restart.      *)
ReceiveHeaders ==
  /\ thread = "connecting" /\ thread' = "streaming"
  /\ status' \in {"ok", "unavailable"}
  /\ should_restart' = (status' = "unavailable")
  /\ UNCHANGED <<arrived, chunks, finished, downstream_canceled, transport_failed,
                 handler, response, worker, client>>

(* content_receiver.                                                       *)
ReceiveChunk ==
  /\ thread = "streaming" /\ arrived < Chunks /\ ~downstream_canceled
  /\ arrived' = arrived + 1
  /\ chunks' = Append(chunks, arrived + 1)
  /\ UNCHANGED <<thread, status, finished, downstream_canceled, transport_failed,
                 should_restart, handler, response, worker, client>>

(* Slip: the thread's own cancellation counts as a failure, too.           *)
EndFailed(failed) ==
  /\ thread' = "ended" /\ finished' = TRUE
  /\ transport_failed' = failed
  /\ should_restart' = (should_restart \/ failed \/ downstream_canceled)
  /\ UNCHANGED <<arrived, chunks, status, downstream_canceled, handler, response, worker, client>>

(* send() has returned.                                                    *)
End(failed) ==
  /\ thread' = "ended" /\ finished' = TRUE
  /\ transport_failed' = failed
  /\ should_restart' = (should_restart \/ failed)
  /\ UNCHANGED <<arrived, chunks, status, downstream_canceled, handler, response, worker, client>>

UpstreamCompletes == thread = "streaming" /\ arrived = Chunks /\ End(FALSE)

(* Error Canceled: the next chunk finds the client gone.                   *)
ReceiverCancels ==
  thread = "streaming" /\ arrived < Chunks /\ downstream_canceled /\ End(FALSE)

UpstreamBreaks ==
  thread \in {"connecting", "streaming"} /\ End(TRUE)

-----------------------------------------------------------------------------
(* The handler, its content provider and its release callback.             *)
Goto(from, to) == handler = from /\ handler' = to

(* Headers first; a thread that ended without them is joined, the worker   *)
(* restarted and the client gets a 503.                                    *)
AwaitHeaders ==
  /\ \/ headers_ready /\ Goto("await", "provide") /\ UNCHANGED <<body, worker>>
     \/ /\ ~headers_ready /\ finished /\ Goto("await", "done")
        /\ body' = "refused"
        /\ worker' = IF should_restart THEN "restarted" ELSE "kept"
  /\ UNCHANGED <<thread, arrived, state, chunk, written, client>>

TakeChunk ==
  /\ chunks # <<>> /\ Goto("provide", "write")
  /\ chunk' = Head(chunks) /\ chunks' = Tail(chunks)
  /\ UNCHANGED <<thread, arrived, status, finished, downstream_canceled, transport_failed,
                 should_restart, written, body, worker, client>>

(* Slip: finished is looked at before the queue.                           *)
TerminateAtOnce ==
  /\ finished /\ Goto("provide", "release")
  /\ body' = "terminated"
  /\ UNCHANGED <<thread, arrived, state, chunk, written, worker, client>>

(* Slip: no sink.done() (corrected in 0.8.2): the provider waits for more. *)
TerminateNever ==
  /\ finished /\ chunks = <<>> /\ client = "gone" /\ Goto("provide", "release")
  /\ body' = "aborted"
  /\ UNCHANGED <<thread, arrived, state, chunk, written, worker, client>>

(* The queue is empty and no more will come: sink.done().                  *)
Terminate ==
  /\ chunks = <<>> /\ finished /\ Goto("provide", "release")
  /\ body' = "terminated"
  /\ UNCHANGED <<thread, arrived, state, chunk, written, worker, client>>

WriteChunk ==
  /\ client = "reads" /\ Goto("write", "provide")
  /\ written' = Append(written, chunk) /\ chunk' = 0
  /\ UNCHANGED <<thread, arrived, state, body, worker, client>>

WriteFails ==
  /\ client = "gone" /\ Goto("write", "release")
  /\ downstream_canceled' = TRUE /\ body' = "aborted"
  /\ UNCHANGED <<thread, arrived, chunks, status, finished, transport_failed, should_restart,
                 chunk, written, worker, client>>

(* Whatever the end, the thread is told that nobody reads any more.        *)
Release ==
  /\ Goto("release", "join")
  /\ downstream_canceled' = TRUE
  /\ UNCHANGED <<thread, arrived, chunks, status, finished, transport_failed, should_restart,
                 response, worker, client>>

Join ==
  /\ thread = "ended" /\ Goto("join", "decide")
  /\ UNCHANGED <<thread, arrived, state, response, worker, client>>

(* restart(), or a health check that restarts only an unhealthy worker.    *)
LookAfterWorker ==
  /\ Goto("decide", "done")
  /\ worker' = IF should_restart THEN "restarted" ELSE "checked"
  /\ UNCHANGED <<thread, arrived, state, response, client>>

ClientLeaves ==
  /\ client = "reads" /\ client' = "gone"
  /\ UNCHANGED <<thread, arrived, state, handler, response, worker>>

Receive ==
  ReceiveHeaders \/ ReceiveChunk \/ UpstreamCompletes \/ ReceiverCancels \/ UpstreamBreaks

Handle ==
  \/ AwaitHeaders \/ TakeChunk \/ Terminate \/ WriteChunk \/ WriteFails
  \/ Release \/ Join \/ LookAfterWorker

Next == Receive \/ Handle \/ ClientLeaves

Spec == Init /\ [][Next]_vars

(* The worker answers or the read timeout is over; the threads run.        *)
FairSpec == Spec /\ WF_vars(Receive) /\ WF_vars(Handle)

-----------------------------------------------------------------------------
UpTo(n) == [i \in 1..n |-> i]
InHand == IF chunk = 0 THEN <<>> ELSE <<chunk>>

(* The variables range over the values of their C++ types; nothing arrives *)
(* that the worker did not send.                                           *)
TypeOK ==
  /\ thread \in {"connecting", "streaming", "ended"}
  /\ arrived \in 0..Chunks
  /\ chunks \in Seq(1..Chunks) /\ chunk \in 0..Chunks /\ written \in Seq(1..Chunks)
  /\ status \in {"none", "ok", "unavailable"}
  /\ finished \in BOOLEAN /\ downstream_canceled \in BOOLEAN
  /\ transport_failed \in BOOLEAN /\ should_restart \in BOOLEAN
  /\ handler \in {"await", "provide", "write", "release", "join", "decide", "done"}
  /\ body \in {"none", "terminated", "aborted", "refused"}
  /\ worker \in {"kept", "checked", "restarted"}
  /\ client \in {"reads", "gone"}

(* Between the two threads no chunk is lost, repeated or overtaken, and a  *)
(* response that is terminated carries all that arrived: the whole, unless *)
(* the transport failed.                                                   *)
NothingLostBetween ==
  /\ written \o InHand \o chunks = UpTo(arrived)
  /\ body = "terminated" =>
       written = UpTo(arrived) /\ (~transport_failed => arrived = Chunks)

(* The worker is restarted outright only for what it did: it broke off or  *)
(* said it is unavailable.  A client that leaves does not cost the worker  *)
(* as long as the worker goes on sending.                                  *)
RestartsForCause ==
  worker = "restarted" => status = "unavailable" \/ transport_failed

(* Of a response of finite length the handler's thread comes back, however *)
(* the response breaks off and whatever the client does (CHANGELOG 0.8.2:  *)
(* the client waited for the end forever).  An event stream and a realtime *)
(* query without end come this way, too; they keep the thread until their  *)
(* worker or their client ends them.                                       *)
HandlerEnds == <>(handler = "done")

(* docs responses.md: a client that read to the end of a body without an   *)
(* error line has "completed" = True, everything was read.  So a body that *)
(* is properly terminated is whole.                                        *)
TerminatedMeansWhole ==
  body = "terminated" /\ status = "ok" => written = UpTo(Chunks)
=============================================================================
