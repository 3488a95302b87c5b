# JVLinkServer: TLA+ specifications and proofs

JVLinkServer puts an HTTP interface in front of JV-Link, a COM component that
serves Japanese horse-racing data. JV-Link lives in one single-threaded
apartment, knows one open session at a time, and sometimes does not return
from a call. Most of the server exists to live with these three facts. The
specifications in this directory follow the C++ sources under `src/src` and
`src/include`, and the Python client under `src/python`.

`PROJECT.json` ties every definition to the lines it models and lists runs,
theorems, hazards and findings.

## The system

| part | state it keeps | operations | talks to |
| --- | --- | --- | --- |
| COM thread worker (`com_thread_worker`) | three atomics (running, accepting, faulted), a task queue with its mutex, an STA thread | `start`, `stop`, `invokeTask`, `recordFault`, the message loop | called by the wrapper |
| JV-Link wrapper (`jv_link_wrapper`) | the dispatch pointer, the connected sink, `initialized`, the fatal fault, the event watch; inside JV-Link one open session | `initialize`, `queryStored`, `queryRealtime`, `startEventWatch`, `deleteFile`, ..., `shutdown`, the destructor; almost every one through `invokeComCall` and its watchdog | worker below, HTTP handlers above |
| event sink (`jv_link_event_sink`) | the COM connection | `Invoke` on the STA thread | the server's event handler |
| worker HTTP server (`server/main.cpp`) | `jvlink_operation_mutex_`, `active_session_`, `session_reset_generation_`, the bounded event queue | `/query/*`, `/event/*`, `/files/delete`, `/session`, `/session/reset`, `/shutdown` | the threads of httplib |
| HTTP server threads (vendored `httplib`) | the job queue of its pool, the keep-alive count of each connection, the listening socket | the listen loop, the pool's threads, `stop` | carries the handlers of worker and supervisor |
| supervisor (`supervisor_http_server`) | the worker process and its generation, under one mutex | proxying, restart on failure, `/session/reset`, `/shutdown` | a worker process over HTTP |
| streaming proxy (same file) | `StreamingProxyState`: a chunk queue and five flags under a mutex | receive, provide, release | the worker's response, the client's |
| `main` | mode, the two servers, the SIGINT handler | start, run, end | both servers |
| record parser | none | `parseRecord` | the wrapper |
| Python client | per-dataspec metadata, `completed`, what is left of `max_records` | stored and realtime queries, event watch, one-shot calls | the supervisor over HTTP |
| process manager of the client (`process_manager.py`) | the handle of the server process it has started | probe, start, wait until healthy, stop | the server process, the port it listens on |

What is hard here:

* **Interleavings.** A call to the COM thread worker against `stop()`; the
  operation lock, the lease and the reset generation, which are three objects
  taken one after the other; several event streams on one queue; handlers of
  the supervisor that all restart the same worker; the two threads of the proxy.
* **Failure.** A COM call that does not return, a damaged data file, a worker
  that crashes, hangs or does not start, a stream that breaks after its headers
  were sent, a client that leaves or stops reading.
* **Ordering.** Close before unlock, lease after lock, drain before exit,
  events to their clients, chunks through the proxy, two threads on the sink of
  a realtime stream.
* **Start and end.** `initialize()` in five calls of which each may fail or
  hang; a destructor beside a detached `stop()`; several clients that look for,
  start and stop a server on one port; keep-alive connections and event streams
  when `stop()` is called.
* **Timeouts.** Every wait has one except a few: `~JVLinkWrapper` calls
  `invokeTask` without one and joins the COM thread whatever becomes of the call,
  and a realtime stream polls for ever.

What makes each part correct:

* COM thread worker: it is a serial executor; nothing accepted is forgotten;
  whoever passes a timeout comes back.
* Wrapper: what is destroyed has been released on the COM thread; what may hang
  is not waited for; `/health` tells whether events are watched for.
* Worker server: one holder of the lock, and it is the one that `/session`
  shows; JV-Link's session is closed before the lock is free; every holder ends
  when it is reset, when its client has left, or when JV-Link hangs.
* Stored stream: the lines are exactly the wanted records, in order, up to the
  limit; a clean end means that nothing is missing.
* Realtime stream: whole lines and nothing behind the terminator, whatever the
  heartbeat does; a client that has left is noticed.
* HTTP server threads: an accepted connection gets a thread and an end; `stop()`
  ends `listen()`.
* Event stream: each event once, in order, to one client; lost only to the
  limit; the COM thread is never kept.
* Supervisor: one worker at most, always known; faults are healed; none is left
  when main returns.
* Proxy: no chunk lost or doubled, no missed end, no restart without cause.
* Client: a query hands over the rows asked for, once and in order; `completed`
  says so only when it did; no response outlives its query.
* Process manager: a server that answers is shared and not stopped by who found
  it, as long as no other is started beside it; whoever started one and was not
  interrupted in stopping it leaves none behind.

## The modules

    TaskExecutor <-- ComThreadWorker  <-- ComThreadWorkerProofs
    TaskExecutor <-- WrapperLifecycle <-- WrapperLifecycleProofs
    ComThreadWorker, WrapperLifecycle <-- MCComThreadWorker
    JVLinkHTTPServer <-- JVLinkHTTPServerProofs, MCJVLinkHTTPServer
    StoredResult <-- StoredStream
    StoredStream, RealtimeStream <-- MCStoredStream <-- StoredStreamProofs
    EventDelivery <-- EventDeliveryProofs
    Supervisor <-- MCSupervisor
    Supervisor, ServerLifecycle <-- SupervisorProofs
    StreamingProxy, RequestPool <-- StreamingProxyProofs, MCStreamingProxy
    StoredResult <-- StoredQuery <-- StoredQueryProofs
    StoredQuery, ServerLifecycle <-- MCStoredQuery

An arrow leads to the modules that extend or instantiate. Four of the MC
modules (MCComThreadWorker, MCStoredStream, MCStreamingProxy, MCStoredQuery)
extend two components that lie next to each other, whose initial states and
next-state relations have names of their own for that. A
behaviour of such an instance belongs to one of the two: the initial states are
those of the one with the other at rest, or the reverse. TLC then checks both in
one run, and neither gets in the way of the other.

The modules meet at interfaces that are named in their header comments.
`WrapperLifecycle` runs its tasks on a `TaskExecutor`, which `ComThreadWorker`
is shown to be; `JVLinkHTTPServer` relies on what `TaskExecutor` promises (calls one after the
other) and has one action where `StoredStream` has a whole stream; `Supervisor`
sees of a worker what its HTTP answers show (`JVLinkHTTPServer` in three
variables); `StreamingProxy` is the inside of the `working` phase of one
streaming request of `Supervisor`; `ServerLifecycle` sees of a `Supervisor` its
phases and whether it answers; `RequestPool` sees of a handler that it returns,
which the other modules show of theirs (`LockIsGivenBack`, `StreamsEnd`,
`RequestsEnd`), and that those of event streams and realtime queries need not;
`StoredQuery` sees a stream as rows that end,
fail or end short, which is how `StreamingProxy` may end a broken one, and as many
rows as it is proved of `StoredStream` (`CompleteResponseIsServed`).

A definition marked "Slip" in a comment is not part of the specification: it is
a plausible slip of the code in place of the definition after it, used to see
that a property would notice.

### ComThreadWorker, TaskExecutor

`running`, `accepting`, `faulted` are the atomics; `queue` is `m_taskQueue`
and `batch` the queue `executeQueuedTasks` has swapped out; `mutex` is
`m_taskMutex`; `pc[c]`, `comPc` and `ownerPc` say where the callers, the STA
thread and the owner are. A task is the pair of a caller and the number of its
call; its promise is set when it is in `done`. Steps are cut wherever another
thread can get in between, in particular between the unlocked and the locked
test of `postTask`, around the push, and between the phases of the loop.

`TaskExecutor` is what callers rely on: a queue and one runner that takes
tasks in order, one at a time, and closes only when nothing is left. The worker
implements it with `pending <- batch \o queue` and `closed <- comPc = "exited"`.

### JVLinkHTTPServer

Admission, `try_lock`, lease, generation, one or many COM calls, session guard,
lease back, lock back: each is a step of `pc[r]`. A COM call is issued and
then returns or times out; a call that timed out stays in `late`, holds up the
calls after it (the STA thread runs them one by one) and may still take effect.
`wrapperFault` and `workerFault` are separate because `JVSessionGuard` sets one
without the other. `resetPc` is the handler of `/session/reset`, `stopPc` the
thread that `handleShutdown` detaches. Request validation is left out, and of
the records only that there are some.

### WrapperLifecycle

`main` is the main thread from the constructor through `initialize()`, `start()`
and the destructors; `stopThread` the thread that `/shutdown` or SIGINT starts;
`at[r]` the handlers of `/event/start`, `/event/stop` and a query, with the
operation lock.
What they do on the COM thread is a task; tasks are taken in order by an
executor (`pending`, `task`, `ended`, `closed`) and take effect when they end,
which JV-Link may prevent. `instance` and `sink` are the COM objects, `watches`
what JV-Link does. A call through `invokeComCall` that times out faults the wrapper
(`isFaulted`) and its COM thread (`workerFaulted`); the `JVClose` of a query's guard
goes past it and faults the COM thread alone (`GuardTimesOut`). Then every later
task throws at once (`ThrownAtOnce`): a request fails, `shutdown()` throws out of
`stop()`, which ends that thread (`StopThrows`), and `~JVLinkWrapper`, which looks
at nothing, swallows what its cleanup throws and joins the COM thread all the same
(the last case of `Destroy`), even if that one is still in JV-Link. The ways in which the wrapper is abandoned rather than
destroyed (`owned = "leaked"`) and those in which the process ends by an
uncaught exception (`main = "crashed"`) are those of the code. That
`CoInitializeEx` may fail at the start of the COM thread is left out here and is
in ComThreadWorker.

### StoredResult

What a stored query promises to whoever reads its rows, at both of its ends: a
row that is handed over is the next one, `"complete"` is said only with every
row or at the limit, it is not taken back, and nothing follows it. `cut` means
that rows are missing of which nobody was told; then there are still no rows out
of order. The response of the worker implements it with `cut <- FALSE`
(`StreamKeepsPromise`), the result of the Python client, which may be fed by
several responses and by broken ones, with `cut <- ~Faithful`
(`QueryKeepsPromise`).

### StoredStream, MCStoredStream

One stream against a JV-Link that is a sequence of files; a file has a record
type, a length and perhaps a damaged record. The counters (`records`,
`retries`, `attempt`, `polls`), the cursor, the buffer with the file name and
the cancellation are those of the code. A record is the pair of its file and its
place; its text is left out. `Wanted` are the records that the filter leaves,
`Read` those of them before JV-Link's cursor, `Parsed` those of them whose text
the parser knows; the lines are compared with these sets. `opened = "broken"` is a failed COM invocation,
which `performJVOpen` reports with the code for "no data". `Hesitate` is a read
that brings no record and is tried again; to it belongs a success without a buffer
(`jv_link_wrapper.cpp:450`, 684-712), of which the model assumes that JV-Link has
not moved on. If it had, that record would be lost and no property could tell.

### RealtimeStream

One `/query/realtime` stream and its heartbeat thread. `wire` is what the client
is sent, one element for each write to the sink, which holds `sink_mutex`; a
record and its newline are two writes. `answer` is what JV-Link said last; it may
say "once more" for ever. A client departs at any time; from then on writes have
no effect, and who finds out is decided by the code: the heartbeat ends itself
only, the newline is not looked at, the next record ends the stream. `unheard`
counts the records read since.

### EventDelivery

The event handler on the COM thread, the bounded queue under
`event_queue_mutex_`, and one loop per `/event/stream` client, which holds that
mutex while it writes to its client. Clients read, stall or leave. A control
call is behind the handler on the COM thread: it is answered when the handler is
through, or gives up. Events are numbered. One that comes without a parameter, or
whose parameter cannot be converted, goes no further than the log
(`main.cpp:2095`, 2170): it has no number and leaves no trace.

### Supervisor

A worker is its generation. `WorkerProcessManager` holds its mutex through each
public operation, so each is one step; handlers are the steps between them:
ready, port, request, and what the outcome calls for. `alive` is the set of
processes the system runs, `has`/`generation` what the supervisor believes. That
a process ends when it is terminated is assumed (the code logs it if not, 355-361).
The client of a stream may go away (`left`); the supervisor finds out when it has
something to write, ends the response (`Canceled`) and looks at a worker that is
still busy with the operation, which may yet end or fault it (`AbandonedEnds`).
`Realtime` are the streams whose operation need not end. `/events/stream` takes no
session of the worker and is in RequestPool and EventDelivery. Both ends of the supervisor are there: main returns after `/shutdown`
(`returned`) or the SIGINT handler calls `exit(0)` (`killed`).

### ServerLifecycle

The same process as Supervisor, from outside. It begins without any server;
managers start theirs, and somebody starts one by hand at any time. `client[m]` is where the manager
of a client is, `handle[m]` whether it has a server process, `server[s]` the
phase of that process (or of `Hand`, which somebody started), `ended[s]` how it
came to its end and `process[s]` its worker. `blocked[s]` means that the server
listens and does not answer in time. Two servers can listen on one port, because
httplib sets `SO_REUSEADDR` and Windows lets them; a request then goes to either.
A start may be cancelled (`Cancel`): the process stays known and a later `stop()`
ends it. A `stop()` may be cancelled at the POST, in the half second after it or in
the wait, or see its last wait time out (`StopBreaksOff`): the `finally` of
`_stop_server` forgets the process, which may run on (`client = "broken"`). A
`Client.stop()` that is cancelled before it gets to the process manager leaves the
client "running". `missed` (a manager started a server beside that by hand, whose
answer it did not get), `entered` (the server by hand was started beside a
manager's, or with a `/shutdown` of a manager to come) and `intruded` are history.

### RequestPool

The listen loop, the job queue and the threads of httplib, as far as both servers
depend on them. `conn[c]` is the life of a connection; `count[c]` what its
keep-alive has left. Connections are of four kinds: calls, stored queries among
them, whose handlers return; realtime queries, whose handlers may return or may
poll until `stop()` is over; event streams, which keep their thread until the
client leaves or `stop()` is over; and `/shutdown`.

### StreamingProxy

`StreamingProxyState` between the receiving thread, the content provider and
the release callback. `chunk` is what the provider has taken and not yet
written; `worker` what the release callback does in the end.

### StoredQuery

One `query_stored_raw` of the Python client. The nested asynchronous generators
run one at a time, so a step leads from one await of the network or one yield
to the consumer to the next; `pc` says which. Dataspecs are numbers; `spec` is the
one it is at, `effective_specs` those that are wanted, `response[s]` the life of
the HTTP response of one. It is "loose" when its generators
are gone and nothing but the event loop's finalizer will close it: after a
cancellation before the metadata line, after closing a generator that was never
pulled, and after closing `filtered()` or `combined_rows()` from outside. The
rows the server has, which dataspecs `record_types` leaves, `max_records` (0
included) and `exclude_deletions` are chosen at the start; a row is its dataspec
and place, and a deletion or not.

## Runs

Safety and liveness of a component are checked in one run, under its fair
specification. `CHECK_DEADLOCK FALSE` is set where the system really stops:
each model has a finite number of calls, requests or events and comes to rest
when they are done.

| run | instance | checks |
| --- | --- | --- |
| ComThreadWorker | 3 callers (2 with timeouts), 2 calls each; a wrapper with 2 event starts, an event stop and a query: 348,536 states | `NothingStranded`; `BodyHasItsCaller`; `ImplementsExecutor`; `TimedCallsReturn`; `CallsAndStopReturn` if JV-Link answers; `WatchIsHonest`; `DestroyedMeansReleased`; `StartEnds` |
| JVLinkHTTPServer | a stored and a realtime stream with an event-watch request, or a stored stream with an event-watch and a file request; a reset, a shutdown: 430,347 states | `ShownSessionHoldsLock`; `SessionsAreClosed`; `LockIsGivenBack` |
| StoredStream | 6 libraries, 25 requests; a realtime stream of 3 records and 3 heartbeats: 90,386 states | types and counters; `LinesArePrefix`; `CleanEndIsComplete`; `LinesAreWhole`; `DepartureCostsOneRecord`; `StreamKeepsPromise`; `StreamMovesOn`; `StreamsEnd` |
| EventDelivery | 2 clients, a queue of 2, 3 events: 107,118 states | `DeliveredOnceInOrder`; `NoEventVanishes`; `DeliveryGoesOn` |
| Supervisor | a standard request and a stored query, beside a realtime query or beside a reset, 3 workers: 506,322 states | `NoLostWorker`; `ResetEndsSession`; `ReturnLeavesNoWorker`; `RequestsEnd`; `FaultsHeal` |
| StreamingProxy | a response of 6 chunks; 2 threads for 2 calls, a realtime query, an event stream and a shutdown: 180,866 states | `NothingLostBetween`; `RestartsForCause`; `AcceptedAreSettled`; `HandlerEnds`; `PoolGoesOn` |
| StoredQuery | up to 2 dataspecs with up to 2 rows each, limits -1 to 3, one busy retry; 2 managers and a server started by hand: 965,662 states | `ReceivedInOrder`; `CompletedMeansAll`; `NeverBusyWithItself`; `AskedForTheRest`; `QueryKeepsPromise`; `QueryEnds`; `StrangersAreSpared`; `NothingLeftBehind` |

The type invariants hold for every value of the constants by the proofs below;
only that of the streams, which has the limits of the loop in it, is also run.

What the properties say:

* `NothingStranded`: an accepted task is run even if `stop()` comes.
  `BodyHasItsCaller`: a body that runs without its caller, and so without the
  locals it refers to, does so only after the worker has recorded a fault.
  `CallsAndStopReturn`: calls without a timeout, and `stop()`, return.
* `WatchIsHonest`: the flag that `/health` shows is what JV-Link does.
  `DestroyedMeansReleased`: a wrapper that was destroyed, and not abandoned, has no
  task left and no COM object, unless its COM thread was faulted alone.
  `StartEnds`: `initialize()` ends, and a failed one ends the process.
* `SessionsAreClosed`: the lock is free, and a reset answers "released", only
  with JV-Link's session closed. `LockIsGivenBack`: the one-call handlers come to
  an end, a reset ends the streams, a departure ends a stored stream.
* `LinesArePrefix`: the lines are the wanted records before the cursor, in
  JV-Link's order, and the count towards the limit is that of the records read.
  `StreamMovesOn`: each step of the handler is a step forward in a lexicographic
  order of phase, polls, file, record, retries, call and attempts; a counter is
  reset only when one before it in this order has grown.
* `StreamsEnd`: every stored stream ends; a realtime stream does, unless JV-Link
  says "once more" for ever, and then a reset ends it.
* `DeliveryGoesOn`: the COM thread leaves the handler, the control call behind it
  is answered or gives up, what is queued is taken while somebody reads, the loops
  end after `stop()`.
* `RequestsEnd`: the handlers of plain requests and stored queries return, that of a
  realtime query at the latest when its client has left. `FaultsHeal`: a fault that
  is there while a request is under way is healed; one that comes after the last
  handler has returned, because its client left, waits for the next request.
* `HandlerEnds`: for a response of finite length; an event stream and an endless
  realtime query go through the same code.
* `StrangersAreSpared`: a manager shuts down the server started by hand only if the
  two were started beside each other: after its probe, or that of another manager,
  was left without an answer, or by hand while a manager had a server or a stop.
  `NothingLeftBehind`: of the server of a manager, and of the worker of a server,
  with the exceptions that the code makes: a stop that was broken off, a server
  that was terminated or crashed.
* `AcceptedAreSettled`: when `listen()` returns, no connection is left waiting
  and no thread is in a handler. `PoolGoesOn`: who waits is served unless event
  streams and realtime queries have all the threads for good, and `listen()`
  returns after `stop()`.

Why the bounds are enough. The worker's gate closes once and for all, so a
second call of a caller meets every phase of the end that a third could; three
callers let one be queued, one be running and one be at the gate. With two starts
and a stop an event watch is begun twice and ended in between. The server's
requests are of four kinds and two can be between admission and the lock while
one holds it; a session that ends and another that begins both fit between the
steps of one reset. In a stored stream the read loop carries only counters
from one record to the next; limits of 0, 1 and 2 (and none) lie below, at and
above the wanted records, and the retry limit of 3 (10000 in the code) and the
poll limit of 2 are reached. Three heartbeats reach each place between the writes
of three records. The event queue overflows with 3 events over 2 places, with
loops that hold one each. Three workers let a worker be replaced twice, once under
a handler that still has the port of the first. A realtime query is to the supervisor
a stream like any other but for its fairness, so it is left out of the mix with the
reset. Two managers and a third server
let one manager stop the server of the other while somebody uses it, and let the
server by hand come before, between and after theirs. An event stream and a realtime
query take both threads of the pool, and each call has requests for a full
keep-alive. A query beside the event requests is enough for a COM thread that is
faulted alone at each step of the end. Chunks are alike, and both threads can be several chunks apart. A
query has a first dataspec, which is asked before the consumer has a result, and
a later one; the limit can fall inside either, between them, or beyond both.

### Fairness

* Threads that can take a step take one. HTTP handlers, the STA thread, the
  detached threads and the heartbeat are ordinary threads and the code holds no
  lock over a wait without a timeout, with the exceptions that the models show.
* Watchdogs run out (`wait_for` in `invokeTask`, the socket write timeout of
  an event stream, the read timeout of the proxy): a step of the waiting
  thread is possible in each of these waits, and is therefore taken if nothing
  else happens first.
* Nothing makes JV-Link answer. `FinishTask` (ComThreadWorker), `EndTask`
  (WrapperLifecycle) and `Answer` (JVLinkHTTPServer) are not fair; of the tasks of
  a wrapper those end that have nothing of JV-Link to call (`EndsByItself`).
  `CallsAndStopReturn`, which does need answers, says so: `JVLinkAnswers => ...`.
* The event mutex is taken again and again by loops that give it back, so who
  waits for it gets it in the end (strong fairness, EventDelivery).
* The control call behind the event handler is timed, and the handler's return
  lets it go on (EventDelivery).
* The threads of the pool run, the handlers of calls return, and keep-alive waits
  five seconds at most. Nothing is assumed of the handler of an event stream or of a
  realtime query until `stop()` is over: then JV-Link has been shut down under it, or
  its worker was stopped (RequestPool).
* The operation of a plain request or a stored query ends in the worker, which
  StoredStream and JVLinkHTTPServer show; that of a realtime query is not fair. When
  the client of a stream has left, there is a heartbeat to write, or without
  heartbeats the read timeout runs out (Supervisor).
* `httpx` bounds the waits of the Python client by its timeouts, and the
  finalizer of the event loop runs (StoredQuery).
* Clients are not fair; a client may stall or leave at any time or never.

### Disagreements

Each of these runs checks one statement of the sources or docs and finds it
violated by what the code does; `findings` quotes the statement.

| run | property | what happens |
| --- | --- | --- |
| JVLinkHTTPServerFault | `HungServerFailsFast` | `JVSessionGuard` goes past `invokeComCall`, so when `JVClose` hangs only the COM worker is faulted; admission and `/health` look at the wrapper and go on saying "healthy" |
| JVLinkHTTPServerReset | `AcceptedResetCancels` | the generation is loaded after the lease; a reset in between is answered "still unwinding" and cancels nothing |
| StoredStreamDelete | `DeletesTheDamagedFile` | the buffer that names the file to delete holds the file of the last good record, or nothing |
| StreamingProxyBreak | `TerminatedMeansWhole` | a response whose worker broke off is terminated properly and looks complete |
| StoredQueryCompleted | `CompletedAsDocumented` | `exclude_deletions` drops rows the server has counted against `max_records`; `completed` is true with fewer rows than the limit, and more on the server |

Others met on the way, visible in the models and not kept as runs: after the
timeout of `JVSessionGuard` the wrapper is not abandoned, as after any other (the
destructors ask `hasFatalFault()` only): its cleanup is skipped and main joins a
thread that may be in JV-Link for ever (WrapperLifecycle); a stop of the process
manager that is cancelled forgets a server that runs (ServerLifecycle); a fault that
comes after a client has left its stream stays until the next request (Supervisor);
a task whose
caller timed out runs later with references to that caller's locals
(ComThreadWorker); a stream cut by a reset ends like a complete one, and a
failed COM invocation of `JVOpen` is reported as "no data" (StoredStream); a
reset may restart a worker under another session than the one it saw, and
`exit(0)` in the SIGINT handler can leave a worker that a handler has just
started (Supervisor); `/shutdown` runs `stop()` beside the requests, so JV-Link
is released under a stream (JVLinkHTTPServer); a client that stops reading keeps
the event mutex, on which the COM thread waits, until the watchdog of a healthy
call fires (EventDelivery); `max_records` of 0 asks the server for everything
and then reads nothing of it (StoredQuery); a sink that could not be connected
is logged with "will retry later" and never tried again, `event_watch_active` may
be set by a request that ends after `shutdown()`, and `shutdown()` and the
destructor of a wrapper wait for the COM thread without the leak that a fault
would bring (WrapperLifecycle); a realtime stream whose client has left goes on
for as long as JV-Link says "once more" (RealtimeStream); a probe that times out
lets a second server be started on the same port, whose `/shutdown` may then go to
the first, and a worker survives a supervisor that was terminated, or that crashed
in a destructor that logs through a logger `main` has dropped (ServerLifecycle).

## Proofs

Checked by TLAPS for every value of the constants that satisfies the
assumptions in the modules (`WorkerAssumption`, `ServerAssumption`,
`SupervisorAssumption`, `EventAssumption`, `ProxyAssumption`, `WatcherAssumption`,
`PoolAssumption`, `LifecycleAssumption`, `StreamAssumption`, `RealtimeAssumption`,
`QueryAssumption`: the sets of requests are disjoint and do not contain the value
for "nobody", libraries are sequences of files, bounds are natural numbers). None
of the sets is assumed finite. Every invariant of every passing run is stated by a
theorem.

* **ComThreadWorkerProofs.** `NothingStranded` is not inductive: a caller that
  has passed the gate may still push. `WorkerInv` adds what rules this out: who
  is pushing holds the mutex and has seen `running`; once the STA thread is past
  its drain, the gate has been closed before the drain took the mutex; a batch
  exists only while a batch is being run. From it follow `WorkerTypes`,
  `WorkerStrandsNothing` and, step by step over the actions, that the worker
  implements the executor (`WorkerImplementsExecutor`). `CallsInv` relates tasks
  in the queues to the calls that made them. `BodyInv` adds
  that a task is in one place and posted at most once, by a call that is past its
  posting (`OnceInv`, `PostedInv`), and that whose task is not through waits for it
  unless a fault is recorded (`WaitingInv`: the watchdog records it before it throws).
  It gives `WorkerBodyHasItsCaller`.
* **JVLinkHTTPServerProofs.** `ServerInv` says for each place of a handler what
  it holds: the lock from `locked` to `unlock`, the lease from `leased` to
  `unlease`, JV-Link's session at most between the open and the close, or else
  the worker has recorded a fault, after which nothing opens or closes. It
  gives the types, `ShownSessionHoldsLock` and `SessionsAreClosed`.
* **SupervisorProofs.** `SupervisorInv` adds to the types that at most the
  current generation runs, that the holder of a session has been served (so a
  session that was seen does not come back), and that a reset that has recycled
  the worker does not find its session again. It gives `NoLostWorker`,
  `ResetEndsSession` and, with one more invariant on the end,
  `ReturnLeavesNoWorker`, with clients that leave at any time.
  The other half is ServerLifecycle: `LifeInv` says when a manager has a process
  (`OwnInv`; a process that it does not know is that of a stop that was broken off),
  that while the server started by hand comes up or listens, was never missed and did
  not enter beside another, no manager has one or is about to stop one (`AloneInv`:
  who starts one has seen no answer, and that is a miss), that a server that was never
  started was never stopped (`HandInv`), and that only a server that is there can be
  blocked. It gives `StrangersAreSpared` and `NothingLeftBehind` for any number of
  managers.
* **EventDeliveryProofs.** Events are numbers in the order in which JV-Link raised
  them, and `DeliveryInv` keeps them sorted on their way: the one in the handler is
  newer than the queue, the queue is increasing and newer than those in the hands
  of a loop, those are newer than all that were received, and an event is in one
  place only. It gives `DeliveredOnceInOrder` and `NoEventVanishes`, for any number
  of clients and any limit, which a run with a queue of 2 cannot show.
* **StreamingProxyProofs.** `ProxyInv` has the equation of the pipe, what was
  written, what is in the provider's hand and what is queued make up what has
  arrived, and the control around it: the hand is empty but for a write, the body
  gets its end after `finished` and before any cancellation. It gives
  `NothingLostBetween` and `RestartsForCause` for a response of any length.
  Of RequestPool, `PoolInv` says that the queue has exactly the queued
  connections, each once, that no more are held than there are threads, and that
  nothing is left once the pool was joined. It gives `AcceptedAreSettled`.
* **WrapperLifecycleProofs.** `WrapperInv` says that each task is posted at one
  place of one thread, hence at most once (`PostedInv`: what makes `pending`,
  `task` and `ended` disjoint); that a task which may still make a COM object is
  waited for, or given up with a fault that keeps the wrapper from being destroyed,
  and that the COM thread is joined only after the cleanup or faulted alone
  (`ReleaseInv`); and that only the request with the lock may be ahead of the flag
  (`WatchInv`). It gives `DestroyedMeansReleased` and `WatchIsHonest` for any
  number of event requests and queries.
* **StoredStreamProofs.** What a loop over records computes is said without
  recursion: the lines are the set of wanted records before the cursor
  (`LinesInv`). `ReadOneMore` and `ReadNoMore` are the two lemmas about that set: a
  record that is handed out is the next of it, what JVSkip or the end of a file
  passes over is not in it; it is finite because it grows by one. `PlaceInv` says
  what was sent at each place of the handler, and `CleanEndIsComplete` is inductive
  with both. From these follow `StreamImplementsResult`, step by step over the
  actions, and that the stream terminates up to fairness: every step moves on
  (`StreamAlwaysMovesOn`) and nothing it moves is unbounded (`StreamStaysInReach`).
  `CompleteResponseIsServed` is what the client's module takes for granted
  (`StoredQuery!Served`): a complete response has read the limit of the request, or
  all that is wanted if that is less, and has a line for each record of these that
  can be parsed. It needs `AllRead`, that a clean end has also passed the records
  without a line, which the lines alone cannot tell, and that lines in order are as
  many as they are different.
  Of a realtime stream, `OpenLineInv` says whose text may be without its newline
  and that only the heartbeat's newline can come between them, `JoinInv` that the
  heartbeat is over when the response is ended. They give `LinesAreWhole` and
  `DepartureCostsOneRecord` for any number of records and heartbeats.
* **StoredQueryProofs.** `QueryInv` has, beside what each property says,
  that every wanted row before the place of the generators was handed over unless a
  response was cut (`OrderInv`); that the open response was asked for what is left
  of the limit, and how much it gives (`ServedInv`: without it nobody knows that
  the end of the response is the end of the rows or of the limit); that responses
  behind are closed and those ahead not sent (`ResponsesInv`). It gives the five
  properties, the refinement `QueryImplementsResult` and `QueryAlwaysMovesOn`: each
  step of a query uses up a row, a stage, an attempt or a dataspec, for any numbers
  of them.

Model-checked only: the liveness properties (`TimedCallsReturn`,
`CallsAndStopReturn`, `StartEnds`, `LockIsGivenBack`, `StreamsEnd`, `DeliveryGoesOn`,
`RequestsEnd`, `FaultsHeal`, `HandlerEnds`, `PoolGoesOn`, `QueryEnds`), since fairness
and `ENABLED` are beyond the prover. Of `StreamsEnd` and `QueryEnds` the part that is
safety is proved: no step goes back. What is left to TLC there is that a step is
always possible until the end.

## Not modelled

* Record parser, OpenAPI handler, health and version pages, validation, codes,
  decoder and models of the Python client, its CLI: no state of their own.
* The Python client's realtime queries, event stream and one-shot calls: they use
  the transport and the busy retry that StoredQuery models and keep nothing between
  calls.
* Vendored `httplib` beyond its threads, and `json`. Third-party code,
  and most of the lines under `src/include`.
* The retry of the event watch: there is none. After a worker is replaced its
  watch is gone, until a client asks again.
* A watch, a queue or a client of `/events/stream` across two workers: each module
  sees one.
* A `TerminateProcess` that fails, and of `exit(0)` in the SIGINT handler what it
  leaves behind: `ReturnLeavesNoWorker` is about a main that returns.
* Events that carry no parameter, and a read that succeeds without a buffer after
  JV-Link has moved on (see EventDelivery and StoredStream above).
* Time. A timeout may fire at any point of its wait; that a retry delay
  (`retry_delay_ms`, `jv_link_wrapper.cpp:607`) or a slow writer is longer than a
  watchdog is a possibility and not a number.

## Plan

Done: the core (ComThreadWorker, JVLinkHTTPServer, StoredStream, EventDelivery,
Supervisor, StreamingProxy, StoredQuery), then what surrounds it (WrapperLifecycle,
RealtimeStream, ServerLifecycle, RequestPool). What is left, in this order:

1. **Composition** of EventDelivery with Supervisor: clients stay connected to a
   supervisor whose worker, and with it the watch and the queue, was replaced.
2. **Proofs**: the safety half of the other liveness properties, as for the two
   streams: an order in which each step of a request, of the proxy and of
   `initialize()` moves on. That StreamingProxy implements a pipe and EventDelivery
   a lossy queue, as abstract specifications.
3. The delay of `retry_delay_ms` against the watchdog, with time as data.
