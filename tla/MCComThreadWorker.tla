------------------------- MODULE MCComThreadWorker -------------------------
(* ComThreadWorker and WrapperLifecycle, whose COM thread is the executor  *)
(* that ComThreadWorker implements, in one instance.  A behaviour belongs  *)
(* to one of them; in the other nothing is left to do.                     *)
EXTENDS ComThreadWorker, WrapperLifecycle

NoWrapper ==
  /\ main = "gone" /\ stopThread = "done" /\ owned = "leaked"
  /\ initialized = FALSE /\ isFaulted = FALSE /\ workerFaulted = FALSE /\ active = FALSE
  /\ instance = FALSE /\ sink = FALSE /\ watches = FALSE
  /\ lock = "none" /\ at = [r \in Requests |-> "done"]
  /\ pending = <<>> /\ task = Idle /\ ended = {} /\ closed = TRUE
  /\ succeeded = {}

NoWorker ==
  /\ running = FALSE /\ accepting = FALSE /\ faulted = FALSE
  /\ mutex = NoOne /\ queue = <<>> /\ batch = <<>>
  /\ current = NoTask /\ done = {}
  /\ quitPosted = FALSE /\ comPc = "none" /\ ownerPc = "stopped"
  /\ pc = [c \in Callers |-> "idle"] /\ calls = [c \in Callers |-> MaxCalls]

MCInit == (Init /\ NoWrapper) \/ (NoWorker /\ WrapperInit)

MCNext ==
  \/ Next /\ UNCHANGED wrapperVars
  \/ WrapperNext /\ UNCHANGED vars

MCSpec ==
  MCInit /\ [][MCNext]_<<vars, wrapperVars>> /\ CodeFairness /\ WrapperFairness
=============================================================================
