---------------------------- MODULE MCStoredQuery ----------------------------
(* The Python client: StoredQuery and ServerLifecycle in one instance.  A  *)
(* behaviour belongs to one of them; in the other nothing is left to do.   *)
EXTENDS StoredQuery, ServerLifecycle

QueryDone ==
  /\ query = [rows |-> <<<<>>>>, wanted |-> {}, limit |-> -1, exclude |-> FALSE]
  /\ spec = 0 /\ pc = "done" /\ attempt = 0
  /\ response = [s \in {} |-> "none"] /\ asked = [s \in {} |-> 0]
  /\ at = 1 /\ last = 0 /\ remaining = -1
  /\ received = <<>> /\ started = TRUE /\ completed = TRUE
  /\ meta = <<"skipped">> /\ short = FALSE

NoServers ==
  /\ client = [m \in Managers |-> "stopped"] /\ handle = [m \in Managers |-> FALSE]
  /\ server = [s \in Servers |-> "gone"] /\ ended = [s \in Servers |-> "returned"]
  /\ process = [s \in Servers |-> "none"] /\ blocked = [s \in Servers |-> FALSE]
  /\ missed = FALSE /\ entered = FALSE /\ intruded = FALSE

MCInit == (Init /\ NoServers) \/ (QueryDone /\ LifeInit)

MCNext ==
  \/ Next /\ UNCHANGED lifeVars
  \/ LifeNext /\ UNCHANGED vars

MCSpec ==
  MCInit /\ [][MCNext]_<<vars, lifeVars>> /\ WF_vars(Answer) /\ WF_vars(Line) /\ WF_vars(Finalize)
=============================================================================
