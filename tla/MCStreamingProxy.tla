-------------------------- MODULE MCStreamingProxy --------------------------
(* StreamingProxy and RequestPool in one instance.  A behaviour belongs to *)
(* one of them; in the other nothing is left to do.                        *)
EXTENDS StreamingProxy, RequestPool

ProxyDone ==
  /\ thread = "ended" /\ arrived = 0
  /\ chunks = <<>> /\ status = "none"
  /\ finished = TRUE /\ downstream_canceled = TRUE
  /\ transport_failed = FALSE /\ should_restart = FALSE
  /\ handler = "done"
  /\ chunk = 0 /\ written = <<>> /\ body = "refused"
  /\ worker = "kept" /\ client = "gone"

PoolDone ==
  /\ conn = [c \in Connections |-> "closed"] /\ jobs = <<>>
  /\ count = [c \in Connections |-> 0]
  /\ hungUp = Connections /\ acceptor = "returned" /\ stopping = "over"

MCInit == (Init /\ PoolDone) \/ (ProxyDone /\ PoolInit)

MCNext ==
  \/ Next /\ UNCHANGED poolVars
  \/ PoolNext /\ UNCHANGED vars

MCSpec ==
  MCInit /\ [][MCNext]_<<vars, poolVars>> /\ WF_vars(Receive) /\ WF_vars(Handle) /\ PoolFairness
=============================================================================
