---------------------------- MODULE TaskExecutor ----------------------------
(***************************************************************************)
(* What the COM thread worker promises to the rest of the server: one      *)
(* serial executor.  Accepted tasks run one at a time, in the order in     *)
(* which they were accepted, none is run twice, and the executor closes    *)
(* only when every task it accepted has been run to its end.               *)
(*                                                                         *)
(* ComThreadWorker implements this module with two queues, a mutex and a   *)
(* Windows message loop.                                                   *)
(***************************************************************************)
EXTENDS Sequences

CONSTANTS
  Task,       (* the tasks that may be submitted                           *)
  NoTask      (* "the executor is idle", not a task                        *)

VARIABLES
  pending,    (* accepted, not yet started, oldest first                   *)
  current,    (* the task being run, or NoTask                             *)
  done,       (* the tasks run to their end                                *)
  closed      (* the executor has ended                                    *)

execVars == <<pending, current, done, closed>>

Init ==
  /\ pending = <<>>
  /\ current = NoTask
  /\ done = {}
  /\ closed = FALSE

Accept(t) ==
  /\ ~closed
  /\ pending' = Append(pending, t)
  /\ UNCHANGED <<current, done, closed>>

StartOldest ==
  /\ current = NoTask
  /\ pending # <<>>
  /\ current' = Head(pending)
  /\ pending' = Tail(pending)
  /\ UNCHANGED <<done, closed>>

Finish ==
  /\ current # NoTask
  /\ done' = done \union {current}
  /\ current' = NoTask
  /\ UNCHANGED <<pending, closed>>

Close ==
  /\ pending = <<>>
  /\ current = NoTask
  /\ closed' = TRUE
  /\ UNCHANGED <<pending, current, done>>

Next ==
  \/ \E t \in Task : Accept(t)
  \/ StartOldest
  \/ Finish
  \/ Close

Spec == Init /\ [][Next]_execVars
=============================================================================
