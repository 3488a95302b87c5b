---------------------------- MODULE MCSupervisor ----------------------------
(* Supervisor with two mixes: all requests without a reset, and a reset    *)
(* beside all but the realtime query.                                      *)
EXTENDS Supervisor

MCInit == InitWithout(Resets) \/ InitWithout(Realtime)

MCSpec == MCInit /\ [][Next]_vars /\ Fairness
=============================================================================
