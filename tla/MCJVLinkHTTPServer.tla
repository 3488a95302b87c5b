------------------------- MODULE MCJVLinkHTTPServer -------------------------
(* JVLinkHTTPServer with two mixes of requests: both streams and the event *)
(* watch, and a stored stream beside a file request.                       *)
EXTENDS JVLinkHTTPServer

MCInit == InitWithout(Control) \/ InitWithout(Realtime \union Watch)

MCSpec == MCInit /\ [][Next]_vars /\ Fairness
=============================================================================
