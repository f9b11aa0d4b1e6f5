--------------------------- MODULE MCAuthedRequests ---------------------------
(* Instances of AuthedRequests for TLC: two requests of one client.         *)
(* Symmetry is left out, for the runs check liveness or slots in order.     *)
EXTENDS AuthedRequests

=============================================================================
