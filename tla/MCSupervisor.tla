---------------------------- MODULE MCSupervisor ----------------------------
(* An instance of Supervisor for TLC: one goroutine that waits, one that    *)
(* closes, an OnState callback that may close too, a session error that is  *)
(* retried, one that is not, and a session that ends without one.           *)
EXTENDS Supervisor

CONSTANTS c1, w1, cb
=============================================================================
