-------------------------- MODULE MCCircuitBreaker --------------------------
(* The breaker with two workers: one request can fall back while both are   *)
(* open, and the cooldown meets its ceiling on the second failed probe.     *)
EXTENDS CircuitBreaker

CONSTANTS w1, w2, r1, r2
=============================================================================
