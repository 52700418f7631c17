---------------------------- MODULE MCMixedRouter ----------------------------
(* Two requests race on two workers, so that a retry and a continuation     *)
(* both have somewhere to go: a fleet on NATS, and one where only w2 is.    *)
EXTENDS MixedRouter

CONSTANTS w1, w2, r1, r2

TwoFleets == {{w1, w2}, {w2}}
=============================================================================
