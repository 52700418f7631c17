---------------------------- MODULE MCNatsRequest ----------------------------
(* Two requests, of which r1 can be continued elsewhere: with the admission *)
(* limit at one the second meets a full backlog; without it, core NATS.     *)
EXTENDS NatsRequest

CONSTANTS r1, r2
=============================================================================
