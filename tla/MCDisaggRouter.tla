---------------------------- MODULE MCDisaggRouter ----------------------------
(* One request dispatched in every way, beside one that is a unary pair over  *)
(* HTTP; the decode's connection is retried once.                             *)
EXTENDS DisaggRouter

CONSTANTS r1, r2

UnaryPair == [serial |-> FALSE, stream |-> FALSE, nats |-> FALSE, rid |-> TRUE]

EveryWay == [r \in Requests |-> IF r = r1 THEN AllModes ELSE {UnaryPair}]
=============================================================================
