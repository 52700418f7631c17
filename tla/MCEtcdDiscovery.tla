--------------------------- MODULE MCEtcdDiscovery ---------------------------
(* Two workers: w1 may come back on another events port or without a kv     *)
(* block, w2 with another tokenizer or a payload that cannot be read.       *)
EXTENDS EtcdDiscovery, TLC

CONSTANTS w1, w2, c1, c2

Base == [ok |-> TRUE, model |-> "m", canary |-> c1, kv |-> TRUE, events |-> "e1", target |-> "t"]
Moved == [Base EXCEPT !.events = "e2"]
Other == [Base EXCEPT !.canary = c2]
Plain == [Base EXCEPT !.canary = None, !.kv = FALSE, !.events = None]
Malformed == [Other EXCEPT !.ok = FALSE]

AllRecords == {Base, Moved, Other, Plain, Malformed}
TwoWorkers == w1 :> {Base, Moved, Plain} @@ w2 :> {Base, Other, Malformed}
=============================================================================
