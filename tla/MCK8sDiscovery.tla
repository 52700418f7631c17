--------------------------- MODULE MCK8sDiscovery ---------------------------
(* Two Pods: p1 may be given either address, p2 only the second.  The       *)
(* container of p1 may come back without a canary and at another events     *)
(* endpoint, the one p2 announces; the canary of p2 is another than p1's.   *)
EXTENDS K8sDiscovery, TLC

CONSTANTS w1, w2, p1, p2, c1, c2

Base == [ok |-> TRUE, model |-> "m", canary |-> c1, kv |-> TRUE, events |-> "e1", target |-> "t"]
Moved == [Base EXCEPT !.canary = None, !.events = "e2"]
Other == [Moved EXCEPT !.canary = c2]

AllRecords == {Base, Moved, Other}
OwnRecords == p1 :> {Base, Moved} @@ p2 :> {Other}
Addresses == p1 :> {w1, w2} @@ p2 :> {w2}
=============================================================================
