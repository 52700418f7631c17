------------------------------ MODULE BlockRefs ------------------------------
(***************************************************************************)
(* The in-flight load a kv-aware policy keeps for its workers              *)
(* (infera/router/policy/kv_event_aware.py): _active_block_refs, the       *)
(* number of requests in flight for every worker and prompt block.  Both   *)
(* routers drive it through on_request_started and on_request_finished;    *)
(* discovery, when a worker leaves, through on_worker_removed.             *)
(*                                                                         *)
(* A worker without a dict, a block without an entry and a count of zero   *)
(* are the same to the code, so a count is kept for every pair.            *)
(***************************************************************************)
EXTENDS Integers, FiniteSets

CONSTANTS Workers, Blocks

VARIABLE refs       \* refs[w][b]

RefsTypeOK == refs \in [Workers -> [Blocks -> Nat]]

NoRefs == [b \in Blocks |-> 0]
RefsInit == refs = [w \in Workers |-> NoRefs]

Count(f, w, bs, d) == [f EXCEPT ![w] = [b \in Blocks |-> IF b \in bs THEN d[b] ELSE f[w][b]]]

on_request_started(f, w, bs) == Count(f, w, bs, [b \in Blocks |-> f[w][b] + 1])

\* Mutant: a count may be taken below zero.
on_request_finishedNoFloor(f, w, bs) == Count(f, w, bs, [b \in Blocks |-> f[w][b] - 1])

\* A count at zero is dropped, never taken below it: the request may have
\* been counted before its worker left and came back.
on_request_finished(f, w, bs) ==
    Count(f, w, bs, [b \in Blocks |-> IF f[w][b] > 0 THEN f[w][b] - 1 ELSE 0])

on_worker_removed(f, w) == [f EXCEPT ![w] = NoRefs]
=============================================================================
