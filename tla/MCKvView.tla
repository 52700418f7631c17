------------------------------ MODULE MCKvView ------------------------------
(* KvView on a chain of two blocks, under budgets that each bring out one   *)
(* kind of trouble: the worlds are explored one beside the other, since     *)
(* their product says little more and is far larger.                        *)
EXTENDS KvView

CONSTANTS b1, b2

Chain == [b \in Blocks |-> IF b = b1 THEN Root ELSE b1]

Calm == [events |-> 2, flushes |-> 1, restarts |-> 0, tracks |-> 1, coldStarts |-> 0,
         streamFaults |-> 0, bucketFaults |-> 0]

Worlds == {
    [Calm EXCEPT !.events = 3, !.flushes = 2, !.tracks = 0],
    [Calm EXCEPT !.events = 3, !.tracks = 0, !.bucketFaults = 2],
    [Calm EXCEPT !.streamFaults = 1],
    [Calm EXCEPT !.events = 1, !.flushes = 2, !.restarts = 1, !.tracks = 2],
    [Calm EXCEPT !.coldStarts = 1, !.tracks = 2]}
=============================================================================
