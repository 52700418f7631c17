---------------------------- MODULE ClientStream ----------------------------
(***************************************************************************)
(* What a client of a streamed generation is promised, whatever happens to *)
(* the workers behind it: "The client sees one uninterrupted stream and    *)
(* never learns a worker changed underneath it" (infera/router/migration). *)
(* It reads the tokens of one generation in order, none twice and none     *)
(* left out, until the sentinel or a visible error ends the stream.        *)
(***************************************************************************)
EXTENDS Naturals, Sequences

VARIABLES
    out,        \* the tokens read so far, by their place in the generation
    status      \* open, done: the sentinel was read, failed: an error was

Init == out = <<>> /\ status = "open"

Deliver ==
    /\ status = "open"
    /\ out' = Append(out, Len(out) + 1)
    /\ UNCHANGED status

Close ==
    /\ status = "open"
    /\ status' \in {"done", "failed"}
    /\ UNCHANGED out

Next == Deliver \/ Close

Spec == Init /\ [][Next]_<<out, status>>
=============================================================================
