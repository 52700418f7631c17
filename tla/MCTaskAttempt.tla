--------------------------- MODULE MCTaskAttempt ---------------------------
(***************************************************************************)
(* Three graphs.  P has a subgraph of A, then B, which ends it and writes  *)
(* P's output.  Q has one of C alone.  X and Y are leaves, Y after X,      *)
(* which has two outputs.  There is one GPU, which every leaf needs.  Y    *)
(* reserves a token of two; X may report three without having reserved     *)
(* any.  A world submits one graph and bounds what may disturb it.         *)
(***************************************************************************)
EXTENDS TaskAttempt

CONSTANTS P, A, B, Q, C, X, Y, ha, hp, hq, hx, hy

TheTasks == {P, A, B, Q, C, X, Y}
TheSlots == {ha, hp, hq, hx, hy}
TheInputs == [t \in TheTasks |-> CASE t = B -> {ha} [] t = Y -> {hx, hy} [] OTHER -> {}]
TheOutputs == [t \in TheTasks |-> CASE t = A -> {ha} [] t \in {B, P} -> {hp}
                                    [] t \in {C, Q} -> {hq} [] t = X -> {hx, hy} [] OTHER -> {}]
TheParent == [t \in TheTasks |-> CASE t \in {A, B} -> P [] t = C -> Q [] OTHER -> None]
TheNeed == [t \in TheTasks |-> IF t \in {P, Q} THEN 0 ELSE 1]
TheReserve == [t \in TheTasks |-> IF t = Y THEN 1 ELSE 0]
TheCharges == [t \in TheTasks |-> IF t = X THEN {3} ELSE {}]

World(roots, refusals, stops, resumes, restarts) ==
    [roots |-> roots,
     budget |-> [refusals |-> refusals, stops |-> stops, resumes |-> resumes,
                 restarts |-> restarts]]

TheWorlds == {World({P}, 1, 0, 0, 1), World({Q}, 0, 1, 1, 0), World({X}, 1, 1, 1, 0),
              World({X, Y}, 0, 1, 1, 0), World({X, Y}, 1, 0, 1, 0), World({X, Y}, 2, 0, 0, 1)}

\* The graphs are of the shape that the theorems of TaskOutcomeProofs suppose.
ASSUME GraphsAreWellFormed == RootsAreRoots /\ SubgraphsEnd /\ EndsExport /\ SlotsApart
=============================================================================
