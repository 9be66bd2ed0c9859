------------------------------ MODULE MCPointer ------------------------------
(* Three machines side by side, with screens of different sizes; the middle  *)
(* one has a neighbor on both sides, and the last one names no neighbor.     *)
EXTENDS Pointer, TLC

CONSTANTS A, B, C    \* model values: the machines

MCDisplay ==
    A :> [x |-> 0, y |-> 0, width |-> 10, height |-> 12]
    @@ B :> [x |-> -6, y |-> 2, width |-> 12, height |-> 17]
    @@ C :> [x |-> 0, y |-> 0, width |-> 9, height |-> 10]
MCRightPeer == A :> B @@ B :> C @@ C :> None
MCLeftPeer == A :> None @@ B :> A @@ C :> None
MCDeltas == {-4, -1, 0, 1, 5}
=============================================================================
