----------------------------- MODULE MCSession ------------------------------
(* Instances of Session for TLC: machines "A" and "B", neighbors of each    *)
(* other, and the connection that B dialed.                                 *)
EXTENDS Session, TLC

MCNeighbors == [m \in Machines |-> Machines \ {m}]
MCDialer == [c \in Conns |-> IF c = "ba" THEN "B" ELSE "A"]
MCListener == [c \in Conns |-> IF c = "ba" THEN "A" ELSE "B"]
\* A needs a move to jump and two inputs to follow; the input of B is a move,
\* which can do all that a key can, and jump.
FourInputs == [m \in Machines |-> IF m = "A" THEN 3 ELSE 1]
FirstMoves ==
    \A m \in Machines : pressed[m] = 0 /\ pressed'[m] = 1 => seq'[m] > seq[m]
\* And at most one LeaveScreen is on its way.
OneLeaving ==
    \A e, f \in Ends : \A j \in DOMAIN wire[e], k \in DOMAIN wire[f] :
        wire[e][j].type = "LeaveScreen" /\ wire[f][k].type = "LeaveScreen"
            => e = f /\ j = k
=============================================================================
