---------------------------- MODULE DeltaStream -----------------------------
(***************************************************************************)
(* What the UDP stream of mouse deltas promises: of the deltas a process   *)
(* captures, the receiver is shown some, each one captured later than the  *)
(* one before, so that none is shown twice or after a later one.  A        *)
(* receiver that starts again may be shown old ones again.                 *)
(***************************************************************************)
EXTENDS Naturals

CONSTANT Processes    \* the processes that capture deltas

VARIABLES
    captured,   \* [Processes -> Nat], the number of the last captured delta
    shown,      \* [Processes -> Nat], and of the last one the receiver was shown
    moves       \* [Processes -> Nat], how many it was shown

Init ==
    /\ captured = [p \in Processes |-> 0]
    /\ shown = [p \in Processes |-> 0]
    /\ moves = [p \in Processes |-> 0]

Capture(p) ==
    /\ captured' = [captured EXCEPT ![p] = @ + 1]
    /\ UNCHANGED <<shown, moves>>

Show(p) ==
    /\ \E n \in (shown[p] + 1) .. captured[p] : shown' = [shown EXCEPT ![p] = n]
    /\ moves' = [moves EXCEPT ![p] = @ + 1]
    /\ UNCHANGED captured

Forget ==
    /\ shown' = [p \in Processes |-> 0]
    /\ moves' = [p \in Processes |-> 0]
    /\ UNCHANGED captured

Next == Forget \/ \E p \in Processes : Capture(p) \/ Show(p)

Spec == Init /\ [][Next]_<<captured, shown, moves>>
=============================================================================
