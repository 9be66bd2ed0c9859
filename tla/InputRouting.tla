---------------------------- MODULE InputRouting ----------------------------
(***************************************************************************)
(* What several daemons promise together about the inputs of their users:  *)
(* an input acts at once on the machine it was made at, or is on its way,  *)
(* or is lost, and what is on its way acts on one machine in the end or is *)
(* lost.  So no input ever acts twice.                                     *)
(***************************************************************************)
EXTENDS Naturals, Sequences

CONSTANTS
    Machines,
    Kinds       \* of inputs

VARIABLES
    pressed,    \* [Machines -> Nat], how many inputs its user has made
    flying,     \* the inputs on their way
    acted       \* [Machines -> Seq(Inputs)], the inputs its applications saw

Inputs == [from : Machines, n : Nat, kind : Kinds]

Init ==
    /\ pressed = [m \in Machines |-> 0]
    /\ flying = {}
    /\ acted = [m \in Machines |-> <<>>]

Acts(m, i) == acted' = [acted EXCEPT ![m] = Append(@, i)]

Press(m, kind) ==
    LET i == [from |-> m, n |-> pressed[m] + 1, kind |-> kind] IN
    /\ pressed' = [pressed EXCEPT ![m] = @ + 1]
    /\ \/ Acts(m, i) /\ UNCHANGED flying
       \/ flying' = flying \cup {i} /\ UNCHANGED acted
       \/ UNCHANGED <<flying, acted>>

Arrive(m, i) ==
    /\ flying' = flying \ {i}
    /\ Acts(m, i)
    /\ UNCHANGED pressed

Lose ==
    /\ flying' \subseteq flying
    /\ UNCHANGED <<pressed, acted>>

Next ==
    \/ \E m \in Machines, kind \in Kinds : Press(m, kind)
    \/ \E m \in Machines, i \in flying : Arrive(m, i)
    \/ Lose

Spec == Init /\ [][Next]_<<pressed, flying, acted>>
=============================================================================
