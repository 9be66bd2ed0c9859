------------------------------- MODULE Pointer -------------------------------
(***************************************************************************)
(* The pointer on its way over the screens of several machines: what the   *)
(* input hook, the handler of EnterScreen and the injector of main.rs do   *)
(* with the geometry of Topology.                                          *)
(*                                                                         *)
(* One user moves the pointer at a time.  The pointer of the machine it is *)
(* shown on stays on that machine's screen: the operating system sees to   *)
(* that.  Messages arrive at once here; their delays are in Session.       *)
(***************************************************************************)
EXTENDS Topology

CONSTANTS
    Machines,
    Display,      \* [Machines -> the primary display: x, y, width, height]
    RightPeer,    \* [Machines -> Machines or None], --right-peer
    LeftPeer,     \* [Machines -> Machines or None], --left-peer
    Threshold,    \* 3 pixels in main()
    Deadzone,     \* 15 pixels in main()
    Deltas        \* the distances of one mouse move

ASSUME PointerAssumption ==
    /\ None \notin Machines \cup ScreenEdge
    /\ Threshold \in Nat /\ Deadzone \in Nat
    /\ EntryInset <= Threshold /\ Threshold < Deadzone
    /\ Display \in [Machines -> [x : Int, y : Int, width : Nat, height : Nat]]
    /\ \A m \in Machines : /\ Display[m].width > Threshold + EntryInset
                           /\ Display[m].height > Threshold + EntryInset
    /\ RightPeer \in [Machines -> Machines \cup {None}]
    /\ LeftPeer \in [Machines -> Machines \cup {None}]
    /\ Deltas \subseteq Int

Boundary(m) == from_display(Display[m], Threshold, Deadzone)
Neighbor(m, edge) == find_neighbor_at_edge(neighbors_of(RightPeer[m], LeftPeer[m]), edge)

\* The pixels of a machine's screen, and the nearest one to a point.
Screen(m) ==
    [x : Display[m].x .. Display[m].x + Display[m].width - 1,
     y : Display[m].y .. Display[m].y + Display[m].height - 1]
Onto(m, p) ==
    [x |-> Clamp(p.x, Display[m].x, Display[m].x + Display[m].width - 1),
     y |-> Clamp(p.y, Display[m].y, Display[m].y + Display[m].height - 1)]
Center(m) ==
    [x |-> Display[m].x + (Display[m].width \div 2),
     y |-> Display[m].y + (Display[m].height \div 2)]

VARIABLES
    user,       \* the machine whose user moves the pointer
    shown,      \* the machine that shows it: the user's own, or its target
    pos,        \* the pointer's position there
    last        \* history of the last jump, None after any other move of the user:
                \* from which machine, at which point, through which edge into
                \* which point of the other

vars == <<user, shown, pos, last>>

Jumps == [from : Machines, at : Points, edge : ScreenEdge, into : Points]

Raw(dx, dy) == [x |-> pos.x + dx, y |-> pos.y + dy]
Moved(dx, dy) == Onto(shown, Raw(dx, dy))

\* The position the hook is told of a move: macOS reports the pointer's, Windows
\* the one it would have if the screen had no end.
Reported(dx, dy) == {Raw(dx, dy), Moved(dx, dy)}

\* The edge with a neighbor that a position of the own pointer hits, or None.
EdgeHit(p) ==
    LET edge == check_edge_hit(Boundary(user), p)
    IN  IF edge # None /\ Neighbor(user, edge) # None THEN edge ELSE None

\* The user moves the pointer on the own screen; no neighbor is reached.
LocalMove(dx, dy) ==
    /\ user = shown
    /\ \E p \in Reported(dx, dy) : EdgeHit(p) = None
    /\ pos' = Moved(dx, dy)
    /\ last' = None
    /\ UNCHANGED <<user, shown>>

\* Variant: the target is told the edge that was left, not the opposite one.
JumpSameEdge(dx, dy) ==
    \E p \in Reported(dx, dy) :
        LET edge == EdgeHit(p) IN
        /\ user = shown /\ edge # None
        /\ shown' = Neighbor(user, edge)
        /\ pos' = calculate_entry_point(Boundary(shown'), edge, Ratio(Boundary(user), p, edge))
        /\ last' = [from |-> user, at |-> p, edge |-> opposite(edge), into |-> pos']
        /\ UNCHANGED user

\* The user reaches a neighbor's edge: the neighbor shows the pointer at the
\* entry point of the opposite edge.
Jump(dx, dy) ==
    \E p \in Reported(dx, dy) :
        LET edge == EdgeHit(p) IN
        /\ user = shown /\ edge # None
        /\ shown' = Neighbor(user, edge)
        /\ pos' = calculate_entry_point(Boundary(shown'), opposite(edge),
                                        Ratio(Boundary(user), p, edge))
        /\ last' = [from |-> user, at |-> p, edge |-> opposite(edge), into |-> pos']
        /\ UNCHANGED user

\* The user moves the pointer on the target; no edge is looked at there.
RemoteMove(dx, dy) ==
    /\ user # shown
    /\ pos' = Moved(dx, dy)
    /\ last' = None
    /\ UNCHANGED <<user, shown>>

\* The target's own user touches its mouse and takes over.  This move looks at
\* no edge, the ones that follow do.
Preempt(dx, dy) ==
    /\ user # shown
    /\ user' = shown
    /\ pos' = Moved(dx, dy)
    /\ UNCHANGED <<shown, last>>

\* The user breaks out: the pointer is back in the middle of the own screen.
Breakout ==
    /\ shown' = user
    /\ pos' = Center(user)
    /\ last' = None
    /\ UNCHANGED user

Init ==
    /\ user \in Machines /\ shown = user
    /\ pos = Center(user)
    /\ last = None

Next ==
    \/ \E dx, dy \in Deltas :
          LocalMove(dx, dy) \/ Jump(dx, dy) \/ RemoteMove(dx, dy) \/ Preempt(dx, dy)
    \/ Breakout

Spec == Init /\ [][Next]_vars

-----------------------------------------------------------------------------
(* Properties.                                                              *)

\* Every variable has its type; the pointer is on the screen of the machine that
\* shows it, after a jump too, where it is put without being clamped.
TypeOK ==
    /\ user \in Machines /\ shown \in Machines
    /\ pos \in Screen(shown)
    /\ last \in Jumps \cup {None}

\* The place where the pointer enters a screen may be in the zone of an edge, but
\* of no other edge than the one it enters through: if its own user takes over
\* and it leads on at once, then back, never to a third machine.
EntryHitsNoOtherEdge ==
    last # None /\ user # shown => check_edge_hit(Boundary(shown), pos) \in {None, last.edge}

\* Who takes over after an entry and leaves by the same edge at the same height
\* comes back to the height where the pointer was left, up to the pixels of that
\* screen that one pixel of the other stands for.
Distance(a, b) == IF a < b THEN b - a ELSE a - b
ReturnsWhereItLeft ==
    [][/\ last # None /\ user = shown /\ last' # None /\ shown' = last.from
       /\ last'.edge = opposite(last.edge) /\ last'.at.y = last.into.y
       => Distance(pos'.y, last.at.y)
             <= 1 + (Display[last.from].height \div Display[shown].height)]_vars
=============================================================================
