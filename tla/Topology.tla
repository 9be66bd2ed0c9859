------------------------------ MODULE Topology ------------------------------
(***************************************************************************)
(* The geometry of kvm-core/src/topology.rs: when the pointer hits an edge *)
(* of a screen, where it enters the next one, and which machine is there.  *)
(*                                                                         *)
(* Coordinates are pixels.  A ratio along an edge is kept as the fraction  *)
(* it is, <<distance, length>> with the distance inside the length; the    *)
(* code has an f32, and where the pointer is put the pixel is its integer  *)
(* part.                                                                   *)
(***************************************************************************)
EXTENDS Integers

CONSTANT None    \* no edge, no machine

Left == "Left"   Right == "Right"   Top == "Top"   Bottom == "Bottom"
ScreenEdge == {Left, Right, Top, Bottom}

opposite(edge) ==
    [e \in ScreenEdge |->
        CASE e = Left -> Right [] e = Right -> Left
          [] e = Top -> Bottom [] e = Bottom -> Top][edge]

\* The pixels one moves between the edge and the point of entry.
EntryInset == 2

AtLeast(n, low) == IF n < low THEN low ELSE n

\* ScreenBoundary::from_display
from_display(display, threshold_px, corner_deadzone_px) ==
    [x_min |-> display.x, y_min |-> display.y,
     x_max |-> display.x + display.width, y_max |-> display.y + display.height,
     edge_threshold_px |-> AtLeast(threshold_px, 1),
     corner_deadzone_px |-> AtLeast(corner_deadzone_px, 0)]

Boundaries ==
    [x_min : Int, y_min : Int, x_max : Int, y_max : Int,
     edge_threshold_px : Nat \ {0}, corner_deadzone_px : Nat]

Points == [x : Int, y : Int]

\* The corner dead zones: close to a vertical edge and to a horizontal one.
InCorner(b, p) ==
    /\ \/ p.x - b.x_min < b.corner_deadzone_px
       \/ b.x_max - p.x < b.corner_deadzone_px
    /\ \/ p.y - b.y_min < b.corner_deadzone_px
       \/ b.y_max - p.y < b.corner_deadzone_px

\* The first edge, in the order of the code, whose zone the point is in.
EdgeAt(b, p) ==
    IF p.x >= b.x_max - b.edge_threshold_px THEN Right
    ELSE IF p.x <= b.x_min + b.edge_threshold_px THEN Left
    ELSE IF p.y >= b.y_max - b.edge_threshold_px THEN Bottom
    ELSE IF p.y <= b.y_min + b.edge_threshold_px THEN Top
    ELSE None

Clamp(n, low, high) == IF n < low THEN low ELSE IF n > high THEN high ELSE n

Vertical(edge) == edge \in {Left, Right}

\* Variant: the ratio is taken along the other side of the screen.
RatioSwapped(b, p, edge) ==
    IF ~Vertical(edge) THEN <<Clamp(p.y - b.y_min, 0, b.y_max - b.y_min), b.y_max - b.y_min>>
    ELSE <<Clamp(p.x - b.x_min, 0, b.x_max - b.x_min), b.x_max - b.x_min>>

Ratio(b, p, edge) ==
    IF Vertical(edge) THEN <<Clamp(p.y - b.y_min, 0, b.y_max - b.y_min), b.y_max - b.y_min>>
    ELSE <<Clamp(p.x - b.x_min, 0, b.x_max - b.x_min), b.x_max - b.x_min>>

\* The edge that check_edge_hit reports, or None.
check_edge_hit(b, p) ==
    IF b.x_max <= b.x_min \/ b.y_max <= b.y_min \/ InCorner(b, p) THEN None
    ELSE EdgeAt(b, p)

\* The pixel at a ratio of a side of some length: the floor of the exact product.
\* The code rounds to f32 and cuts off the fraction of the whole coordinate, which
\* is one pixel more where that is negative; the primary display has its origin
\* at (0, 0).  The bound of ReturnsWhereItLeft has room for that difference.
Along(ratio, length) == (length * ratio[1]) \div ratio[2]

\* Variant: the pointer is put on the edge itself.
calculate_entry_point_on_edge(b, edge, ratio) ==
    LET x == b.x_min + Along(ratio, b.x_max - b.x_min)
        y == b.y_min + Along(ratio, b.y_max - b.y_min)
    IN  CASE edge = Left   -> [x |-> b.x_min, y |-> y]
          [] edge = Right  -> [x |-> b.x_max, y |-> y]
          [] edge = Top    -> [x |-> x, y |-> b.y_min]
          [] edge = Bottom -> [x |-> x, y |-> b.y_max]

calculate_entry_point(b, edge, ratio) ==
    LET x == b.x_min + Along(ratio, b.x_max - b.x_min)
        y == b.y_min + Along(ratio, b.y_max - b.y_min)
    IN  CASE edge = Left   -> [x |-> b.x_min + EntryInset, y |-> y]
          [] edge = Right  -> [x |-> b.x_max - EntryInset, y |-> y]
          [] edge = Top    -> [x |-> x, y |-> b.y_min + EntryInset]
          [] edge = Bottom -> [x |-> x, y |-> b.y_max - EntryInset]

\* The neighbors: a peer that is added again moves to its new edge.  The code
\* keeps a list; main() puts at most one neighbor at an edge, so that the order
\* in which it is searched makes no difference.
add_neighbor(neighbors, peer_id, edge) ==
    {n \in neighbors : n.peer_id # peer_id} \cup {[peer_id |-> peer_id, edge |-> edge]}

find_neighbor_at_edge(neighbors, edge) ==
    IF \E n \in neighbors : n.edge = edge
       THEN (CHOOSE n \in neighbors : n.edge = edge).peer_id ELSE None

\* What main() makes of --right-peer and --left-peer.
neighbors_of(right, left) ==
    LET one == IF right = None THEN {} ELSE add_neighbor({}, right, Right)
    IN  IF left = None THEN one ELSE add_neighbor(one, left, Left)
=============================================================================
