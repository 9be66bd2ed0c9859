---------------------------- MODULE PointerProofs ----------------------------
(***************************************************************************)
(* Proofs about Pointer: for screens of any size and place, the pointer    *)
(* stays on the screen that shows it and enters it at no edge but the one  *)
(* it is sent through.                                                     *)
(***************************************************************************)
EXTENDS Pointer, TLAPS

\* What a ratio along an edge is.
Fractions == Int \X (Nat \ {0})

\* What is neighbor of a machine is a machine, and only at the sides.
LEMMA NeighborType ==
    ASSUME NEW m \in Machines, NEW edge \in ScreenEdge, Neighbor(m, edge) # None
    PROVE  Neighbor(m, edge) \in Machines /\ edge \in {Left, Right}
<1> DEFINE ns == neighbors_of(RightPeer[m], LeftPeer[m])
<1>1. \A n \in ns : n.edge \in {Left, Right} /\ n.peer_id \in Machines
  BY PointerAssumption DEF neighbors_of, add_neighbor
<1> QED  BY <1>1 DEF Neighbor, find_neighbor_at_edge

\* A boundary is made of numbers.
LEMMA BoundaryType ==
    ASSUME NEW m \in Machines
    PROVE  /\ Boundary(m) =
                [x_min |-> Display[m].x, y_min |-> Display[m].y,
                 x_max |-> Display[m].x + Display[m].width,
                 y_max |-> Display[m].y + Display[m].height,
                 edge_threshold_px |-> Threshold, corner_deadzone_px |-> Deadzone]
           /\ Display[m].x \in Int /\ Display[m].y \in Int
           /\ Display[m].width \in Nat /\ Display[m].height \in Nat
           /\ Display[m].width > Threshold + EntryInset
           /\ Display[m].height > Threshold + EntryInset
BY PointerAssumption DEF Boundary, from_display, AtLeast, EntryInset

\* Clamped to a screen, a point is on it.
LEMMA OntoScreen ==
    ASSUME NEW m \in Machines, NEW p \in Points
    PROVE  Onto(m, p) \in Screen(m)
<1>1. \A low, n \in Int, w \in Nat : w > 0 => Clamp(n, low, low + w - 1) \in low .. low + w - 1
  BY DEF Clamp
<1>2. Display[m].width > 0 /\ Display[m].height > 0
  BY BoundaryType, PointerAssumption DEF EntryInset
<1> QED  BY <1>1, <1>2, BoundaryType DEF Onto, Screen, Points

\* So is the middle of the screen, where a breakout puts the pointer.
LEMMA CenterOnScreen ==
    ASSUME NEW m \in Machines
    PROVE  Center(m) \in Screen(m)
<1>1. \A n \in Nat : n > 0 => n \div 2 \in 0 .. n - 1
  OBVIOUS
<1> QED  BY <1>1, BoundaryType, PointerAssumption DEF Center, Screen, EntryInset

\* A fraction below one of a length is a pixel of it.
LEMMA AlongInside ==
    ASSUME NEW length \in Nat \ {0}, NEW d \in Nat, NEW whole \in Nat \ {0}, d < whole
    PROVE  Along(<<d, whole>>, length) \in 0 .. length - 1
<1> DEFINE q == (length * d) \div whole
<1>1. length * d \in Nat /\ length * d < length * whole
  OBVIOUS
<1>2. q \in Int /\ whole * q <= length * d /\ length * d < whole * q + whole
  BY <1>1
<1>3. q >= 0
  BY <1>1, <1>2
<1>4. q < length
  <2> SUFFICES ASSUME q >= length PROVE FALSE
    BY <1>2
  <2>1. whole * q >= whole * length
    BY <1>2
  <2> QED  BY <2>1, <1>1, <1>2
<1> QED  BY <1>2, <1>3, <1>4 DEF Along

\* A point that hits an edge with a neighbor is at a side, clear of the corners.
LEMMA HitIsClear ==
    ASSUME NEW p \in Points, user \in Machines, EdgeHit(p) # None
    PROVE  /\ EdgeHit(p) \in {Left, Right} /\ Neighbor(user, EdgeHit(p)) \in Machines
           /\ check_edge_hit(Boundary(user), p) = EdgeHit(p)
           /\ p.y - Display[user].y \in 1 .. Display[user].height - 1
<1> DEFINE b == Boundary(user)
           edge == check_edge_hit(b, p)
<1>1. edge = EdgeHit(p) /\ edge # None /\ Neighbor(user, edge) # None
  BY DEF EdgeHit
<1>2. edge \in ScreenEdge /\ ~InCorner(b, p) /\ edge = EdgeAt(b, p)
  BY <1>1 DEF check_edge_hit, EdgeAt, ScreenEdge
<1>3. edge \in {Left, Right} /\ Neighbor(user, edge) \in Machines
  BY <1>1, <1>2, NeighborType
<1>4. \/ p.x >= b.x_max - b.edge_threshold_px
      \/ p.x <= b.x_min + b.edge_threshold_px
  BY <1>1, <1>2, <1>3 DEF EdgeAt, Left, Right, Top, Bottom
<1>5. /\ p.y - Display[user].y >= Deadzone
      /\ Display[user].y + Display[user].height - p.y >= Deadzone
  BY <1>2, <1>4, BoundaryType, PointerAssumption DEF InCorner, Points
<1> QED  BY <1>1, <1>3, <1>5, BoundaryType, PointerAssumption DEF Points

\* The entry point that a jump leads to is on the screen.
LEMMA EntryOnScreen ==
    ASSUME NEW p \in Points, user \in Machines, EdgeHit(p) # None,
           NEW m \in Machines, NEW edge \in {Left, Right}
    PROVE  calculate_entry_point(Boundary(m), edge, Ratio(Boundary(user), p, EdgeHit(p)))
              \in Screen(m)
<1> DEFINE d == p.y - Display[user].y
           h == Display[user].height
           y == Display[m].y + Along(<<d, h>>, Display[m].height)
<1>1. d \in 1 .. h - 1 /\ EdgeHit(p) \in {Left, Right}
  BY HitIsClear
<1>2. h \in Nat \ {0} /\ d \in Nat /\ d < h /\ Display[m].height \in Nat \ {0}
  BY <1>1, BoundaryType, PointerAssumption DEF EntryInset
<1>3. Along(<<d, h>>, Display[m].height) \in 0 .. Display[m].height - 1
  <2> HIDE DEF d, h
  <2> QED  BY <1>2, AlongInside
<1>4. Ratio(Boundary(user), p, EdgeHit(p)) = <<d, h>>
  <2>1. Boundary(user).y_min = Display[user].y /\ Boundary(user).y_max - Boundary(user).y_min = h
    BY BoundaryType
  <2>2. Clamp(d, 0, h) = d
    BY <1>1, <1>2 DEF Clamp
  <2> QED  BY <1>1, <2>1, <2>2 DEF Ratio, Vertical
<1>5. y \in Display[m].y .. Display[m].y + Display[m].height - 1
  <2> HIDE DEF d, h
  <2> QED  BY <1>3, BoundaryType
<1>6. /\ Display[m].x + EntryInset \in Display[m].x .. Display[m].x + Display[m].width - 1
      /\ Display[m].x + Display[m].width - EntryInset
            \in Display[m].x .. Display[m].x + Display[m].width - 1
  BY BoundaryType, PointerAssumption DEF EntryInset
<1>7. Boundary(m).y_max - Boundary(m).y_min = Display[m].height
  BY BoundaryType
<1>8. calculate_entry_point(Boundary(m), edge, <<d, h>>)
         = [x |-> IF edge = Left THEN Boundary(m).x_min + EntryInset
                  ELSE Boundary(m).x_max - EntryInset, y |-> y]
  <2> HIDE DEF d, h
  <2> QED  BY <1>7, BoundaryType DEF calculate_entry_point, Left, Right, Top, Bottom
<1>9. /\ Boundary(m).x_min = Display[m].x
      /\ Boundary(m).x_max = Display[m].x + Display[m].width
  BY BoundaryType
<1>10. calculate_entry_point(Boundary(m), edge, <<d, h>>) \in Screen(m)
  <2> DEFINE x == IF edge = Left THEN Boundary(m).x_min + EntryInset
                  ELSE Boundary(m).x_max - EntryInset
  <2>1. x \in Display[m].x .. Display[m].x + Display[m].width - 1
    <3>1. CASE edge = Left
      BY <3>1, <1>6, <1>9
    <3>2. CASE edge # Left
      BY <3>2, <1>6, <1>9, BoundaryType DEF EntryInset
    <3> QED  BY <3>1, <3>2
  <2>2. calculate_entry_point(Boundary(m), edge, <<d, h>>) = [x |-> x, y |-> y]
    BY <1>8
  <2> HIDE DEF x, y
  <2>3. [x |-> x, y |-> y] \in Screen(m)
    BY <2>1, <1>5 DEF Screen
  <2> QED  BY <2>2, <2>3
<1> QED  BY <1>4, <1>10

\* A ratio is a fraction, and never one with a denominator of zero.
LEMMA RatioType ==
    ASSUME NEW p \in Points, user \in Machines, NEW edge
    PROVE  Ratio(Boundary(user), p, edge) \in Fractions
<1>1. \A n \in Int, w \in Nat : Clamp(n, 0, w) \in Int
  BY DEF Clamp
<1>2. Display[user].width > 0 /\ Display[user].height > 0
  BY BoundaryType, PointerAssumption DEF EntryInset
<1>3. /\ Boundary(user).x_max - Boundary(user).x_min \in Nat \ {0}
      /\ Boundary(user).y_max - Boundary(user).y_min \in Nat \ {0}
      /\ p.x - Boundary(user).x_min \in Int /\ p.y - Boundary(user).y_min \in Int
  BY <1>2, BoundaryType DEF Points
<1> QED  BY <1>1, <1>3 DEF Ratio, Fractions

\* At whatever ratio, the entry point is in a corner or hits the edge of entry.
LEMMA EntryZone ==
    ASSUME NEW m \in Machines, NEW edge \in ScreenEdge, NEW ratio \in Fractions
    PROVE  check_edge_hit(Boundary(m), calculate_entry_point(Boundary(m), edge, ratio))
              \in {None, edge}
<1> DEFINE b == Boundary(m)
           x == b.x_min + Along(ratio, b.x_max - b.x_min)
           y == b.y_min + Along(ratio, b.y_max - b.y_min)
<1>1. \A n \in Int : Along(ratio, n) \in Int
  BY DEF Along, Fractions
<1>2. x \in Int /\ y \in Int
  BY <1>1, BoundaryType
<1>3. CASE edge = Left
  <2>1. calculate_entry_point(b, edge, ratio) = [x |-> b.x_min + EntryInset, y |-> y]
    BY <1>3 DEF calculate_entry_point, Left, Right, Top, Bottom
  <2> QED
    <3> HIDE DEF y
    <3> QED  BY <2>1, <1>2, <1>3, BoundaryType, PointerAssumption
             DEF check_edge_hit, EdgeAt, InCorner, EntryInset
<1>4. CASE edge = Right
  <2>1. calculate_entry_point(b, edge, ratio) = [x |-> b.x_max - EntryInset, y |-> y]
    BY <1>4 DEF calculate_entry_point, Left, Right, Top, Bottom
  <2> QED
    <3> HIDE DEF y
    <3> QED  BY <2>1, <1>2, <1>4, BoundaryType, PointerAssumption
             DEF check_edge_hit, EdgeAt, InCorner, EntryInset
<1>5. CASE edge = Top
  <2>1. calculate_entry_point(b, edge, ratio) = [x |-> x, y |-> b.y_min + EntryInset]
    BY <1>5 DEF calculate_entry_point, Left, Right, Top, Bottom
  <2> QED
    <3> HIDE DEF x
    <3> QED  BY <2>1, <1>2, <1>5, BoundaryType, PointerAssumption
             DEF check_edge_hit, EdgeAt, InCorner, EntryInset
<1>6. CASE edge = Bottom
  <2>1. calculate_entry_point(b, edge, ratio) = [x |-> x, y |-> b.y_max - EntryInset]
    BY <1>6 DEF calculate_entry_point, Left, Right, Top, Bottom
  <2> QED
    <3> HIDE DEF x
    <3> QED  BY <2>1, <1>2, <1>6, BoundaryType, PointerAssumption
             DEF check_edge_hit, EdgeAt, InCorner, EntryInset
<1> QED  BY <1>3, <1>4, <1>5, <1>6 DEF ScreenEdge

\* Points of a screen are points, and so is where a hook sees them go.
LEMMA ScreenPoints ==
    ASSUME NEW m \in Machines
    PROVE  Screen(m) \subseteq Points
BY BoundaryType DEF Screen, Points

\* A move leaves the pointer on the screen and is reported as a point.
LEMMA MovedType ==
    ASSUME TypeOK, NEW dx \in Deltas, NEW dy \in Deltas
    PROVE  Moved(dx, dy) \in Screen(shown) /\ Reported(dx, dy) \subseteq Points
<1>1. Raw(dx, dy) \in Points
  BY ScreenPoints, PointerAssumption DEF Raw, TypeOK, Points
<1> QED  BY <1>1, OntoScreen, ScreenPoints DEF TypeOK, Moved, Reported

\* What a jump does, once and for all.
LEMMA JumpLands ==
    ASSUME TypeOK, NEW dx \in Deltas, NEW dy \in Deltas, Jump(dx, dy)
    PROVE  /\ user' = user /\ shown' \in Machines /\ pos' \in Screen(shown')
           /\ last' \in Jumps
           /\ \E edge \in {Left, Right}, r \in Fractions :
                 /\ pos' = calculate_entry_point(Boundary(shown'), edge, r)
                 /\ last'.edge = edge
<1>1. PICK p \in Reported(dx, dy) :
         /\ EdgeHit(p) # None
         /\ shown' = Neighbor(user, EdgeHit(p))
         /\ pos' = calculate_entry_point(Boundary(shown'), opposite(EdgeHit(p)),
                                         Ratio(Boundary(user), p, EdgeHit(p)))
         /\ last' = [from |-> user, at |-> p, edge |-> opposite(EdgeHit(p)), into |-> pos']
         /\ user' = user
  BY DEF Jump
<1>2. p \in Points /\ user \in Machines
  BY MovedType DEF TypeOK
<1>3. EdgeHit(p) \in {Left, Right} /\ shown' \in Machines
  BY <1>1, <1>2, HitIsClear
<1>4. opposite(EdgeHit(p)) \in {Left, Right}
  BY <1>3 DEF opposite, ScreenEdge, Left, Right, Top, Bottom
<1>5. pos' \in Screen(shown')
  BY <1>1, <1>2, <1>3, <1>4, EntryOnScreen
<1>6. last' \in Jumps
  BY <1>1, <1>2, <1>3, <1>4, <1>5, ScreenPoints DEF Jumps, ScreenEdge
<1>7. Ratio(Boundary(user), p, EdgeHit(p)) \in Fractions
  BY <1>2, RatioType
<1> QED  BY <1>1, <1>3, <1>4, <1>5, <1>6, <1>7

\* The height at which a jump from point p of machine m enters machine n.
EntryHeight(m, p, n) ==
    Display[n].y + Along(<<p.y - Display[m].y, Display[m].height>>, Display[n].height)

LEMMA JumpHeight ==
    ASSUME TypeOK, NEW dx \in Deltas, NEW dy \in Deltas, Jump(dx, dy)
    PROVE  /\ last'.from = user /\ last'.into = pos' /\ last'.edge \in {Left, Right}
           /\ last'.at.y - Display[user].y \in 1 .. Display[user].height - 1
           /\ pos'.y = EntryHeight(user, last'.at, shown')
<1>1. PICK p \in Reported(dx, dy) :
         /\ EdgeHit(p) # None
         /\ shown' = Neighbor(user, EdgeHit(p))
         /\ pos' = calculate_entry_point(Boundary(shown'), opposite(EdgeHit(p)),
                                         Ratio(Boundary(user), p, EdgeHit(p)))
         /\ last' = [from |-> user, at |-> p, edge |-> opposite(EdgeHit(p)), into |-> pos']
  BY DEF Jump
<1>2. p \in Points /\ user \in Machines
  BY MovedType DEF TypeOK
<1>3. /\ EdgeHit(p) \in {Left, Right} /\ shown' \in Machines
      /\ p.y - Display[user].y \in 1 .. Display[user].height - 1
  BY <1>1, <1>2, HitIsClear
<1>4. opposite(EdgeHit(p)) \in {Left, Right}
  BY <1>3 DEF opposite, ScreenEdge, Left, Right, Top, Bottom
<1> DEFINE d == p.y - Display[user].y
           h == Display[user].height
<1>5. Ratio(Boundary(user), p, EdgeHit(p)) = <<d, h>>
  <2>1. /\ Boundary(user).y_min = Display[user].y
        /\ Boundary(user).y_max - Boundary(user).y_min = h /\ h \in Nat
    BY <1>2, BoundaryType
  <2>2. Clamp(d, 0, h) = d
    BY <1>3, <2>1 DEF Clamp
  <2> QED
    BY <1>3, <2>1, <2>2 DEF Ratio, Vertical
<1>6. /\ Boundary(shown').y_min = Display[shown'].y
      /\ Boundary(shown').y_max - Boundary(shown').y_min = Display[shown'].height
  BY <1>3, BoundaryType
<1>7. ASSUME NEW edge \in {Left, Right}, NEW ratio
      PROVE  calculate_entry_point(Boundary(shown'), edge, ratio).y
                = Display[shown'].y + Along(ratio, Display[shown'].height)
  BY <1>6 DEF calculate_entry_point, Left, Right, Top, Bottom
<1>8. pos'.y = Display[shown'].y + Along(<<d, h>>, Display[shown'].height)
  BY <1>1, <1>4, <1>5, <1>7
<1> QED
  BY <1>1, <1>3, <1>4, <1>8 DEF EntryHeight

\* Out by one ratio and back by the other: what is lost is less than one pixel
\* here and what a pixel there stands for.
LEMMA ThereAndBack ==
    ASSUME NEW h \in Nat \ {0}, NEW g \in Nat \ {0}, NEW a \in Nat,
           NEW b, b = Along(<<a, h>>, g), NEW c, c = Along(<<b, g>>, h)
    PROVE  c \in Nat /\ c <= a /\ a <= c + 1 + (h \div g)
<1> DEFINE q == h \div g
<1>1. g * a \in Nat /\ b = (g * a) \div h
  BY DEF Along
<1>2. b \in Nat /\ h * b <= g * a /\ g * a < h * b + h
  BY <1>1
<1>3. h * b \in Nat /\ c = (h * b) \div g
  BY <1>2 DEF Along
<1>4. c \in Nat /\ g * c <= h * b /\ h * b < g * c + g
  BY <1>3
<1>5. q \in Nat /\ g * q <= h /\ h < g * q + g
  OBVIOUS
<1> HIDE DEF q
<1>6. c <= a
  <2> SUFFICES ASSUME c > a PROVE FALSE
    BY <1>4
  <2>1. g * c >= g * a + g
    BY <1>4
  <2> QED
    BY <1>1, <1>2, <1>3, <1>4, <2>1
<1>7. a <= c + 1 + q
  <2> SUFFICES ASSUME a >= c + q + 2 PROVE FALSE
    BY <1>4, <1>5
  <2>1. g * a >= g * (c + q + 2)
    BY <1>4, <1>5
  <2>2. g * (c + q + 2) = g * c + g * q + g + g
    BY <1>4, <1>5
  <2>3. g * a < (g * c + g) + (g * q + g)
    BY <1>1, <1>2, <1>3, <1>4, <1>5
  <2>4. g * c \in Nat /\ g * q \in Nat
    BY <1>4, <1>5
  <2> QED
    BY <1>1, <2>1, <2>2, <2>3, <2>4
<1> QED
  BY <1>4, <1>6, <1>7 DEF q

-----------------------------------------------------------------------------
\* The pointer is on the screen of the machine that shows it, whatever the sizes
\* and places of the screens: a jump never puts it off the target's screen.
THEOREM PointerOnScreen == Spec => []TypeOK
<1>1. Init => TypeOK
  BY CenterOnScreen DEF Init, TypeOK
<1>2. TypeOK /\ [Next]_vars => TypeOK'
  <2> SUFFICES ASSUME TypeOK, [Next]_vars PROVE TypeOK'
    OBVIOUS
  <2>1. ASSUME NEW dx \in Deltas, NEW dy \in Deltas, LocalMove(dx, dy) PROVE TypeOK'
    BY <2>1, MovedType DEF LocalMove, TypeOK, Screen
  <2>2. ASSUME NEW dx \in Deltas, NEW dy \in Deltas, Jump(dx, dy) PROVE TypeOK'
    BY <2>2, JumpLands DEF TypeOK, Screen
  <2>3. ASSUME NEW dx \in Deltas, NEW dy \in Deltas, RemoteMove(dx, dy) PROVE TypeOK'
    BY <2>3, MovedType DEF RemoteMove, TypeOK, Screen
  <2>4. ASSUME NEW dx \in Deltas, NEW dy \in Deltas, Preempt(dx, dy) PROVE TypeOK'
    BY <2>4, MovedType DEF Preempt, TypeOK, Screen
  <2>5. ASSUME Breakout PROVE TypeOK'
    BY <2>5, CenterOnScreen DEF Breakout, TypeOK, Screen
  <2>6. CASE UNCHANGED vars
    BY <2>6 DEF vars, TypeOK, Screen
  <2> QED  BY <2>1, <2>2, <2>3, <2>4, <2>5, <2>6 DEF Next
<1> QED  BY <1>1, <1>2, PTL DEF Spec

\* Where the pointer has just entered a screen it is in the zone of no edge but
\* the one it came through, as the dead zone of the corners is wider than the
\* zone of an edge.
THEOREM EntersAtOneEdge == Spec => []EntryHitsNoOtherEdge
<1>1. Init => EntryHitsNoOtherEdge
  BY DEF Init, EntryHitsNoOtherEdge
<1>2. TypeOK /\ EntryHitsNoOtherEdge /\ [Next]_vars => EntryHitsNoOtherEdge'
  <2> SUFFICES ASSUME TypeOK, EntryHitsNoOtherEdge, [Next]_vars PROVE EntryHitsNoOtherEdge'
    OBVIOUS
  <2>1. ASSUME NEW dx \in Deltas, NEW dy \in Deltas, LocalMove(dx, dy)
        PROVE  EntryHitsNoOtherEdge'
    BY <2>1 DEF LocalMove, EntryHitsNoOtherEdge
  <2>2. ASSUME NEW dx \in Deltas, NEW dy \in Deltas, Jump(dx, dy)
        PROVE  EntryHitsNoOtherEdge'
    <3>1. PICK edge \in {Left, Right}, r \in Fractions :
             /\ pos' = calculate_entry_point(Boundary(shown'), edge, r)
             /\ last'.edge = edge
      BY <2>2, JumpLands
    <3>2. shown' \in Machines /\ edge \in ScreenEdge
      BY <2>2, JumpLands DEF ScreenEdge
    <3>3. check_edge_hit(Boundary(shown'), pos') \in {None, last'.edge}
      BY <3>1, <3>2, EntryZone
    <3> QED  BY <3>3 DEF EntryHitsNoOtherEdge, Boundary
  <2>3. ASSUME NEW dx \in Deltas, NEW dy \in Deltas, RemoteMove(dx, dy)
        PROVE  EntryHitsNoOtherEdge'
    BY <2>3 DEF RemoteMove, EntryHitsNoOtherEdge
  <2>4. ASSUME NEW dx \in Deltas, NEW dy \in Deltas, Preempt(dx, dy)
        PROVE  EntryHitsNoOtherEdge'
    BY <2>4 DEF Preempt, EntryHitsNoOtherEdge
  <2>5. ASSUME Breakout PROVE EntryHitsNoOtherEdge'
    BY <2>5 DEF Breakout, EntryHitsNoOtherEdge
  <2>6. CASE UNCHANGED vars
    BY <2>6 DEF vars, EntryHitsNoOtherEdge, Boundary
  <2> QED  BY <2>1, <2>2, <2>3, <2>4, <2>5, <2>6 DEF Next
<1> QED  BY <1>1, <1>2, PointerOnScreen, PTL DEF Spec

\* The last jump entered the machine that shows the pointer, at its height.
Entered ==
    last # None =>
        /\ last.from \in Machines /\ last.edge \in {Left, Right}
        /\ last.at.y - Display[last.from].y \in 1 .. Display[last.from].height - 1
        /\ last.into.y = EntryHeight(last.from, last.at, shown)

\* Leaving by the edge and at the height of an entry leads back to the height at
\* which the pointer left, up to the rounding of the two ratios, for screens of
\* any two heights.
THEOREM ReturnsToItsHeight == Spec => ReturnsWhereItLeft
<1> DEFINE Close == Distance(pos'.y, last.at.y)
                       <= 1 + (Display[last.from].height \div Display[shown].height)
           Back == /\ last # None /\ user = shown /\ last' # None /\ shown' = last.from
                   /\ last'.edge = opposite(last.edge) /\ last'.at.y = last.into.y
<1>1. Init => Entered
  BY DEF Init, Entered
<1>2. TypeOK /\ Entered /\ [Next]_vars => Entered'
  <2> SUFFICES ASSUME TypeOK, Entered, [Next]_vars PROVE Entered'
    OBVIOUS
  <2>1. ASSUME NEW dx \in Deltas, NEW dy \in Deltas, Jump(dx, dy) PROVE Entered'
    <3>1. user \in Machines
      BY DEF TypeOK
    <3> QED
      BY <2>1, <3>1, JumpHeight DEF Entered, EntryHeight
  <2>2. CASE (last' = last /\ shown' = shown) \/ last' = None
    BY <2>2 DEF Entered, EntryHeight
  <2> QED
    BY <2>1, <2>2 DEF Next, LocalMove, RemoteMove, Preempt, Breakout, vars
<1>3. TypeOK /\ Entered /\ [Next]_vars => [Back => Close]_vars
  <2> SUFFICES ASSUME TypeOK, Entered, Next, Back PROVE Close
    BY DEF vars
  <2>1. PICK dx \in Deltas, dy \in Deltas : Jump(dx, dy)
    <3>1. opposite(last.edge) # last.edge
      BY DEF Entered, opposite, ScreenEdge, Left, Right, Top, Bottom
    <3> QED
      BY <3>1 DEF Next, LocalMove, RemoteMove, Preempt, Breakout
  <2> DEFINE m == last.from
             h == Display[m].height
             g == Display[shown].height
             a == last.at.y - Display[m].y
             b == Along(<<a, h>>, g)
             c == Along(<<b, g>>, h)
  <2>2. /\ m \in Machines /\ shown \in Machines /\ a \in Nat /\ last.at.y \in Int
        /\ last.into.y = Display[shown].y + b
    BY DEF Entered, EntryHeight, TypeOK, Jumps, Points
  <2>3. h \in Nat \ {0} /\ g \in Nat \ {0} /\ Display[m].y \in Int /\ Display[shown].y \in Int
    BY <2>2, BoundaryType, PointerAssumption DEF EntryInset
  <2>4. b \in Int
    BY <2>2, <2>3 DEF Along
  <2>5. pos'.y = Display[m].y + Along(<<last'.at.y - Display[shown].y, g>>, h)
    BY <2>1, JumpHeight DEF EntryHeight
  <2>6. last'.at.y - Display[shown].y = b
    <3> HIDE DEF b
    <3> QED
      BY <2>2, <2>3, <2>4
  <2>7. pos'.y = Display[m].y + c
    BY <2>5, <2>6
  <2>8. c \in Nat /\ c <= a /\ a <= c + 1 + (h \div g) /\ h \div g \in Nat
    <3> HIDE DEF h, g, a
    <3>1. h \div g \in Nat
      BY <2>3
    <3> QED
      BY <2>2, <2>3, <3>1, ThereAndBack
  <2>9. last.at.y = Display[m].y + a
    BY <2>2, <2>3
  <2>10. Distance(Display[m].y + c, Display[m].y + a) <= 1 + (h \div g)
    <3> HIDE DEF h, g, a, c
    <3> QED
      BY <2>2, <2>3, <2>8 DEF Distance
  <2> QED
    BY <2>7, <2>9, <2>10
<1> QED
  BY <1>1, <1>2, <1>3, PointerOnScreen, PTL DEF Spec, ReturnsWhereItLeft
=============================================================================
