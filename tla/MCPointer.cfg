SPECIFICATION Spec
CONSTANTS
    None = None
    A = A
    B = B
    C = C
    Machines = {A, B, C}
    Display <- MCDisplay
    RightPeer <- MCRightPeer
    LeftPeer <- MCLeftPeer
    Threshold = 3
    Deadzone = 4
    Deltas <- MCDeltas
INVARIANTS
    TypeOK
    EntryHitsNoOtherEdge
PROPERTY
    ReturnsWhereItLeft
