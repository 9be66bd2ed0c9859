SPECIFICATION Spec
CONSTANTS
    None = None
    a = a
    b = b
    Transfers = {1}
    Contents <- MCContents
    Capacity = 2
    MaxChanges = 2
INVARIANTS
    TypeOK
    InOrder
    UnchangedIsAccepted
    AcceptedExisted
PROPERTY
    TransfersReturn
CHECK_DEADLOCK FALSE
