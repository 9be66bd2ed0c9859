SPECIFICATION Spec
CONSTANTS
    None = None
    t = t
    i = i
    Texts <- MCTexts
    Images <- MCImages
    Systems = {"macos", "windows"}
    MaxCount = 5
INVARIANTS
    TypeOK
    NothingForgotten
    NoEcho
    AnnouncedIsServed
PROPERTIES
    CoveredCameLater
    CopiesAreHandled
CHECK_DEADLOCK FALSE
