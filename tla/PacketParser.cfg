SPECIFICATION Spec
CONSTANTS
    Ihl = {0, 4, 5, 6, 15}
    MaxLen = 120
    Word = 512
    None = None
INVARIANTS
    CursorExact
    InBounds
    KeyInsideGre
    AcceptedIsWhole
PROPERTIES
    RefusedIsShort
CHECK_DEADLOCK FALSE
