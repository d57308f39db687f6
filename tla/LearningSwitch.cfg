SPECIFICATION Spec
CONSTANTS
    Talker = {"h1", "h3"}
    MaxFrames = 2
    MaxForgets = 1
INVARIANTS
    DeliversOnce
PROPERTIES
    FloodsEnd
CHECK_DEADLOCK FALSE
