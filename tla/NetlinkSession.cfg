SPECIFICATION Spec
CONSTANTS
    Name = {n1, n2}
    None = None
    MaxPackets = 3
    MaxChanges = 2
    MaxFaults = 1
INVARIANTS
    AnswersAtHand
    InStep
    DescribesAsked
PROPERTIES
    ReportsItsOwn
    NeverHeals
    Responds
CHECK_DEADLOCK FALSE
