SPECIFICATION Spec
CONSTANT Busy = FALSE
INVARIANTS
    NeverDoubled
PROPERTIES
    Drains
    HostIsHeard
CHECK_DEADLOCK FALSE
