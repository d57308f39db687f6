SPECIFICATION Spec
CONSTANTS
    MaxFaults = 1
    MaxCrashes = 2
PROPERTIES
    HalfOpenHeals
    SessionComesUp
