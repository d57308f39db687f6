SPECIFICATION FairSpec
CONSTANTS
    Remote = {r1, r2}
    Local = {l1, l2}
    None = None
    RefiltersRing = TRUE
    RingSize = 2
    MaxFaults = 1
    MaxStops = 1
    MaxByHand = 1
INVARIANTS
    FilterMatches
PROPERTIES
    DevicesStay
    ImplementsRegistry
    PeersAreServed
