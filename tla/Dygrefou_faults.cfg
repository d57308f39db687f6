SPECIFICATION FairSpec
CONSTANTS
    Peer = {"a", "b", "c"}
    PeerKey <- KeyIsAddress
    NatPool <- MovingAddress
    Host = {1, 2}
    Port = {1, 2}
    None = None
    RefiltersRing = FALSE
    RingSize = 1
    MaxFaults = 1
    MaxStops = 0
    MaxRebinds = 1
    MaxNoise = 1
INVARIANTS
    InFlightIsAnnounced
PROPERTIES
    ImplementsRegistry
    ServedAgain
