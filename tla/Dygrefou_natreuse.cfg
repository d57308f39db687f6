SPECIFICATION Spec
CONSTANTS
    Peer = {"a", "b"}
    PeerKey <- TwoKeys
    NatPool <- SharedPool
    Host = {1}
    Port = {1, 2, 3}
    None = None
    RefiltersRing = TRUE
    RingSize = 2
    MaxFaults = 0
    MaxStops = 1
    MaxRebinds = 2
    MaxNoise = 1
INVARIANTS
    FilterMatches
    InHandIsNew
    DistinctEndpoints
