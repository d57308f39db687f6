SPECIFICATION FairSpec
CONSTANTS
    Peer = {"a", "b"}
    PeerKey <- TwoKeys
    NatPool <- HandedOn
    Host = {1}
    Port = {1, 2, 3}
    None = None
    RefiltersRing = TRUE
    RingSize = 1
    MaxFaults = 1
    MaxStops = 1
    MaxRebinds = 2
    MaxNoise = 0
PROPERTIES
    Converges
    RebuildHeals
