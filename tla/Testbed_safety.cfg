SPECIFICATION Spec
CONSTANTS
    R1 = R1
    R2 = R2
    BRG1 = BRG1
    BRGr = BRGr
    h1 = h1
    GW = GW
    None = None
    Node <- ProjectNode
    FirstBatch <- ProjectFirstBatch
    Outside = GW
    Link <- ProjectLink
    Ends <- ProjectEnds
    Chain <- ProjectChain
    LeaseVia <- ProjectLeaseVia
    ReadsAddress <- ProjectReadsAddress
    MaxFaults = 1
    MaxTimeouts = 1
INVARIANTS
    NoMiswiring
    LinksBeforeScripts
    NothingDiesUnprovoked
CHECK_DEADLOCK FALSE
