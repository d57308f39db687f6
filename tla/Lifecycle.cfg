SPECIFICATION LifeSpec
CONSTANTS
    MaxSignals = 2
    None = None
    Text <- MCText
    Number <- MCNumber
    Cut <- MCCut
    Over <- MCOver
    Word <- MCWord
    DeviceLists <- MCDeviceLists
    LinkTables <- MCLinkTables
INVARIANTS
    UseNeedsTwo
    CleanEnd
    AtMostOneLate
PROPERTIES
    Stops
    PicksAsPrinted
    Unattended
CHECK_DEADLOCK FALSE
