SPECIFICATION FairSpec
CONSTANTS
    Nil = Nil
    Maps <- MCMaps
    Versions <- MCVersions
    Events <- MCEvents
    Raw <- MCRaw
    Samples <- MCSamples
    Short = {}
    PricedAs <- MCPricedAs
    ManualPrices <- MCManualPrices
    MaxNow = 2
    MaxFaults = 1
    MaxRecordings = 2
    MaxRows = 1
    MaxEvents = 1
INVARIANTS
    ChargedAsTheMap
    CostsHold
    EachTokenChargedOnce
PROPERTY
    MapsTakeEffect
CHECK_DEADLOCK FALSE
