CONSTANTS
    accounts = accounts
    billing = billing
    catalog = catalog
    reflection = reflection
    Blank = Blank
    Services <- MCServices
    Internal <- MCInternal
    SortedNames <- MCSortedNames
    Filters <- MCFilters
    Deployed <- MCDeployed
    StreamLimit = 0
    MaxFaults = 4
    Records <- MCRecords
    PathOf <- MCPathOf
    ImportsOf <- MCImportsOf
    ServicesOf <- MCServicesOf
    Versions <- MCVersions
    InPlace = TRUE
SPECIFICATION FairDSpec
INVARIANTS
    DTypeOK
    LoadIsRegular
    LoadIsComplete
    FileLoadIsFaithful
PROPERTIES
    PicksUpChanges
