CONSTANTS
    users = users
    orders = orders
    getUser = getUser
    getOrder = getOrder
    listOrders = listOrders
    r1 = r1
    r2 = r2
    Main = Main
    Loop = Loop
    Live = Live
    NoLoader = NoLoader
    NoServer = NoServer
    Blank = Blank
    Services <- MCServices
    Internal = {}
    Deployed <- MCDeployed
    Filters <- MCFilters
    Filter <- MCFilter
    SortedNames <- MCSortedNames
    StreamLimit = 4
    MaxFaults = 0
    Callers <- MCCallers
    Loaders <- MCLoaders
    Descriptors <- ServiceAt
    Names <- MCNames
    ToolsOf <- MCToolsOf
    Returns <- MCReturns
    MaxVersion = 1
    Requests <- MCRequests
    MaxRequests = 1
    AskedFor <- MCAskedFor
    Interval = TRUE
    CallTimeout = TRUE
SPECIFICATION GSpec
INVARIANTS
    InvokesSelectedRPC
