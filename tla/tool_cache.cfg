CONSTANTS
    main = main
    other = other
    live = live
    static = static
    alpha = alpha
    beta = beta
    gamma = gamma
    get = get
    search = search
    put = put
    NoLoader = NoLoader
    NoServer = NoServer
    Callers <- MCCallers
    Loaders <- MCLoaders
    Descriptors <- MCDescriptors
    Names <- MCNames
    ToolsOf <- MCToolsOf
    Returns <- MCReturns
    MaxVersion = 2
SPECIFICATION ASpec
INVARIANTS
    VersionCountsStores
    DiffsTelescope
    SequentialReloadsAgree
    OwnLoaderOnly
PROPERTIES
    ImplementsCatalog
