CONSTANTS
    users = users
    orders = orders
    admin = admin
    u1 = u1
    u2 = u2
    u3 = u3
    u4 = u4
    o1 = o1
    o2 = o2
    o3 = o3
    a1 = a1
    a2 = a2
    Services <- MCServices
    Methods <- MCMethods
    Names <- MCNames
    MethodsOf <- MCMethodsOf
    ToolPrefix <- MCToolPrefix
    BaseName <- MCBaseName
    Streaming <- MCStreaming
    Annotated <- MCAnnotated
    BadTemplate <- MCBadTemplate
    RequireToolAnnotations = TRUE
    Batches <- MCBatches
SPECIFICATION Spec
INVARIANTS
    TypeOK
    FirstEligibleWins
    EveryMethodAccounted
    ServiceIsClaimed
