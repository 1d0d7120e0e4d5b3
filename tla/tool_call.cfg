CONSTANTS
    stopNames = stopNames
    stop_names = stop_names
    note = note
    unknown = unknown
    authorization = authorization
    user_agent = user_agent
    cookie = cookie
    traceparent = traceparent
    baggage = baggage
    alice = alice
    bob = bob
    utf8 = utf8
    Blank = Blank
    Names <- MCNames
    Headers <- MCHeaders
    Reserved <- MCReserved
    Propagated <- MCPropagated
    Minted <- MCMinted
    HeaderValues <- MCHeaderValues
    Unprintable <- MCUnprintable
    Configured <- MCConfigured
    Scenarios <- MCScenarios
\* a call ends
CHECK_DEADLOCK FALSE
SPECIFICATION Spec
INVARIANTS
    TypeOK
    HeadersForwarded
    SentAsGiven
    RepairCompletes
    RendersReply
