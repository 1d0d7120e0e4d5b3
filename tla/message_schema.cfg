CONSTANTS
    Trip = Trip
    Stop = Stop
    Place = Place
    Value = Value
    text = text
    f1 = f1
    f2 = f2
    Messages <- MCMessages
    WellKnown = {Value}
    Scalars = {text}
    FieldNames <- MCFieldNames
    TypeSystems <- MCTypeSystems
    MaxDepth = 3
\* an overflow ends the process
CHECK_DEADLOCK FALSE
SPECIFICATION FairSpec
INVARIANTS
    SchemaIsUnfolding
    NeverOverflows
PROPERTIES
    Returns
