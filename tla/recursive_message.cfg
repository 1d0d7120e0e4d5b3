CONSTANTS
    Trip = Trip
    Stop = Stop
    Place = Place
    Value = Value
    text = text
    f1 = f1
    f2 = f2
    Messages <- MCMessages
    WellKnown = {Value}
    Scalars = {text}
    FieldNames <- MCFieldNames
    TypeSystems <- MCRecursiveSystems
    MaxDepth = 12
SPECIFICATION Spec
INVARIANTS
    ExposedOneToOne
