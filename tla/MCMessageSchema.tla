--------------------------- MODULE MCMessageSchema ---------------------------
(* Every declaration of three message types of up to two fields of which     *)
(* each may contain the next ones, and a well-known type that contains       *)
(* itself as google.protobuf.Value does.                                     *)
EXTENDS MessageSchema

CONSTANTS Trip, Stop, Place, Value, text, f1, f2

MCMessages == {Trip, Stop, Place, Value}
MCFieldNames == {f1, f2}

Lists(kinds, shape) ==
    LET first == [name : {f1}, kind : kinds, shape : {shape}, required : {FALSE}]
        second == [name : {f2}, kind : kinds, shape : {"list"}, required : {TRUE}]
    IN  {<<>>} \cup {<<a>> : a \in first} \cup {<<a, b>> : a \in first, b \in second}

ValueFields == <<[name |-> f1, kind |-> text, shape |-> "one", required |-> FALSE],
                 [name |-> f2, kind |-> Value, shape |-> "list", required |-> FALSE]>>

System(trip, stop, place) ==
    [m \in MCMessages |->
        CASE m = Trip -> trip [] m = Stop -> stop [] m = Place -> place [] m = Value -> ValueFields]

MCPlainSystems ==
    {System(t, s, p) : t \in Lists({text, Stop, Place, Value}, "map"),
                       s \in Lists({text, Place}, "one"),
                       p \in Lists({Value}, "one")}

\* A stop may be reached from another stop.
MCRecursiveSystems ==
    {System(<<[name |-> f1, kind |-> Stop, shape |-> "list", required |-> FALSE]>>, s, <<>>) :
        s \in Lists({text, Stop}, "one")}

MCTypeSystems == MCPlainSystems \cup MCRecursiveSystems
==============================================================================
