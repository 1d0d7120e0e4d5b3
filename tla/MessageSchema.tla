---------------------------- MODULE MessageSchema ----------------------------
(***************************************************************************)
(* internal/schema/schema.go: ForMessage, the JSON schema of a tool's      *)
(* input, built by a recursion over the fields of message types.           *)
(*                                                                         *)
(* A schema is the set of its positions: a path of field names from the    *)
(* root, with what the schema says there.  One frame of the Go stack       *)
(* stands for messageSchema, fieldSchema and scalarOrMessageSchema.        *)
(***************************************************************************)
EXTENDS Naturals, Sequences

CONSTANTS
    Messages,     \* message types
    WellKnown,    \* those with a case in wellKnownMessageSchema
    Scalars,      \* kinds with a schema of their own
    FieldNames,   \* JSON names
    TypeSystems,  \* the declarations of the message types to look at
    MaxDepth      \* frames the stack of a goroutine has room for

Shapes == {"one", "list", "map"}

\* kind is that of the field, of its elements or of its map values.
Field == [name : FieldNames, kind : Scalars \cup Messages,
          shape : Shapes, required : BOOLEAN]

ASSUME KindsAssumption == WellKnown \subseteq Messages /\ Scalars \cap Messages = {}
ASSUME TypesAssumption == TypeSystems \subseteq [Messages -> Seq(Field)]
ASSUME DepthAssumption == MaxDepth \in Nat \ {0}

VARIABLES
    fields,  \* the fields of each message type
    root,    \* the input type a schema is built for
    stack,   \* active calls: message and index of the field at hand
    schema,  \* the positions built so far
    status   \* "building", "returned" or "overflowed"

vars == <<fields, root, stack, schema, status>>

Frames == [message : Messages, i : Nat]
Frame(m) == [message |-> m, i |-> 1]
Position(path, kind, shape, required) ==
    [path |-> path, kind |-> kind, shape |-> shape, required |-> required]
Object(m) == {Position(<<>>, m, "one", FALSE)}

Init ==
    /\ fields \in TypeSystems
    /\ root \in Messages
    /\ stack = <<Frame(root)>>
    /\ schema = Object(root)
    /\ status = "building"

Top == stack[Len(stack)]
FieldOf(frame) == fields[frame.message][frame.i]
HasField(frame) == frame.i <= Len(fields[frame.message])

\* Where the field at hand is in the schema of the root.
Here == [k \in 1..Len(stack) |-> FieldOf(stack[k]).name]

\* Mutant: the table of well-known types is not consulted.
NestedUnlessScalar(kind) == kind \in Messages
\* Kinds whose schema messageSchema is called for.
Nested(kind) == kind \in Messages \ WellKnown

\* props[field.JSONName()] = ..., and required.
AddField ==
    schema' = schema \cup
        {Position(Here, FieldOf(Top).kind, FieldOf(Top).shape, FieldOf(Top).required)}

Advance(s) == [s EXCEPT ![Len(s)].i = @ + 1]

\* A scalar, an enum or a well-known type: its schema is a literal.
LeafField ==
    /\ status = "building"
    /\ HasField(Top)
    /\ ~Nested(FieldOf(Top).kind)
    /\ AddField
    /\ stack' = Advance(stack)
    /\ UNCHANGED <<fields, root, status>>

\* Mutant: a type that has been expanded before is not expanded again.
MessageFieldOnce ==
    /\ status = "building"
    /\ HasField(Top)
    /\ Nested(FieldOf(Top).kind)
    /\ Len(stack) < MaxDepth
    /\ AddField
    /\ IF \E e \in schema : e.kind = FieldOf(Top).kind
       THEN stack' = Advance(stack)
       ELSE stack' = Append(stack, Frame(FieldOf(Top).kind))
    /\ UNCHANGED <<fields, root, status>>

\* Any other message, alone, as element or as map value: a nested call.
MessageField ==
    /\ status = "building"
    /\ HasField(Top)
    /\ Nested(FieldOf(Top).kind)
    /\ Len(stack) < MaxDepth
    /\ AddField
    /\ stack' = Append(stack, Frame(FieldOf(Top).kind))
    /\ UNCHANGED <<fields, root, status>>

\* A nested call with no room left: the runtime ends the whole process.
Overflow ==
    /\ status = "building"
    /\ HasField(Top)
    /\ Nested(FieldOf(Top).kind)
    /\ Len(stack) = MaxDepth
    /\ status' = "overflowed"
    /\ UNCHANGED <<fields, root, stack, schema>>

\* Mutant: the caller takes up the same field again.
ReturnToSameField ==
    /\ status = "building"
    /\ ~HasField(Top)
    /\ Len(stack) > 1
    /\ stack' = SubSeq(stack, 1, Len(stack) - 1)
    /\ UNCHANGED <<fields, root, schema, status>>

\* messageSchema returns to the field it was called for.
ReturnToField ==
    /\ status = "building"
    /\ ~HasField(Top)
    /\ Len(stack) > 1
    /\ stack' = Advance(SubSeq(stack, 1, Len(stack) - 1))
    /\ UNCHANGED <<fields, root, schema, status>>

\* ForMessage returns to RegisterTools.
ReturnSchema ==
    /\ status = "building"
    /\ ~HasField(Top)
    /\ Len(stack) = 1
    /\ status' = "returned"
    /\ UNCHANGED <<fields, root, stack, schema>>

\* RegisterTools asks for the schema of the next method's input.
ForNextMessage ==
    /\ status = "returned"
    /\ \E m \in Messages :
        /\ root' = m
        /\ stack' = <<Frame(m)>>
        /\ schema' = Object(m)
    /\ status' = "building"
    /\ UNCHANGED fields

Step == LeafField \/ MessageField \/ Overflow \/ ReturnToField \/ ReturnSchema
Next == Step \/ ForNextMessage

Spec == Init /\ [][Next]_vars
FairSpec == Spec /\ WF_vars(Step)

------------------------------------------------------------------------------
TypeOK ==
    /\ fields \in TypeSystems
    /\ root \in Messages
    /\ status \in {"building", "returned", "overflowed"}
    /\ stack \in Seq(Frames)
    /\ Len(stack) \in 1..MaxDepth
    /\ \A k \in 1..Len(stack) : stack[k].i \in 1..(Len(fields[stack[k].message]) + 1)
    /\ \A e \in schema : e.path \in Seq(FieldNames) /\ e.kind \in Scalars \cup Messages

\* The ways down from m: at every step a field, and then the message it is of.
\* They may be one step longer than any recursion that ends well.
Ways(m) ==
    LET frames == UNION {{[message |-> x, i |-> j] : j \in 1..Len(fields[x])} : x \in Messages}
    IN  {way \in UNION {[1..n -> frames] : n \in 1..(MaxDepth + 1)} :
            /\ way[1].message = m
            /\ \A k \in 1..(Len(way) - 1) :
                  /\ way[k + 1].message = FieldOf(way[k]).kind
                  /\ way[k + 1].message \notin WellKnown}

\* What the schema says at the end of a way.
At(way) ==
    LET f == FieldOf(way[Len(way)])
    IN  Position([k \in 1..Len(way) |-> FieldOf(way[k]).name], f.kind, f.shape, f.required)

\* The schema of m, without an order: the root, and a position for every way.
Unfolding(m) == Object(m) \cup {At(way) : way \in Ways(m)}

\* The schema that RegisterTools gets describes every field at every depth,
\* also where a message type occurs twice, and stops at well-known types.
SchemaIsUnfolding == status = "returned" => schema = Unfolding(root)

\* The message types can be ordered so that every nested message comes after
\* the messages that contain it, within MaxDepth places.
IsRank(rank, types) ==
    \A m \in Messages : \A j \in 1..Len(types[m]) :
        types[m][j].kind \in Messages \ WellKnown => rank[types[m][j].kind] < rank[m]
Ranked(types) == \E rank \in [Messages -> 1..MaxDepth] : IsRank(rank, types)

\* Types that do not contain themselves, other than through the well-known
\* types, never exhaust the stack.
NeverOverflows == status = "overflowed" => ~Ranked(fields)

\* Every schema that is asked for is returned, as long as no message type
\* contains itself.
Returns == Ranked(fields) => (status = "building" ~> status = "returned")

\* "your RPC definitions in your gRPC endpoint will be exposed 1:1": the
\* schema of whatever input type is built, and the process lives on.
ExposedOneToOne == status # "overflowed"
==============================================================================
