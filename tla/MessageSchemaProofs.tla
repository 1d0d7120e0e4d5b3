------------------------- MODULE MessageSchemaProofs -------------------------
(***************************************************************************)
(* Proofs about MessageSchema, for any message types and any stack.        *)
(***************************************************************************)
EXTENDS MessageSchema, TLAPS

\* Every call but the last waits at a field.
CallersAtField == \A k \in 1..(Len(stack) - 1) : HasField(stack[k])

\* The active calls are for message types of falling rank, so there are no
\* more of them than ranks.
DepthByRank ==
    \A rank \in [Messages -> 1..MaxDepth] :
        IsRank(rank, fields) =>
            \A k \in 1..Len(stack) : rank[stack[k].message] + k <= MaxDepth + 1

IInv == TypeOK /\ CallersAtField /\ DepthByRank /\ NeverOverflows

\* A frame of the stack is a message type and an index into its fields.
LEMMA FrameType ==
    ASSUME TypeOK, NEW k \in 1..Len(stack)
    PROVE  /\ stack[k] \in Frames
           /\ stack[k].i \in 1..(Len(fields[stack[k].message]) + 1)
           /\ fields[stack[k].message] \in Seq(Field)
           /\ HasField(stack[k]) =>
                /\ stack[k].i \in 1..Len(fields[stack[k].message])
                /\ FieldOf(stack[k]) \in Field
<1>1. stack[k] \in Frames
  BY DEF TypeOK
<1>2. fields[stack[k].message] \in Seq(Field)
  BY <1>1, TypesAssumption DEF TypeOK, Frames
<1>3. stack[k].i \in 1..(Len(fields[stack[k].message]) + 1)
  BY DEF TypeOK
<1> QED
  BY <1>1, <1>2, <1>3 DEF HasField, FieldOf, Frames

\* The index of the last frame.
LEMMA TopIndex ==
    ASSUME TypeOK
    PROVE  Len(stack) \in 1..Len(stack) /\ Len(stack) \in Nat
BY DEF TypeOK

\* A new position has a path of field names and a known kind.
LEMMA AddFieldType ==
    ASSUME TypeOK, CallersAtField, HasField(Top), AddField
    PROVE  \A e \in schema' : e.path \in Seq(FieldNames) /\ e.kind \in Scalars \cup Messages
<1>1. \A k \in 1..Len(stack) : HasField(stack[k])
  BY TopIndex DEF CallersAtField, Top
<1>2. \A k \in 1..Len(stack) : FieldOf(stack[k]) \in Field
  BY <1>1, FrameType
<1>3. Here \in Seq(FieldNames)
  BY <1>2, TopIndex DEF Here, Field
<1>4. FieldOf(Top).kind \in Scalars \cup Messages
  BY <1>2, TopIndex DEF Top, Field
<1>5. schema' = schema \cup {Position(Here, FieldOf(Top).kind, FieldOf(Top).shape, FieldOf(Top).required)}
  BY DEF AddField
<1> QED
  BY <1>3, <1>4, <1>5 DEF Position, TypeOK

\* Going on to the next field keeps the frames in their bounds.
LEMMA AdvanceType ==
    ASSUME NEW s \in Seq(Frames), Len(s) \in 1..MaxDepth,
           s[Len(s)].i + 1 \in 1..(Len(fields[s[Len(s)].message]) + 1),
           \A k \in 1..Len(s) : s[k].i \in 1..(Len(fields[s[k].message]) + 1)
    PROVE  /\ Advance(s) \in Seq(Frames)
           /\ Len(Advance(s)) = Len(s)
           /\ \A k \in 1..Len(s) : Advance(s)[k].message = s[k].message
           /\ \A k \in 1..(Len(s) - 1) : Advance(s)[k] = s[k]
           /\ \A k \in 1..Len(s) :
                Advance(s)[k].i \in 1..(Len(fields[Advance(s)[k].message]) + 1)
<1> DEFINE n == Len(s)
           next == [message |-> s[n].message, i |-> s[n].i + 1]
<1>1. n \in 1..Len(s) /\ s[n] \in Frames
  OBVIOUS
<1>2. next \in Frames
  BY <1>1 DEF Frames
<1>3. [s[n] EXCEPT !.i = s[n].i + 1] = next
  BY <1>1 DEF Frames
<1>4. Advance(s) = [s EXCEPT ![n] = next]
  BY <1>3 DEF Advance
<1>5. next.message = s[n].message /\ next.i = s[n].i + 1
  OBVIOUS
<1> HIDE DEF next
<1>6. Advance(s) \in Seq(Frames) /\ Len(Advance(s)) = Len(s)
  BY <1>1, <1>2, <1>4
<1>7. \A k \in 1..Len(s) : Advance(s)[k] = IF k = n THEN next ELSE s[k]
  BY <1>1, <1>4
<1> QED
  BY <1>1, <1>5, <1>6, <1>7

LEMMA InitIInv == Init => IInv
<1> SUFFICES ASSUME Init PROVE IInv
  OBVIOUS
<1> USE DepthAssumption, KindsAssumption
<1>1. fields[root] \in Seq(Field)
  BY TypesAssumption DEF Init
<1>2. Frame(root) \in Frames /\ stack = <<Frame(root)>> /\ Frame(root).message = root /\ Frame(root).i = 1
  BY DEF Init, Frame, Frames
<1>3. schema = {Position(<<>>, root, "one", FALSE)}
  BY DEF Init, Object
<1>4. TypeOK
  <2>1. \A e \in schema : e.path \in Seq(FieldNames) /\ e.kind \in Scalars \cup Messages
    <3>1. <<>> \in Seq(FieldNames)
      OBVIOUS
    <3>2. \A e \in schema : e.path = <<>> /\ e.kind = root
      BY <1>3 DEF Position
    <3> QED
      BY <3>1, <3>2 DEF Init
  <2> QED
    BY <1>1, <1>2, <2>1 DEF TypeOK, Init, Frames
<1>5. CallersAtField
  BY <1>2 DEF CallersAtField
<1>6. DepthByRank
  BY <1>2 DEF DepthByRank, Init
<1> QED
  BY <1>4, <1>5, <1>6 DEF IInv, NeverOverflows, Init

\* Frames that are kept, or lose their last, keep their place in the order.
LEMMA RankOfKept ==
    ASSUME DepthByRank, UNCHANGED fields, NEW n \in 1..Len(stack),
           Len(stack') = n, \A k \in 1..n : stack'[k].message = stack[k].message
    PROVE  DepthByRank'
BY DEF DepthByRank, IsRank

\* Frames below the last are not moved by Advance.
LEMMA CallersOfKept ==
    ASSUME CallersAtField, UNCHANGED fields, NEW n \in 1..Len(stack), Len(stack') = n,
           \A k \in 1..(n - 1) : stack'[k] = stack[k]
    PROVE  CallersAtField'
BY DEF CallersAtField, HasField

LEMMA LeafFieldIInv == IInv /\ LeafField => IInv'
<1> SUFFICES ASSUME IInv, LeafField PROVE IInv'
  OBVIOUS
<1> DEFINE n == Len(stack)
<1>1. TypeOK /\ CallersAtField /\ HasField(Top) /\ AddField /\ stack' = Advance(stack) /\ UNCHANGED fields
  BY DEF IInv, LeafField
<1>2. n \in 1..MaxDepth /\ stack \in Seq(Frames) /\ n \in 1..Len(stack)
  BY <1>1, TopIndex DEF TypeOK
<1>3. stack[n].i \in 1..Len(fields[stack[n].message]) /\ fields[stack[n].message] \in Seq(Field)
  BY <1>1, <1>2, FrameType DEF Top
<1>4. stack[n].i + 1 \in 1..(Len(fields[stack[n].message]) + 1)
  BY <1>3
<1>5. \A k \in 1..Len(stack) : stack[k].i \in 1..(Len(fields[stack[k].message]) + 1)
  BY <1>1 DEF TypeOK
<1>6. /\ stack' \in Seq(Frames)
      /\ Len(stack') = n
      /\ \A k \in 1..n : stack'[k].message = stack[k].message
      /\ \A k \in 1..(n - 1) : stack'[k] = stack[k]
      /\ \A k \in 1..n : stack'[k].i \in 1..(Len(fields[stack'[k].message]) + 1)
  BY <1>1, <1>2, <1>4, <1>5, AdvanceType
<1>7. \A e \in schema' : e.path \in Seq(FieldNames) /\ e.kind \in Scalars \cup Messages
  BY <1>1, AddFieldType
<1>8. TypeOK'
  BY <1>1, <1>2, <1>6, <1>7 DEF TypeOK, LeafField
<1>9. CallersAtField'
  BY <1>1, <1>2, <1>6, CallersOfKept
<1>10. DepthByRank'
  BY <1>1, <1>2, <1>6, RankOfKept DEF IInv
<1>11. NeverOverflows'
  BY DEF LeafField, NeverOverflows
<1> QED
  BY <1>8, <1>9, <1>10, <1>11 DEF IInv

\* A nested call: its type has a smaller rank than its caller's.
LEMMA MessageFieldIInv == IInv /\ MessageField => IInv'
<1> SUFFICES ASSUME IInv, MessageField PROVE IInv'
  OBVIOUS
<1> DEFINE n == Len(stack)
           m == FieldOf(Top).kind
<1>1. /\ TypeOK /\ CallersAtField /\ HasField(Top) /\ AddField
      /\ stack' = Append(stack, Frame(m)) /\ UNCHANGED fields
  BY DEF IInv, MessageField
<1>2. n \in 1..MaxDepth /\ stack \in Seq(Frames) /\ n \in 1..Len(stack) /\ n < MaxDepth
  BY <1>1, TopIndex DEF TypeOK, MessageField
<1>3. /\ Top \in Frames
      /\ Top.i \in 1..Len(fields[Top.message])
      /\ fields[Top.message] \in Seq(Field)
  BY <1>1, <1>2, FrameType DEF Top
<1>4. m \in Messages \ WellKnown
  BY DEF MessageField, Nested
<1>5. Frame(m) \in Frames /\ Frame(m).message = m /\ Frame(m).i = 1
  BY <1>4 DEF Frame, Frames
<1>6. fields[m] \in Seq(Field)
  BY <1>1, <1>4, TypesAssumption DEF TypeOK
<1> HIDE DEF m
<1>7. /\ stack' \in Seq(Frames)
      /\ Len(stack') = n + 1
      /\ \A k \in 1..n : stack'[k] = stack[k]
      /\ stack'[n + 1] = Frame(m)
  BY <1>1, <1>2, <1>5
<1>8. \A e \in schema' : e.path \in Seq(FieldNames) /\ e.kind \in Scalars \cup Messages
  BY <1>1, AddFieldType
<1>9. TypeOK'
  <2>1. \A k \in 1..(n + 1) : stack'[k].i \in 1..(Len(fields[stack'[k].message]) + 1)
    BY <1>1, <1>2, <1>5, <1>6, <1>7 DEF TypeOK
  <2>2. UNCHANGED <<fields, root, status>>
    BY DEF MessageField
  <2>3. Len(stack') \in 1..MaxDepth
    BY <1>2, <1>7, DepthAssumption
  <2> QED
    BY <1>1, <1>7, <1>8, <2>1, <2>2, <2>3 DEF TypeOK
<1>10. CallersAtField'
  <2>1. \A k \in 1..n : HasField(stack[k])
    BY <1>1, <1>2 DEF CallersAtField, Top
  <2> QED
    BY <1>1, <1>2, <1>7, <2>1 DEF CallersAtField, HasField
<1>11. DepthByRank'
  <2> SUFFICES ASSUME NEW rank \in [Messages -> 1..MaxDepth], IsRank(rank, fields),
                      NEW k \in 1..(n + 1)
               PROVE  rank[stack'[k].message] + k <= MaxDepth + 1
    BY <1>1, <1>2, <1>7 DEF DepthByRank
  <2>1. \A j \in 1..n : rank[stack[j].message] + j <= MaxDepth + 1
    BY DEF IInv, DepthByRank
  <2>2. fields[Top.message][Top.i].kind = m
    BY DEF m, FieldOf
  <2>3. rank[m] < rank[Top.message]
    BY <1>3, <1>4, <2>2 DEF IsRank, Frames
  <2>4. rank[m] \in 1..MaxDepth /\ rank[Top.message] \in 1..MaxDepth
    BY <1>3, <1>4 DEF Frames
  <2>5. rank[m] + (n + 1) <= MaxDepth + 1
    BY <1>2, <2>1, <2>3, <2>4, DepthAssumption DEF Top
  <2> QED
    BY <1>2, <1>5, <1>7, <2>1, <2>5
<1>12. NeverOverflows'
  BY DEF MessageField, NeverOverflows
<1> QED
  BY <1>9, <1>10, <1>11, <1>12 DEF IInv

\* With no room for another call the last type has the lowest rank, and none
\* is left for the field at hand.
LEMMA OverflowIInv == IInv /\ Overflow => IInv'
<1> SUFFICES ASSUME IInv, Overflow PROVE IInv'
  OBVIOUS
<1>1. TypeOK /\ HasField(Top) /\ Len(stack) = MaxDepth /\ UNCHANGED <<fields, root, stack, schema>>
  BY DEF IInv, Overflow
<1>2. Len(stack) \in 1..Len(stack) /\ MaxDepth \in Nat
  BY <1>1, TopIndex
<1>3. /\ Top \in Frames
      /\ Top.i \in 1..Len(fields[Top.message])
  BY <1>1, <1>2, FrameType DEF Top
<1>4. FieldOf(Top).kind \in Messages \ WellKnown
  BY DEF Overflow, Nested
<1>5. ASSUME Ranked(fields) PROVE FALSE
  <2>1. PICK rank \in [Messages -> 1..MaxDepth] : IsRank(rank, fields)
    BY <1>5 DEF Ranked
  <2>2. rank[Top.message] + MaxDepth <= MaxDepth + 1
    BY <1>1, <1>2, <2>1 DEF IInv, DepthByRank, Top
  <2>3. rank[FieldOf(Top).kind] < rank[Top.message]
    BY <1>3, <1>4, <2>1 DEF IsRank, FieldOf, Frames
  <2>4. rank[FieldOf(Top).kind] \in 1..MaxDepth /\ rank[Top.message] \in 1..MaxDepth
    BY <1>3, <1>4 DEF Frames
  <2> QED
    BY <1>2, <2>2, <2>3, <2>4
<1>6. NeverOverflows'
  BY <1>1, <1>5 DEF NeverOverflows
<1>7. TypeOK' /\ CallersAtField' /\ DepthByRank'
  <2>1. TypeOK'
    BY <1>1 DEF TypeOK, Overflow
  <2>2. CallersAtField'
    BY <1>1 DEF IInv, CallersAtField, HasField
  <2>3. DepthByRank'
    BY <1>1 DEF IInv, DepthByRank
  <2> QED
    BY <2>1, <2>2, <2>3
<1> QED
  BY <1>6, <1>7 DEF IInv

LEMMA ReturnToFieldIInv == IInv /\ ReturnToField => IInv'
<1> SUFFICES ASSUME IInv, ReturnToField PROVE IInv'
  OBVIOUS
<1> DEFINE n == Len(stack) - 1
           s == SubSeq(stack, 1, n)
<1>1. /\ TypeOK /\ CallersAtField /\ Len(stack) > 1
      /\ stack' = Advance(s) /\ UNCHANGED <<fields, root, schema, status>>
  BY DEF IInv, ReturnToField
<1>2. n \in 1..MaxDepth /\ n \in 1..Len(stack) /\ stack \in Seq(Frames) /\ Len(stack) \in Nat
  BY <1>1, DepthAssumption DEF TypeOK
<1>3. s \in Seq(Frames) /\ Len(s) = n /\ \A k \in 1..n : s[k] = stack[k]
  BY <1>2
<1>4. HasField(stack[n])
  BY <1>1, <1>2 DEF CallersAtField
<1>5. stack[n].i \in 1..Len(fields[stack[n].message]) /\ fields[stack[n].message] \in Seq(Field)
  BY <1>1, <1>2, <1>4, FrameType
<1>6. \A k \in 1..n : s[k].i \in 1..(Len(fields[s[k].message]) + 1)
  BY <1>1, <1>2, <1>3 DEF TypeOK
<1>7. s[n].i + 1 \in 1..(Len(fields[s[n].message]) + 1)
  BY <1>2, <1>3, <1>5
<1> HIDE DEF s
<1>8. /\ stack' \in Seq(Frames)
      /\ Len(stack') = n
      /\ \A k \in 1..n : stack'[k].message = stack[k].message
      /\ \A k \in 1..(n - 1) : stack'[k] = stack[k]
      /\ \A k \in 1..n : stack'[k].i \in 1..(Len(fields[stack'[k].message]) + 1)
  <2> HIDE DEF n
  <2>1. /\ Advance(s) \in Seq(Frames)
        /\ Len(Advance(s)) = Len(s)
        /\ \A k \in 1..Len(s) : Advance(s)[k].message = s[k].message
        /\ \A k \in 1..(Len(s) - 1) : Advance(s)[k] = s[k]
        /\ \A k \in 1..Len(s) :
             Advance(s)[k].i \in 1..(Len(fields[Advance(s)[k].message]) + 1)
    BY <1>2, <1>3, <1>6, <1>7, AdvanceType
  <2> QED
    BY <1>1, <1>2, <1>3, <2>1
<1>9. TypeOK'
  BY <1>1, <1>2, <1>8 DEF TypeOK
<1>10. CallersAtField'
  BY <1>1, <1>2, <1>8, CallersOfKept
<1>11. DepthByRank'
  BY <1>1, <1>2, <1>8, RankOfKept DEF IInv
<1>12. NeverOverflows'
  BY <1>1 DEF IInv, NeverOverflows
<1> QED
  BY <1>9, <1>10, <1>11, <1>12 DEF IInv

LEMMA ReturnSchemaIInv == IInv /\ ReturnSchema => IInv'
<1> SUFFICES ASSUME IInv, ReturnSchema PROVE IInv'
  OBVIOUS
<1>1. UNCHANGED <<fields, root, stack, schema>> /\ status' = "returned"
  BY DEF ReturnSchema
<1>2. TypeOK'
  BY <1>1 DEF IInv, TypeOK
<1>3. CallersAtField'
  BY <1>1 DEF IInv, CallersAtField, HasField
<1>4. DepthByRank'
  BY <1>1 DEF IInv, DepthByRank
<1>5. NeverOverflows'
  BY <1>1 DEF NeverOverflows
<1> QED
  BY <1>2, <1>3, <1>4, <1>5 DEF IInv

LEMMA ForNextMessageIInv == IInv /\ ForNextMessage => IInv'
<1> SUFFICES ASSUME IInv, ForNextMessage PROVE IInv'
  OBVIOUS
<1> USE DepthAssumption
<1>1. PICK m \in Messages : root' = m /\ stack' = <<Frame(m)>> /\ schema' = Object(m)
  BY DEF ForNextMessage
<1>2. UNCHANGED fields /\ status' = "building" /\ fields \in TypeSystems
  BY DEF ForNextMessage, IInv, TypeOK
<1>3. fields[m] \in Seq(Field)
  BY <1>2, TypesAssumption
<1>4. Frame(m) \in Frames /\ Frame(m).message = m /\ Frame(m).i = 1
  BY DEF Frame, Frames
<1>5. TypeOK'
  <2>1. <<>> \in Seq(FieldNames)
    OBVIOUS
  <2>2. \A e \in schema' : e.path = <<>> /\ e.kind = m
    BY <1>1 DEF Object, Position
  <2>3. \A e \in schema' : e.path \in Seq(FieldNames) /\ e.kind \in Scalars \cup Messages
    BY <2>1, <2>2
  <2>4. Len(stack') = 1 /\ stack'[1] = Frame(m) /\ stack' \in Seq(Frames)
    BY <1>1, <1>4
  <2> QED
    BY <1>1, <1>2, <1>3, <1>4, <2>3, <2>4 DEF TypeOK
<1>6. CallersAtField'
  BY <1>1 DEF CallersAtField
<1>7. DepthByRank'
  BY <1>1, <1>4 DEF DepthByRank
<1>8. NeverOverflows'
  BY <1>2 DEF NeverOverflows
<1> QED
  BY <1>5, <1>6, <1>7, <1>8 DEF IInv

LEMMA NextIInv == IInv /\ [Next]_vars => IInv'
<1> SUFFICES ASSUME IInv, [Next]_vars PROVE IInv'
  OBVIOUS
<1>1. CASE LeafField BY <1>1, LeafFieldIInv
<1>2. CASE MessageField BY <1>2, MessageFieldIInv
<1>3. CASE Overflow BY <1>3, OverflowIInv
<1>4. CASE ReturnToField BY <1>4, ReturnToFieldIInv
<1>5. CASE ReturnSchema BY <1>5, ReturnSchemaIInv
<1>6. CASE ForNextMessage BY <1>6, ForNextMessageIInv
<1>7. CASE UNCHANGED vars
  <2>1. UNCHANGED <<fields, root, stack, schema, status>>
    BY <1>7 DEF vars
  <2>2. TypeOK'
    BY <2>1 DEF IInv, TypeOK
  <2>3. CallersAtField'
    BY <2>1 DEF IInv, CallersAtField, HasField
  <2>4. DepthByRank'
    BY <2>1 DEF IInv, DepthByRank
  <2>5. NeverOverflows'
    BY <2>1 DEF IInv, NeverOverflows
  <2> QED
    BY <2>2, <2>3, <2>4, <2>5 DEF IInv
<1> QED
  BY <1>1, <1>2, <1>3, <1>4, <1>5, <1>6, <1>7 DEF Next, Step

\* Every variable keeps its type: the schema is made of paths of field names,
\* and no more calls are active than the stack has room for.
THEOREM SchemaTypeCorrect == Spec => []TypeOK
<1>1. IInv => TypeOK
  BY DEF IInv
<1> QED
  BY InitIInv, NextIInv, <1>1, PTL DEF Spec

\* messageSchema never exhausts the stack on types that can be ranked within
\* it, whatever they contain through well-known types.
THEOREM RankedNeverOverflows == Spec => []NeverOverflows
<1>1. IInv => NeverOverflows
  BY DEF IInv
<1> QED
  BY InitIInv, NextIInv, <1>1, PTL DEF Spec

------------------------------------------------------------------------------
\* Every call is for the message of the field its caller is at.
CallersNest ==
    /\ stack[1].message = root
    /\ \A k \in 1..(Len(stack) - 1) :
          /\ stack[k + 1].message = FieldOf(stack[k]).kind
          /\ stack[k + 1].message \notin WellKnown

\* The ways that the recursion has been through: it has gone on to a later field
\* where they part, or it is further down the same way.
Behind(way) ==
    \/ \E k \in 1..Len(stack) :
          /\ k <= Len(way)
          /\ way[k].i < stack[k].i
          /\ \A j \in 1..(k - 1) : way[j] = stack[j]
    \/ Len(way) < Len(stack) /\ \A j \in 1..Len(way) : way[j] = stack[j]

BuiltSoFar == schema = Object(root) \cup {At(way) : way \in {w \in Ways(root) : Behind(w)}}

Finished == status = "returned" => Len(stack) = 1 /\ ~HasField(Top)

SchemaInv == IInv /\ CallersNest /\ BuiltSoFar /\ Finished

\* The frames a way can be made of.
Places == UNION {{[message |-> x, i |-> j] : j \in 1..Len(fields[x])} : x \in Messages}

\* A place is a field of a message type.
LEMMA PlaceFacts ==
    ASSUME TypeOK
    PROVE  \A p : p \in Places <=> p \in Frames /\ p.i \in 1..Len(fields[p.message])
<1>1. \A x \in Messages : fields[x] \in Seq(Field)
  BY TypesAssumption DEF TypeOK
<1>2. ASSUME NEW p \in Places PROVE p \in Frames /\ p.i \in 1..Len(fields[p.message])
  <2>1. PICK x \in Messages : \E j \in 1..Len(fields[x]) : p = [message |-> x, i |-> j]
    BY DEF Places
  <2>2. Len(fields[x]) \in Nat
    BY <1>1
  <2> QED
    BY <2>1, <2>2 DEF Frames
<1>3. ASSUME NEW p \in Frames, p.i \in 1..Len(fields[p.message]) PROVE p \in Places
  <2>1. p = [message |-> p.message, i |-> p.i] /\ p.message \in Messages
    BY DEF Frames
  <2> QED
    BY <1>3, <2>1 DEF Places
<1> QED
  BY <1>2, <1>3

\* A way is a sequence of fields, each of the message of the field before.
LEMMA WayFacts ==
    ASSUME TypeOK, NEW m, NEW way \in Ways(m)
    PROVE  /\ way \in Seq(Frames)
           /\ Len(way) \in 1..(MaxDepth + 1)
           /\ way[1].message = m
           /\ \A k \in 1..Len(way) :
                 way[k] \in Frames /\ way[k].i \in 1..Len(fields[way[k].message])
           /\ \A k \in 1..(Len(way) - 1) :
                 /\ way[k + 1].message = FieldOf(way[k]).kind
                 /\ way[k + 1].message \notin WellKnown
<1>1. PICK n \in 1..(MaxDepth + 1) : way \in [1..n -> Places]
  BY DEF Ways, Places
<1>2. n \in Nat
  BY DepthAssumption
<1>3. way \in Seq(Places) /\ Len(way) = n
  BY <1>1, <1>2
<1>4. \A k \in 1..n : way[k] \in Places
  BY <1>1
<1>5. way \in [1..n -> Frames]
  BY <1>1, <1>4, PlaceFacts
<1>6. way \in Seq(Frames)
  BY <1>2, <1>5
<1> QED
  BY <1>1, <1>3, <1>4, <1>6, PlaceFacts DEF Ways

\* The stack is itself a way, to the field at hand.
LEMMA StackIsWay ==
    ASSUME IInv, CallersNest, HasField(Top)
    PROVE  stack \in Ways(root)
<1>1. TypeOK /\ CallersAtField
  BY DEF IInv
<1>2. Len(stack) \in 1..(MaxDepth + 1) /\ Len(stack) \in Nat /\ stack \in Seq(Frames)
  BY <1>1, DepthAssumption DEF TypeOK
<1>3. ASSUME NEW k \in 1..Len(stack) PROVE stack[k] \in Places
  <2>1. HasField(stack[k])
    BY <1>1, <1>2 DEF CallersAtField, Top
  <2> QED
    BY <1>1, <2>1, FrameType, PlaceFacts
<1>4. stack \in [1..Len(stack) -> Places]
  BY <1>2, <1>3
<1> QED
  BY <1>2, <1>4 DEF Ways, Places, CallersNest

\* Where a way first parts from the stack, both are at the same message.
LEMMA SameMessage ==
    ASSUME IInv, CallersNest, NEW way \in Ways(root),
           NEW k \in 1..Len(stack), k <= Len(way), \A j \in 1..(k - 1) : way[j] = stack[j]
    PROVE  way[k].message = stack[k].message
<1>1. Len(way) \in Nat /\ Len(stack) \in Nat
  BY WayFacts DEF IInv, TypeOK
<1>2. CASE k = 1
  BY <1>2, WayFacts DEF IInv, CallersNest
<1>3. CASE k # 1
  <2>1. k - 1 \in 1..(Len(stack) - 1) /\ k - 1 \in 1..(Len(way) - 1) /\ (k - 1) + 1 = k
    BY <1>1, <1>3
  <2>2. way[k].message = FieldOf(way[k - 1]).kind
    BY <2>1, WayFacts DEF IInv
  <2>3. stack[k].message = FieldOf(stack[k - 1]).kind
    BY <2>1 DEF CallersNest
  <2>4. way[k - 1] = stack[k - 1]
    BY <2>1
  <2> QED
    BY <2>2, <2>3, <2>4
<1> QED
  BY <1>2, <1>3

\* Two sequences of frames that agree everywhere are one.
LEMMA SameWay ==
    ASSUME NEW s \in Seq(Frames), NEW t \in Seq(Frames), Len(s) = Len(t),
           \A k \in 1..Len(s) : s[k] = t[k]
    PROVE  s = t
OBVIOUS

\* A leaf: the ways behind are one more, that to the field.
LEMMA LeafBehind ==
    ASSUME IInv, CallersNest, LeafField, NEW way \in Ways(root)
    PROVE  Behind(way)' <=> Behind(way) \/ way = stack
<1> DEFINE n == Len(stack)
<1>1. TypeOK /\ HasField(Top) /\ stack' = Advance(stack) /\ ~Nested(FieldOf(Top).kind)
  BY DEF IInv, LeafField
<1>2. n \in 1..MaxDepth /\ n \in Nat /\ stack \in Seq(Frames)
  BY <1>1 DEF TypeOK
<1>3. stack[n].i \in Nat /\ stack[n] \in Frames
  BY <1>1, <1>2, FrameType DEF Frames
<1>4. /\ Len(stack') = n
      /\ \A k \in 1..(n - 1) : stack'[k] = stack[k]
      /\ stack'[n].i = stack[n].i + 1
  <2>1. stack' = [stack EXCEPT ![n] = [stack[n] EXCEPT !.i = stack[n].i + 1]]
    BY <1>1 DEF Advance
  <2>2. [stack[n] EXCEPT !.i = stack[n].i + 1].i = stack[n].i + 1
    BY <1>3 DEF Frames
  <2> QED
    BY <1>2, <2>1, <2>2
<1>5. /\ way \in Seq(Frames) /\ Len(way) \in Nat
      /\ \A k \in 1..Len(way) : way[k].i \in Nat /\ way[k] \in Frames
  <2>1. way \in Seq(Frames)
    BY <1>1, WayFacts
  <2>2. \A k \in 1..Len(way) : way[k] \in Frames
    BY <2>1
  <2> QED
    BY <2>1, <2>2 DEF Frames
<1>6. ASSUME Behind(way) PROVE Behind(way)'
  <2>1. CASE \E k \in 1..n : /\ k <= Len(way) /\ way[k].i < stack[k].i
                             /\ \A j \in 1..(k - 1) : way[j] = stack[j]
    <3>1. PICK k \in 1..n : /\ k <= Len(way) /\ way[k].i < stack[k].i
                            /\ \A j \in 1..(k - 1) : way[j] = stack[j]
      BY <2>1
    <3>2. \A j \in 1..(k - 1) : way[j] = stack'[j]
      BY <1>2, <1>4, <3>1
    <3>3. way[k].i < stack'[k].i
      BY <1>2, <1>3, <1>4, <1>5, <3>1
    <3> QED
      BY <1>4, <3>1, <3>2, <3>3 DEF Behind
  <2>2. CASE Len(way) < n /\ \A j \in 1..Len(way) : way[j] = stack[j]
    <3>1. \A j \in 1..Len(way) : way[j] = stack'[j]
      BY <1>2, <1>4, <1>5, <2>2
    <3> QED
      BY <1>4, <2>2, <3>1 DEF Behind
  <2> QED
    BY <1>6, <2>1, <2>2 DEF Behind
<1>7. ASSUME way = stack PROVE Behind(way)'
  <2>1. way[n].i < stack'[n].i /\ n <= Len(way) /\ \A j \in 1..(n - 1) : way[j] = stack'[j]
    BY <1>2, <1>3, <1>4, <1>7
  <2> QED
    BY <1>2, <1>4, <2>1 DEF Behind
<1>8. ASSUME Behind(way)' PROVE Behind(way) \/ way = stack
  <2>1. CASE \E k \in 1..Len(stack') : /\ k <= Len(way) /\ way[k].i < stack'[k].i
                                       /\ \A j \in 1..(k - 1) : way[j] = stack'[j]
    <3>1. PICK k \in 1..n : /\ k <= Len(way) /\ way[k].i < stack'[k].i
                            /\ \A j \in 1..(k - 1) : way[j] = stack'[j]
      BY <1>4, <2>1
    <3>2. \A j \in 1..(k - 1) : way[j] = stack[j]
      BY <1>2, <1>4, <3>1
    <3>3. CASE way[k].i < stack[k].i
      BY <3>1, <3>2, <3>3 DEF Behind
    <3>4. CASE ~(way[k].i < stack[k].i)
      <4>1. k = n
        BY <1>2, <1>4, <3>1, <3>4
      <4>2. way[n].i = stack[n].i
        BY <1>3, <1>4, <1>5, <3>1, <3>4, <4>1
      <4>3. way[n].message = stack[n].message
        BY <1>2, <3>1, <3>2, <4>1, SameMessage
      <4>4. way[n] = stack[n]
        BY <1>2, <1>3, <1>5, <3>1, <4>1, <4>2, <4>3 DEF Frames
      <4>5. Len(way) = n
        <5> SUFFICES ASSUME Len(way) # n PROVE FALSE
          OBVIOUS
        <5>1. n \in 1..(Len(way) - 1) /\ n + 1 \in 1..Len(way)
          BY <1>2, <1>5, <3>1, <4>1
        <5>2. way[n + 1].message = FieldOf(Top).kind /\ way[n + 1].message \notin WellKnown
          BY <1>1, <4>4, <5>1, WayFacts DEF Top
        <5>3. way[n + 1].message \in Messages
          BY <1>5, <5>1 DEF Frames
        <5> QED
          BY <1>1, <5>2, <5>3 DEF Nested
      <4>6. \A j \in 1..Len(way) : way[j] = stack[j]
        BY <1>2, <3>2, <4>1, <4>4, <4>5
      <4> HIDE DEF n
      <4> QED
        BY <1>2, <1>5, <4>5, <4>6, SameWay DEF n
    <3> QED
      BY <3>3, <3>4
  <2>2. CASE Len(way) < Len(stack') /\ \A j \in 1..Len(way) : way[j] = stack'[j]
    <3>1. \A j \in 1..Len(way) : way[j] = stack[j]
      BY <1>2, <1>4, <1>5, <2>2
    <3> QED
      BY <1>4, <2>2, <3>1 DEF Behind
  <2> QED
    BY <1>8, <2>1, <2>2 DEF Behind
<1> QED
  BY <1>6, <1>7, <1>8

\* A call: the ways behind are one more, that to the field it is for.
LEMMA CallBehind ==
    ASSUME IInv, CallersNest, MessageField, NEW way \in Ways(root)
    PROVE  Behind(way)' <=> Behind(way) \/ way = stack
<1> DEFINE n == Len(stack)
           m == FieldOf(Top).kind
<1>1. TypeOK /\ stack' = Append(stack, Frame(m))
  BY DEF IInv, MessageField
<1>2. n \in 1..MaxDepth /\ n \in Nat /\ stack \in Seq(Frames)
  BY <1>1 DEF TypeOK
<1>3. /\ Len(stack') = n + 1
      /\ \A k \in 1..n : stack'[k] = stack[k]
      /\ stack'[n + 1] = Frame(m) /\ Frame(m).i = 1
  BY <1>1, <1>2 DEF Frame
<1>4. /\ way \in Seq(Frames) /\ Len(way) \in Nat
      /\ \A k \in 1..Len(way) : way[k].i \in Nat \ {0}
  <2>1. \A k \in 1..Len(way) : way[k].i \in 1..Len(fields[way[k].message])
    BY <1>1, WayFacts
  <2> QED
    BY <1>1, <2>1, WayFacts
<1>5. ASSUME Behind(way) PROVE Behind(way)'
  <2>1. CASE \E k \in 1..n : /\ k <= Len(way) /\ way[k].i < stack[k].i
                             /\ \A j \in 1..(k - 1) : way[j] = stack[j]
    <3>1. PICK k \in 1..n : /\ k <= Len(way) /\ way[k].i < stack[k].i
                            /\ \A j \in 1..(k - 1) : way[j] = stack[j]
      BY <2>1
    <3>2. k \in 1..Len(stack') /\ way[k].i < stack'[k].i /\ \A j \in 1..(k - 1) : way[j] = stack'[j]
      BY <1>2, <1>3, <3>1
    <3> QED
      BY <3>1, <3>2 DEF Behind
  <2>2. CASE Len(way) < n /\ \A j \in 1..Len(way) : way[j] = stack[j]
    <3>1. Len(way) < Len(stack') /\ \A j \in 1..Len(way) : way[j] = stack'[j]
      BY <1>2, <1>3, <1>4, <2>2
    <3> QED
      BY <3>1 DEF Behind
  <2> QED
    BY <1>5, <2>1, <2>2 DEF Behind
<1>6. ASSUME way = stack PROVE Behind(way)'
  <2>1. Len(way) < Len(stack') /\ \A j \in 1..Len(way) : way[j] = stack'[j]
    BY <1>2, <1>3, <1>6
  <2> QED
    BY <2>1 DEF Behind
<1>7. ASSUME Behind(way)' PROVE Behind(way) \/ way = stack
  <2>1. CASE \E k \in 1..Len(stack') : /\ k <= Len(way) /\ way[k].i < stack'[k].i
                                       /\ \A j \in 1..(k - 1) : way[j] = stack'[j]
    <3>1. PICK k \in 1..Len(stack') : /\ k <= Len(way) /\ way[k].i < stack'[k].i
                                      /\ \A j \in 1..(k - 1) : way[j] = stack'[j]
      BY <2>1
    <3>2. k # n + 1
      BY <1>2, <1>3, <1>4, <3>1
    <3>3. k \in 1..n /\ way[k].i < stack[k].i /\ \A j \in 1..(k - 1) : way[j] = stack[j]
      BY <1>2, <1>3, <3>1, <3>2
    <3> QED
      BY <3>1, <3>3 DEF Behind
  <2>2. CASE Len(way) < Len(stack') /\ \A j \in 1..Len(way) : way[j] = stack'[j]
    <3>1. Len(way) <= n /\ \A j \in 1..Len(way) : way[j] = stack[j]
      BY <1>2, <1>3, <1>4, <2>2
    <3>2. CASE Len(way) < n
      BY <3>1, <3>2 DEF Behind
    <3>3. CASE Len(way) = n
      BY <1>2, <1>4, <3>1, <3>3, SameWay
    <3> QED
      BY <1>2, <1>4, <3>1, <3>2, <3>3
  <2> QED
    BY <1>7, <2>1, <2>2 DEF Behind
<1> QED
  BY <1>5, <1>6, <1>7

\* A return: no way is behind that was not before, since all that lead through
\* the field were.
LEMMA ReturnBehind ==
    ASSUME IInv, CallersNest, ReturnToField, NEW way \in Ways(root)
    PROVE  Behind(way)' <=> Behind(way)
<1> DEFINE n == Len(stack) - 1
           s == SubSeq(stack, 1, n)
<1>1. TypeOK /\ ~HasField(Top) /\ Len(stack) > 1 /\ stack' = Advance(s)
  BY DEF IInv, ReturnToField
<1>2. n \in Nat \ {0} /\ n \in 1..Len(stack) /\ Len(stack) = n + 1 /\ stack \in Seq(Frames)
  BY <1>1 DEF TypeOK
<1>3. s \in Seq(Frames) /\ Len(s) = n /\ \A k \in 1..n : s[k] = stack[k]
  BY <1>2
<1>4. stack[n] \in Frames /\ stack[n].i \in Nat
  <2>1. stack[n] \in Frames
    BY <1>2
  <2> QED
    BY <2>1 DEF Frames
<1> HIDE DEF s, n
<1>5. /\ Len(stack') = n
      /\ \A k \in 1..(n - 1) : stack'[k] = stack[k]
      /\ stack'[n].i = stack[n].i + 1
  <2>1. stack' = [s EXCEPT ![n] = [s[n] EXCEPT !.i = s[n].i + 1]]
    BY <1>1, <1>3 DEF Advance
  <2>2. s[n] = stack[n]
    BY <1>2, <1>3
  <2>3. [s[n] EXCEPT !.i = s[n].i + 1].i = stack[n].i + 1
    BY <1>4, <2>2 DEF Frames
  <2> QED
    BY <1>2, <1>3, <2>1, <2>3
<1>6. /\ way \in Seq(Frames) /\ Len(way) \in Nat
      /\ \A k \in 1..Len(way) : /\ way[k] \in Frames /\ way[k].i \in Nat
                                 /\ way[k].i \in 1..Len(fields[way[k].message])
  <2>1. way \in Seq(Frames) /\ \A k \in 1..Len(way) : way[k].i \in 1..Len(fields[way[k].message])
    BY <1>1, WayFacts
  <2>2. Len(way) \in Nat /\ \A k \in 1..Len(way) : way[k] \in Frames
    BY <2>1
  <2>3. \A k \in 1..Len(way) : way[k].i \in Nat
    BY <2>2 DEF Frames
  <2> QED
    BY <2>1, <2>2, <2>3
<1>7. ~HasField(stack[n + 1]) /\ stack[n + 1].i \in Nat /\ fields[stack[n + 1].message] \in Seq(Field)
  <2>1. n + 1 \in 1..Len(stack)
    BY <1>2
  <2> QED
    BY <1>1, <1>2, <2>1, FrameType DEF Top, Frames
<1>8. ASSUME Behind(way) PROVE Behind(way)'
  <2>1. CASE \E k \in 1..Len(stack) : /\ k <= Len(way) /\ way[k].i < stack[k].i
                                      /\ \A j \in 1..(k - 1) : way[j] = stack[j]
    <3>1. PICK k \in 1..(n + 1) : /\ k <= Len(way) /\ way[k].i < stack[k].i
                                  /\ \A j \in 1..(k - 1) : way[j] = stack[j]
      BY <1>2, <2>1
    <3>2. CASE k < n
      <4>1. k \in 1..Len(stack') /\ way[k].i < stack'[k].i /\ \A j \in 1..(k - 1) : way[j] = stack'[j]
        BY <1>2, <1>5, <3>1, <3>2
      <4> QED
        BY <3>1, <4>1 DEF Behind
    <3>3. CASE k >= n
      <4>1. n <= Len(way) /\ \A j \in 1..(n - 1) : way[j] = stack'[j]
        BY <1>2, <1>5, <1>6, <3>1, <3>3
      <4>2. way[n].i <= stack[n].i
        BY <1>2, <1>4, <1>6, <3>1, <3>3
      <4>3. way[n].i < stack'[n].i /\ n \in 1..Len(stack')
        BY <1>2, <1>4, <1>5, <1>6, <4>1, <4>2
      <4> QED
        BY <4>1, <4>3 DEF Behind
    <3> QED
      BY <1>2, <3>1, <3>2, <3>3
  <2>2. CASE Len(way) < Len(stack) /\ \A j \in 1..Len(way) : way[j] = stack[j]
    <3>1. CASE Len(way) < n
      <4>1. Len(way) < Len(stack') /\ \A j \in 1..Len(way) : way[j] = stack'[j]
        BY <1>2, <1>5, <1>6, <2>2, <3>1
      <4> QED
        BY <4>1 DEF Behind
    <3>2. CASE Len(way) = n
      <4>1. /\ n \in 1..Len(stack') /\ n <= Len(way) /\ way[n].i < stack'[n].i
            /\ \A j \in 1..(n - 1) : way[j] = stack'[j]
        BY <1>2, <1>4, <1>5, <1>6, <2>2, <3>2
      <4> QED
        BY <4>1 DEF Behind
    <3> QED
      BY <1>2, <1>6, <2>2, <3>1, <3>2
  <2> QED
    BY <1>8, <2>1, <2>2 DEF Behind
<1>9. ASSUME Behind(way)' PROVE Behind(way)
  <2>1. CASE \E k \in 1..Len(stack') : /\ k <= Len(way) /\ way[k].i < stack'[k].i
                                       /\ \A j \in 1..(k - 1) : way[j] = stack'[j]
    <3>1. PICK k \in 1..n : /\ k <= Len(way) /\ way[k].i < stack'[k].i
                            /\ \A j \in 1..(k - 1) : way[j] = stack'[j]
      BY <1>5, <2>1
    <3>2. k \in 1..Len(stack) /\ \A j \in 1..(k - 1) : way[j] = stack[j]
      BY <1>2, <1>5, <3>1
    <3>3. CASE way[k].i < stack[k].i
      BY <3>1, <3>2, <3>3 DEF Behind
    <3>4. CASE ~(way[k].i < stack[k].i)
      <4>1. k = n
        BY <1>2, <1>5, <3>1, <3>4
      <4>2. way[n].i = stack[n].i
        BY <1>2, <1>4, <1>5, <1>6, <3>1, <3>4, <4>1
      <4>3. way[n].message = stack[n].message
        BY <3>1, <3>2, <4>1, SameMessage
      <4>4. way[n] = stack[n]
        BY <1>2, <1>4, <1>6, <3>1, <4>1, <4>2, <4>3 DEF Frames
      <4>5. \A j \in 1..n : way[j] = stack[j]
        BY <1>2, <3>2, <4>1, <4>4
      <4>6. CASE Len(way) = n
        <5>1. Len(way) < Len(stack) /\ \A j \in 1..Len(way) : way[j] = stack[j]
          BY <1>2, <4>5, <4>6
        <5> QED
          BY <5>1 DEF Behind
      <4>7. CASE Len(way) # n
        <5>1. n + 1 \in 1..Len(way) /\ n + 1 \in 1..Len(stack) /\ n + 1 <= Len(way)
          BY <1>2, <1>6, <3>1, <4>1, <4>7
        <5>2. \A j \in 1..((n + 1) - 1) : way[j] = stack[j]
          BY <1>2, <4>5
        <5>3. way[n + 1].message = stack[n + 1].message
          BY <5>1, <5>2, SameMessage
        <5>4. way[n + 1].i < stack[n + 1].i
          BY <1>6, <1>7, <5>1, <5>3 DEF HasField
        <5> QED
          BY <5>1, <5>2, <5>4 DEF Behind
      <4> QED
        BY <4>6, <4>7
    <3> QED
      BY <3>3, <3>4
  <2>2. CASE Len(way) < Len(stack') /\ \A j \in 1..Len(way) : way[j] = stack'[j]
    <3>1. Len(way) < Len(stack) /\ \A j \in 1..Len(way) : way[j] = stack[j]
      BY <1>2, <1>5, <1>6, <2>2
    <3> QED
      BY <3>1 DEF Behind
  <2> QED
    BY <1>9, <2>1, <2>2 DEF Behind
<1> QED
  BY <1>8, <1>9

\* What AddField adds is the position at the end of the stack.
LEMMA AddFieldAt ==
    AddField => schema' = schema \cup {At(stack)}
BY DEF AddField, At, Here, Top

LEMMA InitSchemaInv == Init => SchemaInv
<1> SUFFICES ASSUME Init PROVE SchemaInv
  OBVIOUS
<1>1. IInv
  BY InitIInv
<1>2. Len(stack) = 1 /\ stack[1].message = root /\ stack[1].i = 1
  BY DEF Init, Frame
<1>3. CallersNest /\ Finished
  BY <1>2 DEF CallersNest, Finished, Init
<1>4. \A way \in Ways(root) : ~Behind(way)
  <2> TAKE way \in Ways(root)
  <2>1. Len(way) \in 1..(MaxDepth + 1) /\ \A k \in 1..Len(way) : way[k].i \in 1..Len(fields[way[k].message])
    BY <1>1, WayFacts DEF IInv
  <2>2. Len(way) \in Nat \ {0}
    BY <2>1, DepthAssumption
  <2>3. way[1].i \in 1..Len(fields[way[1].message])
    BY <2>1, <2>2
  <2> QED
    BY <1>2, <2>2, <2>3 DEF Behind
<1>5. BuiltSoFar
  BY <1>4 DEF BuiltSoFar, Init
<1> QED
  BY <1>1, <1>3, <1>5 DEF SchemaInv

\* The ways and their ends depend on the message types alone.
LEMMA SameWays ==
    ASSUME UNCHANGED <<fields, root>>
    PROVE  /\ Ways(root)' = Ways(root)
           /\ \A way : At(way)' = At(way)
           /\ Object(root)' = Object(root)
BY DEF Ways, At, FieldOf, Object

\* A field is added, and its way is behind.
LEMMA AddsWay ==
    ASSUME SchemaInv, UNCHANGED <<fields, root>>, HasField(Top), AddField,
           \A way \in Ways(root) : Behind(way)' <=> Behind(way) \/ way = stack
    PROVE  BuiltSoFar'
<1>1. stack \in Ways(root)
  BY StackIsWay DEF SchemaInv
<1>2. schema' = Object(root) \cup {At(way) : way \in {w \in Ways(root) : Behind(w)}} \cup {At(stack)}
  BY AddFieldAt DEF SchemaInv, BuiltSoFar
<1>3. {w \in Ways(root) : Behind(w)'} = {w \in Ways(root) : Behind(w)} \cup {stack}
  BY <1>1
<1>4. schema' = Object(root) \cup {At(way) : way \in {w \in Ways(root) : Behind(w)'}}
  BY <1>2, <1>3
<1> QED
  BY <1>4, SameWays DEF BuiltSoFar

\* Nothing is added, and no other way is behind.
LEMMA KeepsWays ==
    ASSUME SchemaInv, UNCHANGED <<fields, root, schema>>,
           \A way \in Ways(root) : Behind(way)' <=> Behind(way)
    PROVE  BuiltSoFar'
<1>1. {w \in Ways(root) : Behind(w)'} = {w \in Ways(root) : Behind(w)}
  OBVIOUS
<1>2. schema' = Object(root) \cup {At(way) : way \in {w \in Ways(root) : Behind(w)'}}
  BY <1>1 DEF SchemaInv, BuiltSoFar
<1> QED
  BY <1>2, SameWays DEF BuiltSoFar

\* Calls that are kept are still for the messages of their callers' fields.
LEMMA NestOfKept ==
    ASSUME IInv, CallersNest, UNCHANGED <<fields, root>>, NEW n \in 1..Len(stack), Len(stack') = n,
           \A k \in 1..(n - 1) : stack'[k] = stack[k],
           stack'[n].message = stack[n].message
    PROVE  CallersNest'
<1>1. Len(stack) \in Nat
  BY DEF IInv, TypeOK
<1>2. stack'[1].message = root'
  BY <1>1 DEF CallersNest
<1>3. ASSUME NEW k \in 1..(n - 1)
      PROVE  /\ stack'[k + 1].message = FieldOf(stack'[k]).kind
             /\ stack'[k + 1].message \notin WellKnown
  <2>1. stack'[k] = stack[k] /\ stack'[k + 1].message = stack[k + 1].message /\ k \in 1..(Len(stack) - 1)
    BY <1>1
  <2> QED
    BY <2>1 DEF CallersNest
<1>4. \A frame : FieldOf(frame)' = FieldOf(frame)
  BY DEF FieldOf
<1> QED
  BY <1>2, <1>3, <1>4 DEF CallersNest, FieldOf

LEMMA NextSchemaInv == SchemaInv /\ [Next]_vars => SchemaInv'
<1> SUFFICES ASSUME SchemaInv, [Next]_vars PROVE SchemaInv'
  OBVIOUS
<1>1. IInv /\ IInv' /\ CallersNest /\ BuiltSoFar /\ Finished /\ TypeOK
  BY NextIInv DEF SchemaInv, IInv
<1>2. Len(stack) \in Nat \ {0} /\ stack \in Seq(Frames)
  BY <1>1, DepthAssumption DEF TypeOK
<1>3. CASE LeafField
  <2>1. UNCHANGED <<fields, root, status>> /\ HasField(Top) /\ AddField /\ stack' = Advance(stack)
        /\ status = "building"
    BY <1>3 DEF LeafField
  <2>2. BuiltSoFar'
    BY <1>1, <1>3, <2>1, LeafBehind, AddsWay
  <2>3. /\ Len(stack') = Len(stack)
        /\ \A k \in 1..(Len(stack) - 1) : stack'[k] = stack[k]
        /\ stack'[Len(stack)].message = stack[Len(stack)].message
    <3> DEFINE n == Len(stack)
    <3>1. n \in 1..Len(stack) /\ stack[n] \in Frames
      BY <1>2
    <3>2. stack' = [stack EXCEPT ![n] = [stack[n] EXCEPT !.i = stack[n].i + 1]]
      BY <2>1 DEF Advance
    <3>3. [stack[n] EXCEPT !.i = stack[n].i + 1].message = stack[n].message
      BY <3>1 DEF Frames
    <3> QED
      BY <1>2, <3>1, <3>2, <3>3
  <2>4. CallersNest'
    BY <1>1, <1>2, <2>1, <2>3, NestOfKept
  <2> QED
    BY <1>1, <2>1, <2>2, <2>4 DEF SchemaInv, Finished
<1>4. CASE MessageField
  <2> DEFINE m == FieldOf(Top).kind
             n == Len(stack)
  <2>1. UNCHANGED <<fields, root, status>> /\ HasField(Top) /\ AddField
        /\ stack' = Append(stack, Frame(m)) /\ status = "building" /\ m \notin WellKnown
    BY <1>4 DEF MessageField, Nested
  <2>2. BuiltSoFar'
    BY <1>1, <1>4, <2>1, CallBehind, AddsWay
  <2>3. Len(stack') = n + 1 /\ (\A k \in 1..n : stack'[k] = stack[k]) /\ stack'[n + 1].message = m
    BY <1>2, <2>1 DEF Frame
  <2>4. CallersNest'
    <3>1. stack'[1].message = root'
      BY <1>1, <1>2, <2>1, <2>3 DEF CallersNest
    <3>2. ASSUME NEW k \in 1..n
          PROVE  /\ stack'[k + 1].message = fields'[stack'[k].message][stack'[k].i].kind
                 /\ stack'[k + 1].message \notin WellKnown
      <4>1. CASE k = n
        BY <1>2, <2>1, <2>3, <4>1 DEF FieldOf, Top
      <4>2. CASE k # n
        <5>1. k \in 1..(n - 1) /\ k + 1 \in 1..n
          BY <1>2, <4>2
        <5>2. stack[k + 1].message = FieldOf(stack[k]).kind /\ stack[k + 1].message \notin WellKnown
          BY <1>1, <5>1 DEF CallersNest
        <5>3. stack'[k + 1] = stack[k + 1] /\ stack'[k] = stack[k]
          BY <2>3, <5>1
        <5> QED
          BY <2>1, <5>2, <5>3 DEF FieldOf
      <4> QED
        BY <4>1, <4>2
    <3>3. Len(stack') - 1 = n
      BY <1>2, <2>3
    <3> QED
      BY <3>1, <3>2, <3>3 DEF CallersNest, FieldOf
  <2> QED
    BY <1>1, <2>1, <2>2, <2>4 DEF SchemaInv, Finished
<1>5. CASE Overflow
  <2>1. UNCHANGED <<fields, root, stack, schema>> /\ status' = "overflowed"
    BY <1>5 DEF Overflow
  <2>2. CallersNest'
    BY <1>1, <2>1 DEF CallersNest, FieldOf
  <2>3. \A way \in Ways(root) : Behind(way)' <=> Behind(way)
    BY <2>1 DEF Behind
  <2>4. BuiltSoFar'
    BY <2>1, <2>3, KeepsWays
  <2> QED
    BY <1>1, <2>1, <2>2, <2>4 DEF SchemaInv, Finished
<1>6. CASE ReturnToField
  <2>1. UNCHANGED <<fields, root, schema, status>> /\ status = "building" /\ Len(stack) > 1
        /\ stack' = Advance(SubSeq(stack, 1, Len(stack) - 1))
    BY <1>6 DEF ReturnToField
  <2>2. BuiltSoFar'
    BY <1>1, <1>6, <2>1, ReturnBehind, KeepsWays
  <2>3. PICK n \in 1..Len(stack) : n = Len(stack) - 1
    BY <1>2, <2>1
  <2> DEFINE s == SubSeq(stack, 1, n)
  <2>4. s \in Seq(Frames) /\ Len(s) = n /\ \A k \in 1..n : s[k] = stack[k]
    BY <1>2, <2>3
  <2>5. s[n] \in Frames
    BY <1>2, <2>4
  <2> HIDE DEF s
  <2>6. /\ Len(stack') = n
        /\ \A k \in 1..(n - 1) : stack'[k] = stack[k]
        /\ stack'[n].message = stack[n].message
    <3>1. stack' = [s EXCEPT ![n] = [s[n] EXCEPT !.i = s[n].i + 1]]
      BY <2>1, <2>3, <2>4 DEF Advance, s
    <3>2. [s[n] EXCEPT !.i = s[n].i + 1].message = s[n].message
      BY <2>5 DEF Frames
    <3> QED
      BY <1>2, <2>4, <3>1, <3>2
  <2>7. CallersNest'
    BY <1>1, <2>1, <2>6, NestOfKept
  <2> QED
    BY <1>1, <2>1, <2>2, <2>7 DEF SchemaInv, Finished
<1>7. CASE ReturnSchema
  <2>1. UNCHANGED <<fields, root, stack, schema>> /\ Len(stack) = 1 /\ ~HasField(Top)
    BY <1>7 DEF ReturnSchema
  <2>2. CallersNest'
    BY <1>1, <2>1 DEF CallersNest, FieldOf
  <2>3. \A way \in Ways(root) : Behind(way)' <=> Behind(way)
    BY <2>1 DEF Behind
  <2>4. BuiltSoFar'
    BY <2>1, <2>3, KeepsWays
  <2>5. Finished'
    BY <2>1 DEF Finished, HasField, Top
  <2> QED
    BY <1>1, <2>2, <2>4, <2>5 DEF SchemaInv
<1>8. CASE ForNextMessage
  <2>1. PICK m \in Messages : root' = m /\ stack' = <<Frame(m)>> /\ schema' = Object(m)
    BY <1>8 DEF ForNextMessage
  <2>2. status' = "building"
    BY <1>8 DEF ForNextMessage
  <2>3. Len(stack') = 1 /\ stack'[1].message = root' /\ stack'[1].i = 1
    BY <2>1 DEF Frame
  <2>4. CallersNest' /\ Finished'
    BY <2>2, <2>3 DEF CallersNest, Finished
  <2>5. ASSUME NEW way \in Ways(root)' PROVE ~Behind(way)'
    <3>1. Len(way) \in 1..(MaxDepth + 1) /\ \A k \in 1..Len(way) : way[k].i \in 1..Len(fields[way[k].message])
      <4>1. UNCHANGED fields
        BY <1>8 DEF ForNextMessage
      <4>2. Ways(root)' = Ways(m)
        BY <2>1, <4>1 DEF Ways, FieldOf
      <4> QED
        BY <1>1, <2>5, <4>2, WayFacts
    <3>2. Len(way) \in Nat \ {0}
      BY <3>1, DepthAssumption
    <3>3. way[1].i \in 1..Len(fields[way[1].message])
      BY <3>1, <3>2
    <3> QED
      BY <2>3, <3>2, <3>3 DEF Behind
  <2>6. Object(root)' = Object(m)
    BY <2>1 DEF Object
  <2>7. BuiltSoFar'
    BY <2>1, <2>5, <2>6 DEF BuiltSoFar
  <2> QED
    BY <1>1, <2>4, <2>7 DEF SchemaInv
<1>9. CASE UNCHANGED vars
  <2>1. UNCHANGED <<fields, root, stack, schema, status>>
    BY <1>9 DEF vars
  <2>2. CallersNest' /\ Finished'
    BY <1>1, <2>1 DEF CallersNest, FieldOf, Finished, HasField, Top
  <2>3. \A way \in Ways(root) : Behind(way)' <=> Behind(way)
    BY <2>1 DEF Behind
  <2>4. BuiltSoFar'
    BY <2>1, <2>3, KeepsWays
  <2> QED
    BY <1>1, <2>2, <2>4 DEF SchemaInv
<1> QED
  BY <1>3, <1>4, <1>5, <1>6, <1>7, <1>8, <1>9 DEF Next, Step

\* The schema that is returned describes every field at the end of every way
\* down from the input type, and nothing else, also where a message type occurs
\* in several places; and it says nothing below a well-known type.
THEOREM SchemaIsWhole == Spec => []SchemaIsUnfolding
<1>1. SchemaInv => SchemaIsUnfolding
  <2> SUFFICES ASSUME SchemaInv, status = "returned" PROVE schema = Unfolding(root)
    BY DEF SchemaIsUnfolding
  <2>1. TypeOK /\ CallersNest /\ Len(stack) = 1 /\ ~HasField(Top)
    BY DEF SchemaInv, IInv, Finished
  <2>2. stack[1].message = root /\ stack[1].i > Len(fields[root])
    <3>1. fields[root] \in Seq(Field)
      BY <2>1, TypesAssumption DEF TypeOK
    <3>2. stack[1].i \in Nat /\ stack[1].message = root
      BY <2>1 DEF TypeOK, Frames, CallersNest
    <3> QED
      BY <2>1, <3>1, <3>2 DEF HasField, Top
  <2>3. ASSUME NEW way \in Ways(root) PROVE Behind(way)
    <3>1. /\ Len(way) \in 1..(MaxDepth + 1) /\ way[1].message = root
          /\ \A k \in 1..Len(way) : way[k].i \in 1..Len(fields[way[k].message])
      BY <2>1, WayFacts
    <3>2. 1 \in 1..Len(way) /\ 1 <= Len(way)
      BY <3>1, DepthAssumption
    <3>3. way[1].i \in 1..Len(fields[root])
      BY <3>1, <3>2
    <3>4. way[1].i < stack[1].i
      <4>1. fields[root] \in Seq(Field)
        BY <2>1, TypesAssumption DEF TypeOK
      <4>2. stack[1].i \in Nat
        BY <2>1 DEF TypeOK, Frames
      <4> QED
        BY <2>2, <3>3, <4>1, <4>2
    <3> QED
      BY <2>1, <3>2, <3>4 DEF Behind
  <2>4. {w \in Ways(root) : Behind(w)} = Ways(root)
    BY <2>3
  <2> QED
    BY <2>4 DEF SchemaInv, BuiltSoFar, Unfolding
<1> QED
  BY InitSchemaInv, NextSchemaInv, <1>1, PTL DEF Spec
==============================================================================
